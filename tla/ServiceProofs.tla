----------------------------- MODULE ServiceProofs -----------------------------
(* The engine that nothing disturbs: no abort, no RetryAgent, no check that  *)
(* throws.  For every set of goals, dependency map and outcome it keeps a    *)
(* goal's job single and over satisfied dependencies, never restarts a       *)
(* prover, answers truthfully, and takes only steps of GoalService.          *)
EXTENDS DependencyProofs

-----------------------------------------------------------------------------
(* Queues, and the messages of a mailbox by what they say.                   *)
Has(q, M) == \E i \in 1..Len(q) : q[i] \in M
One(q, M) == \A i, j \in 1..Len(q) : q[i] \in M /\ q[j] \in M => i = j
Precede(q, M, N) == \A i, j \in 1..Len(q) : q[i] \in M /\ q[j] \in N => i < j

From(r) == [type : {"Satisfy"}, from : {r}, force : BOOLEAN]
About(d, types) == [type : types, status : {<<d, 0>>}]
AnyNews == [type : News, status : Goals \X {0}]
Results == [type : {"EvidenceCheckResult"}, id : Nat, exists : BOOLEAN]
JobReports == [type : {"JobRunSuccess", "JobRunFailed"}]

\* q2 is q1 and then n times m.
Follows(q2, q1, m, n) == q2 = q1 \o [i \in 1..n |-> m]

\* What is left when the head is taken.
LEMMA TailHas ==
  ASSUME NEW S, NEW q \in Seq(S), q # <<>>, NEW M, NEW N
  PROVE  /\ Has(Tail(q), M) => Has(q, M)
         /\ Has(q, M) => Head(q) \in M \/ Has(Tail(q), M)
         /\ Head(q) \in M => Has(q, M)
         /\ One(q, M) => One(Tail(q), M)
         /\ One(q, M) /\ Head(q) \in M => ~Has(Tail(q), M)
         /\ Precede(q, M, N) => Precede(Tail(q), M, N)
         /\ Precede(q, M, N) /\ Head(q) \in N => ~Has(q, M)
<1>1. /\ Len(q) \in Nat /\ Len(q) > 0 /\ Len(Tail(q)) = Len(q) - 1
      /\ \A i \in 1..Len(Tail(q)) : i + 1 \in 1..Len(q) /\ Tail(q)[i] = q[i + 1]
      /\ 1 \in 1..Len(q) /\ Head(q) = q[1]
  OBVIOUS
<1>2. \A i \in 1..Len(q) : i = 1 \/ (i - 1 \in 1..Len(Tail(q)) /\ Tail(q)[i - 1] = q[i])
  BY <1>1
<1>3. /\ Has(Tail(q), M) => Has(q, M)
      /\ Has(q, M) => Head(q) \in M \/ Has(Tail(q), M)
      /\ Head(q) \in M => Has(q, M)
  BY <1>1, <1>2 DEF Has
<1>4. One(q, M) => One(Tail(q), M)
  BY <1>1 DEF One
<1>5. One(q, M) /\ Head(q) \in M => ~Has(Tail(q), M)
  <2>. SUFFICES ASSUME One(q, M), Head(q) \in M, NEW i \in 1..Len(Tail(q)), Tail(q)[i] \in M
                PROVE  FALSE
    BY DEF Has
  <2>1. i + 1 = 1
    BY <1>1 DEF One
  <2>. QED  BY <1>1, <2>1
<1>6. Precede(q, M, N) => Precede(Tail(q), M, N)
  BY <1>1 DEF Precede
<1>7. Precede(q, M, N) /\ Head(q) \in N => ~Has(q, M)
  BY <1>1 DEF Precede, Has
<1>. QED  BY <1>3, <1>4, <1>5, <1>6, <1>7

\* What is there when copies of a message have been added.
LEMMA FollowsHas ==
  ASSUME NEW S, NEW q1 \in Seq(S), NEW m \in S, NEW n \in Nat, NEW q2,
         Follows(q2, q1, m, n), NEW M, NEW N
  PROVE  /\ q2 \in Seq(S)
         /\ Has(q2, M) <=> Has(q1, M) \/ (n > 0 /\ m \in M)
         /\ One(q1, M) /\ (n = 0 \/ m \notin M \/ (~Has(q1, M) /\ n = 1)) => One(q2, M)
         /\ Precede(q1, M, N) /\ (n = 0 \/ m \notin M \/ (~Has(q1, N) /\ m \notin N))
              => Precede(q2, M, N)
<1>. DEFINE r == [i \in 1..n |-> m]
<1>1. r \in Seq(S) /\ Len(r) = n
  OBVIOUS
<1>2. /\ q2 \in Seq(S) /\ Len(q2) = Len(q1) + n /\ Len(q1) \in Nat
      /\ \A i \in 1..Len(q1) : i \in 1..Len(q2) /\ q2[i] = q1[i]
      /\ \A i \in 1..Len(q2) : i \notin 1..Len(q1) => i > Len(q1) /\ q2[i] = m
  <2>1. q2 = q1 \o r
    BY DEF Follows
  <2>2. \A i \in 1..n : r[i] = m
    OBVIOUS
  <2>. HIDE DEF r
  <2>3. q2 \in Seq(S) /\ Len(q2) = Len(q1) + n /\ Len(q1) \in Nat
    <3>1. q1 \o r \in Seq(S)
      BY <1>1
    <3>2. Len(q1 \o r) = Len(q1) + Len(r)
      BY <1>1
    <3>. QED  BY <1>1, <2>1, <3>1, <3>2
  <2>4. ASSUME NEW i \in 1..Len(q2)
        PROVE  q2[i] = IF i <= Len(q1) THEN q1[i] ELSE r[i - Len(q1)]
    BY <1>1, <2>1, <2>3
  <2>. QED  BY <2>2, <2>3, <2>4
<1>3. Has(q2, M) <=> Has(q1, M) \/ (n > 0 /\ m \in M)
  <2>1. Has(q2, M) => Has(q1, M) \/ (n > 0 /\ m \in M)
    BY <1>2 DEF Has
  <2>2. Has(q1, M) => Has(q2, M)
    BY <1>2 DEF Has
  <2>3. n > 0 => Len(q2) \in 1..Len(q2) /\ q2[Len(q2)] = m
    BY <1>2
  <2>. QED  BY <2>1, <2>2, <2>3 DEF Has
<1>4. ASSUME One(q1, M), n = 0 \/ m \notin M \/ (~Has(q1, M) /\ n = 1)
      PROVE  One(q2, M)
  BY <1>2, <1>4 DEF One, Has
<1>5. ASSUME Precede(q1, M, N), n = 0 \/ m \notin M \/ (~Has(q1, N) /\ m \notin N)
      PROVE  Precede(q2, M, N)
  BY <1>2, <1>5 DEF Precede, Has
<1>. QED  BY <1>2, <1>3, <1>4, <1>5
-----------------------------------------------------------------------------
(* Nothing is aborted or retried, no check throws, and the goals whose       *)
(* status is asked for are forced, as every goal satisfyGoal is called for.  *)
Undisturbed ==
  /\ Retryable = {} /\ (Abortable = {} \/ MaxAborts = 0)
  /\ "throws" \notin CheckOutcomes
  /\ FALSE \in ForceModes => Queried = {}

\* Each entry of the dependency map leads to a prover of its own.
Distinct(g) == \A e, f \in Dependencies[g] : e[2] = f[2] => e = f

\* What the state tells of a goal that has dependencies: that it has sent each of
\* them its request, and that it has gone on since.
HasAskedAll(g) ==
  /\ HasDependencies(g) /\ g \notin BadWitness
  /\ \/ Waits(g) \/ state[g] \in {"Running", "Success", "Failed"}
     \/ force[g] /\ state[g] \in {"CheckingEvidence", "AlreadySatisfied"}
Through(g) == HasAskedAll(g) /\ ~Waits(g)

Heard(g, d) == <<d, 0>> \in childStatus[g]

\* No news is left of the dependencies.  A page's query may have told of one
\* before its news came; that is then taken before the check or the job ends.
NewsOver(g) ==
  \/ g \notin Queried
  \/ state[g] \in {"Success", "Failed", "AlreadySatisfied"}
  \/ state[g] = "Running" /\ HasEvidence(g)
-----------------------------------------------------------------------------
(* The invariant, in parts.                                                  *)

\* No prover has been restarted, nothing is aborted, retried or orphaned, and all is
\* forced if clients always force.
Unwelcome ==
  {m \in Message : \/ m.type \in {"Abort", "RestartJob"}
                   \/ m.type \in News /\ m.status[2] # 0
                   \/ FALSE \notin ForceModes /\ m.type = "Satisfy" /\ ~m.force}
Calm(g) ==
  /\ incarnation[g] = 0 /\ orphans[g] = 0 /\ timers[g] = 0 /\ ~retryUp[g]
  /\ retryAgent \notin listeners[g] /\ state[g] # "Aborted"
  /\ FALSE \notin ForceModes /\ state[g] # "Unstarted" => force[g]
  /\ ~Has(mailbox[g], Unwelcome)
  /\ \A s \in childStatus[g] : s[2] = 0

\* The job of a running goal is in one place: asked for, executing or reported.
\* No other goal has one, and none has had one before it ran.
JobIn(g, box, exec, reported) ==
  /\ runnerBox[g] = box /\ futures[g] = exec
  /\ Has(mailbox[g], JobReports) = reported
Jobs(g) ==
  /\ One(mailbox[g], JobReports)
  /\ finishing[g] \in {0, 1}
  /\ runner[g] <=> (runnerBox[g] # <<>> \/ futures[g] = 1 \/ finishing[g] = 1)
  /\ IF state[g] = "Running"
     THEN \/ finishing[g] = 0 /\ JobIn(g, <<"Satisfy">>, 0, FALSE)
          \/ finishing[g] = 0 /\ JobIn(g, <<>>, 1, FALSE)
          \/ JobIn(g, <<>>, 0, TRUE)
     ELSE JobIn(g, <<>>, 0, FALSE)
  /\ state[g] \in {"Running", "Success", "Failed"} \/ (~runner[g] /\ ~jobRunner[g])

\* Checks belong to a goal that has evidence and has begun to look for it; a goal
\* that is forced has asked its dependencies before it did.
Checks(g) ==
  /\ evidenceActors[g] = checkers[g]
  /\ checkers[g] # {} \/ probes[g] # {} \/ Has(mailbox[g], Results)
     => /\ HasEvidence(g) /\ state[g] # "Unstarted"
        /\ ~(force[g] /\ Waits(g))
  /\ state[g] \in {"CheckingEvidence", "AlreadySatisfied"} => HasEvidence(g)

\* Before it asks, and but of those it asks, a goal hears nothing.
Silent(g, d) ==
  ~(HasAskedAll(g) /\ d \in Children(g)) =>
     /\ ~Has(mailbox[d], From(g)) /\ g \notin listeners[d]
     /\ ~Has(mailbox[g], About(d, News)) /\ ~Heard(g, d)

\* News is true, and stays true.
NewsTrue(g, d) ==
  /\ Has(mailbox[g], About(d, {"GoalSuccess"})) => state[d] \in Satisfied
  /\ Has(mailbox[g], About(d, {"GoalFailure"})) => state[d] \in Unsatisfied
  /\ Heard(g, d) /\ g \notin Queried => state[d] \notin Unfinished

\* A dependency of a single entry is asked once and tells its success once.
Once(g, d) ==
  Distinct(g) /\ d \in Children(g) =>
  /\ One(mailbox[d], From(g))
  /\ Has(mailbox[d], From(g)) => /\ g \notin listeners[d] /\ ~Heard(g, d)
                                 /\ ~Has(mailbox[g], About(d, News))
  /\ state[d] \in Satisfied =>
       /\ One(mailbox[g], About(d, News))
       /\ g \notin Queried /\ Has(mailbox[g], About(d, News)) => ~Heard(g, d)

\* A goal goes on over satisfied dependencies, all of which it has heard of.
Passed(g) ==
  Through(g) =>
  /\ Distinct(g)
  /\ \A d \in Children(g) : /\ state[d] \in Satisfied /\ Heard(g, d)
                            /\ NewsOver(g) => ~Has(mailbox[g], About(d, News))

\* Of a goal whose status is asked for: news comes before results and reports, and
\* until then the checkers are those that were created.
Ordered(g) ==
  g \in Queried =>
  /\ Precede(mailbox[g], AnyNews, Results \cup JobReports)
  /\ Has(mailbox[g], AnyNews) => checkers[g] = 1..Cardinality(checkers[g])

\* Only a failed dependency makes a goal fail for its dependencies.
Stuck(g) ==
  /\ state[g] = "DependencyFailed" =>
       \E d \in Children(g) : Heard(g, d) /\ state[d] \in Unsatisfied
  /\ Waits(g) => HasDependencies(g) /\ g \notin BadWitness
  /\ g \in BadWitness /\ HasDependencies(g) =>
       \/ state[g] \in {"Unstarted", "Failed"}
       \/ state[g] = "CheckingEvidence" /\ ~force[g]

\* A client is heard by the goal it asked for, and told its outcome once it has one.
ClientTold(c) ==
  /\ reply[c] = "GoalSuccess" => state[asked[c]] \in Satisfied
  /\ reply[c] = "GoalFailure" => state[asked[c]] \in Unsatisfied
  /\ asked[c] = NoValue => reply[c] = "none"
  /\ \A g \in Goals :
       /\ Has(mailbox[g], From(c)) \/ c \in listeners[g] => asked[c] = g
       /\ c \in listeners[g] /\ state[g] \notin Unfinished /\ reply[c] = "waiting"
            => g \in BadWitness /\ HasDependencies(g)

Own(g) == Calm(g) /\ Jobs(g) /\ Checks(g)
Bonds == /\ \A g, d \in Goals : Silent(g, d) /\ NewsTrue(g, d) /\ Once(g, d)
         /\ \A g \in Goals : Passed(g) /\ Ordered(g) /\ Stuck(g)
ServiceInv ==
  /\ \A g \in Goals : Own(g)
  /\ Bonds
  /\ \A c \in Clients : ClientTold(c)
-----------------------------------------------------------------------------
(* What a handler of g leaves in the mailboxes.                              *)
NewsOf(g, t) == [type |-> t, status |-> <<g, 0>>]

\* The kinds a message of each type is of.
LEMMA Kinds ==
  ASSUME NEW m \in Message
  PROVE  /\ \A r : m \in From(r) <=> m.type = "Satisfy" /\ m.from = r
         /\ \A d, ts : m \in About(d, ts) <=> m.type \in ts \cap News /\ m.status = <<d, 0>>
         /\ m \in AnyNews <=> m.type \in News /\ m.status[2] = 0
         /\ m \in Results <=> m.type = "EvidenceCheckResult"
         /\ m \in JobReports <=> m.type \in {"JobRunSuccess", "JobRunFailed"}
  BY DEF Message, From, About, AnyNews, Results, JobReports, News, Status

\* Every mailbox after the step is the one before, without the message g takes,
\* and then n times the message m.
LEMMA MailHas ==
  ASSUME TypeOK, NEW g \in Goals, mailbox[g] # <<>>, NEW x \in Goals,
         NEW m \in Message, NEW n \in Nat,
         Follows(mailbox'[x], Taken(g)[x], m, n), NEW M, NEW N
  PROVE  /\ Has(mailbox'[x], M) => Has(mailbox[x], M) \/ (n > 0 /\ m \in M)
         /\ Has(mailbox[x], M) => \/ Has(mailbox'[x], M)
                                  \/ x = g /\ Head(mailbox[g]) \in M
         /\ /\ One(mailbox[x], M)
            /\ n = 0 \/ m \notin M \/ (~Has(mailbox[x], M) /\ n = 1)
            => One(mailbox'[x], M)
         /\ /\ x = g /\ One(mailbox[g], M) /\ Head(mailbox[g]) \in M
            /\ n = 0 \/ m \notin M
            => ~Has(mailbox'[g], M)
         /\ /\ Precede(mailbox[x], M, N)
            /\ n = 0 \/ m \notin M \/ (~Has(mailbox[x], N) /\ m \notin N)
            => Precede(mailbox'[x], M, N)
<1>1. mailbox[x] \in Seq(Message) /\ mailbox[g] \in Seq(Message)
  BY DEF TypeOK, BoxTypeOK
<1>2. Taken(g)[x] = IF x = g THEN Tail(mailbox[g]) ELSE mailbox[x]
  BY DEF Taken, TypeOK, BoxTypeOK
<1>3. Taken(g)[x] \in Seq(Message)
  BY <1>1, <1>2
<1>4. /\ Has(Taken(g)[x], M) => Has(mailbox[x], M)
      /\ Has(Taken(g)[x], N) => Has(mailbox[x], N)
      /\ Has(mailbox[x], M) => Has(Taken(g)[x], M) \/ (x = g /\ Head(mailbox[g]) \in M)
      /\ One(mailbox[x], M) => One(Taken(g)[x], M)
      /\ x = g /\ One(mailbox[g], M) /\ Head(mailbox[g]) \in M => ~Has(Taken(g)[x], M)
      /\ Precede(mailbox[x], M, N) => Precede(Taken(g)[x], M, N)
  <2>1. CASE x # g
    BY <1>2, <2>1
  <2>2. CASE x = g
    <3>1. Taken(g)[x] = Tail(mailbox[x]) /\ mailbox[x] \in Seq(Message) /\ mailbox[x] # <<>>
      BY <1>1, <1>2, <2>2
    <3>2. Has(Tail(mailbox[x]), N) => Has(mailbox[x], N)
      BY <3>1, TailHas
    <3>3. /\ Has(Tail(mailbox[x]), M) => Has(mailbox[x], M)
          /\ Has(mailbox[x], M) => Head(mailbox[x]) \in M \/ Has(Tail(mailbox[x]), M)
          /\ One(mailbox[x], M) => One(Tail(mailbox[x]), M)
          /\ One(mailbox[x], M) /\ Head(mailbox[x]) \in M => ~Has(Tail(mailbox[x]), M)
      BY <3>1, TailHas
    <3>4. Precede(mailbox[x], M, N) => Precede(Tail(mailbox[x]), M, N)
      BY <3>1, TailHas
    <3>. QED  BY <2>2, <3>1, <3>2, <3>3, <3>4
  <2>. QED  BY <2>1, <2>2
<1>5. /\ Has(mailbox'[x], M) <=> Has(Taken(g)[x], M) \/ (n > 0 /\ m \in M)
      /\ /\ One(Taken(g)[x], M)
         /\ n = 0 \/ m \notin M \/ (~Has(Taken(g)[x], M) /\ n = 1)
         => One(mailbox'[x], M)
      /\ /\ Precede(Taken(g)[x], M, N)
         /\ n = 0 \/ m \notin M \/ (~Has(Taken(g)[x], N) /\ m \notin N)
         => Precede(mailbox'[x], M, N)
  BY <1>3, FollowsHas
<1>. QED  BY <1>4, <1>5

LEMMA QuietFollows ==
  ASSUME TypeOK, NEW g \in Goals, mailbox[g] # <<>>, Quiet(Taken(g)), NEW x \in Goals
  PROVE  Follows(mailbox'[x], Taken(g)[x], UnexpectedMsg, 0)
<1>1. Taken(g)[x] \in Seq(Message)
  BY TakenTyped
<1>2. mailbox'[x] = Taken(g)[x]
  BY DEF Quiet
<1>3. Taken(g)[x] \o [i \in 1..0 |-> UnexpectedMsg] = Taken(g)[x]
  <2>1. [i \in 1..0 |-> UnexpectedMsg] = <<>>
    OBVIOUS
  <2>. QED  BY <1>1, <2>1
<1>. QED  BY <1>2, <1>3 DEF Follows

LEMMA PublishFollows ==
  ASSUME TypeOK, NEW g \in Goals, mailbox[g] # <<>>, incarnation[g] = 0,
         NEW t \in News, NEW L, Publish(g, t, L, Taken(g)), NEW x \in Goals
  PROVE  /\ NewsOf(g, t) \in Message
         /\ Follows(mailbox'[x], Taken(g)[x], NewsOf(g, t), IF x \in L THEN 1 ELSE 0)
<1>1. Taken(g)[x] \in Seq(Message)
  BY TakenTyped
<1>2. GoalMsg(t, g) = NewsOf(g, t)
  BY DEF GoalMsg, StatusOf, NewsOf
<1>3. NewsOf(g, t) \in Message
  BY MessageTyped DEF NewsOf, Status, News
<1>4. mailbox'[x] = IF x \in L THEN Append(Taken(g)[x], NewsOf(g, t)) ELSE Taken(g)[x]
  BY <1>2 DEF Publish
<1>5. [i \in 1..0 |-> NewsOf(g, t)] = <<>> /\ [i \in 1..1 |-> NewsOf(g, t)] = <<NewsOf(g, t)>>
  OBVIOUS
<1>6. Taken(g)[x] \o <<>> = Taken(g)[x]
  BY <1>1
<1>7. Append(Taken(g)[x], NewsOf(g, t)) = Taken(g)[x] \o <<NewsOf(g, t)>>
  BY <1>1, <1>3
<1>. QED  BY <1>3, <1>4, <1>5, <1>6, <1>7 DEF Follows

\* satisfy() sends a request for each entry.
Asking(g, f) ==
  LET sent(d) == [e \in 1..Cardinality(Entries(g, d)) |-> SatisfyMsg(g, f)] IN
  Quiet([h \in Goals |-> Taken(g)[h] \o sent(h)])

LEMMA AskFollows ==
  ASSUME TypeOK, NEW g \in Goals, mailbox[g] # <<>>,
         NEW f \in BOOLEAN, Asking(g, f), NEW x \in Goals
  PROVE  /\ SatisfyMsg(g, f) \in Message
         /\ Cardinality(Entries(g, x)) \in Nat
         /\ Cardinality(Entries(g, x)) > 0 <=> x \in Children(g)
         /\ Distinct(g) => Cardinality(Entries(g, x)) <= 1
         /\ Follows(mailbox'[x], Taken(g)[x], SatisfyMsg(g, f), Cardinality(Entries(g, x)))
<1>1. SatisfyMsg(g, f) \in Message
  BY MessageTyped DEF Requesters
<1>2. Follows(mailbox'[x], Taken(g)[x], SatisfyMsg(g, f), Cardinality(Entries(g, x)))
  BY DEF Asking, Quiet, Follows
<1>3. IsFiniteSet(Entries(g, x))
  BY DependenciesType, FS_Subset DEF Entries
<1>4. /\ Cardinality(Entries(g, x)) \in Nat
      /\ Cardinality(Entries(g, x)) = 0 <=> Entries(g, x) = {}
  BY <1>3, FS_CardinalityType, FS_EmptySet
<1>5. Entries(g, x) # {} <=> x \in Children(g)
  BY DEF Children, Entries
<1>6. ASSUME Distinct(g)
      PROVE  Cardinality(Entries(g, x)) <= 1
  <2>1. CASE Entries(g, x) = {}
    BY <1>4, <2>1
  <2>2. ASSUME NEW e \in Entries(g, x)
        PROVE  Cardinality(Entries(g, x)) = 1
    <3>1. Entries(g, x) = {e}
      BY <1>6, <2>2 DEF Entries, Distinct
    <3>. QED  BY <3>1, FS_Singleton
  <2>. QED  BY <2>1, <2>2
<1>. QED  BY <1>1, <1>2, <1>4, <1>5, <1>6

\* The same for each way a handler ends: it tells no one,
LEMMA QuietBox ==
  ASSUME TypeOK, NEW g \in Goals, mailbox[g] # <<>>, Quiet(Taken(g)),
         NEW x \in Goals, NEW M, NEW N
  PROVE  /\ Has(mailbox'[x], M) => Has(mailbox[x], M)
         /\ Has(mailbox[x], M) => Has(mailbox'[x], M) \/ (x = g /\ Head(mailbox[g]) \in M)
         /\ One(mailbox[x], M) => One(mailbox'[x], M)
         /\ One(mailbox[g], M) /\ Head(mailbox[g]) \in M => ~Has(mailbox'[g], M)
         /\ Precede(mailbox[x], M, N) => Precede(mailbox'[x], M, N)
<1>. DEFINE n == 0
            m == UnexpectedMsg
<1>1. /\ m \in Message /\ n \in Nat
      /\ \A y \in Goals : Follows(mailbox'[y], Taken(g)[y], m, n)
  BY MessageTyped, QuietFollows
<1>2. n = 0 /\ ~(n > 0)
  OBVIOUS
<1>. HIDE DEF n, m
<1>3. /\ Has(mailbox'[x], M) => Has(mailbox[x], M)
      /\ Has(mailbox[x], M) => Has(mailbox'[x], M) \/ (x = g /\ Head(mailbox[g]) \in M)
      /\ One(mailbox[x], M) => One(mailbox'[x], M)
      /\ Precede(mailbox[x], M, N) => Precede(mailbox'[x], M, N)
  BY <1>1, <1>2, MailHas
<1>4. One(mailbox[g], M) /\ Head(mailbox[g]) \in M => ~Has(mailbox'[g], M)
  BY <1>1, <1>2, MailHas
<1>. QED  BY <1>3, <1>4

\* it publishes,
LEMMA PublishBox ==
  ASSUME TypeOK, NEW g \in Goals, mailbox[g] # <<>>, incarnation[g] = 0,
         NEW t \in News, NEW L, Publish(g, t, L, Taken(g)),
         NEW x \in Goals, NEW M, NEW N
  PROVE  /\ Has(mailbox'[x], M) =>
              Has(mailbox[x], M) \/ (x \in L /\ NewsOf(g, t) \in M)
         /\ Has(mailbox[x], M) => Has(mailbox'[x], M) \/ (x = g /\ Head(mailbox[g]) \in M)
         /\ /\ One(mailbox[x], M)
            /\ x \in L /\ NewsOf(g, t) \in M => ~Has(mailbox[x], M)
            => One(mailbox'[x], M)
         /\ /\ One(mailbox[g], M) /\ Head(mailbox[g]) \in M
            /\ ~(g \in L /\ NewsOf(g, t) \in M)
            => ~Has(mailbox'[g], M)
         /\ /\ Precede(mailbox[x], M, N)
            /\ x \in L /\ NewsOf(g, t) \in M => ~Has(mailbox[x], N) /\ NewsOf(g, t) \notin N
            => Precede(mailbox'[x], M, N)
<1>. DEFINE n(y) == IF y \in L THEN 1 ELSE 0
<1>1. /\ NewsOf(g, t) \in Message
      /\ Follows(mailbox'[x], Taken(g)[x], NewsOf(g, t), n(x))
      /\ Follows(mailbox'[g], Taken(g)[g], NewsOf(g, t), n(g))
  BY PublishFollows
<1>2. /\ n(x) \in Nat /\ (n(x) > 0 <=> x \in L) /\ (n(x) = 0 <=> x \notin L)
      /\ n(g) \in Nat /\ (n(g) > 0 <=> g \in L) /\ (n(g) = 0 <=> g \notin L)
      /\ n(x) = 1 <=> x \in L
  OBVIOUS
<1>. HIDE DEF n
<1>3. /\ Has(mailbox'[x], M) => Has(mailbox[x], M) \/ (n(x) > 0 /\ NewsOf(g, t) \in M)
      /\ Has(mailbox[x], M) => Has(mailbox'[x], M) \/ (x = g /\ Head(mailbox[g]) \in M)
      /\ /\ One(mailbox[x], M)
         /\ n(x) = 0 \/ NewsOf(g, t) \notin M \/ (~Has(mailbox[x], M) /\ n(x) = 1)
         => One(mailbox'[x], M)
      /\ /\ Precede(mailbox[x], M, N)
         /\ n(x) = 0 \/ NewsOf(g, t) \notin M \/ (~Has(mailbox[x], N) /\ NewsOf(g, t) \notin N)
         => Precede(mailbox'[x], M, N)
  BY <1>1, <1>2, MailHas
<1>4. /\ One(mailbox[g], M) /\ Head(mailbox[g]) \in M
      /\ n(g) = 0 \/ NewsOf(g, t) \notin M
      => ~Has(mailbox'[g], M)
  BY <1>1, <1>2, MailHas
<1>. QED  BY <1>1, <1>2, <1>3, <1>4

\* or it asks the dependencies.
LEMMA AskBox ==
  ASSUME TypeOK, NEW g \in Goals, mailbox[g] # <<>>,
         NEW f \in BOOLEAN, Asking(g, f), NEW x \in Goals, NEW M, NEW N
  PROVE  /\ Has(mailbox'[x], M) =>
              Has(mailbox[x], M) \/ (x \in Children(g) /\ SatisfyMsg(g, f) \in M)
         /\ Has(mailbox[x], M) => Has(mailbox'[x], M) \/ (x = g /\ Head(mailbox[g]) \in M)
         /\ /\ One(mailbox[x], M)
            /\ SatisfyMsg(g, f) \in M => Distinct(g) /\ ~Has(mailbox[x], M)
            => One(mailbox'[x], M)
         /\ /\ One(mailbox[g], M) /\ Head(mailbox[g]) \in M
            /\ SatisfyMsg(g, f) \notin M
            => ~Has(mailbox'[g], M)
         /\ Precede(mailbox[x], M, N) /\ SatisfyMsg(g, f) \notin M
              => Precede(mailbox'[x], M, N)
<1>. DEFINE n(y) == Cardinality(Entries(g, y))
<1>1. /\ SatisfyMsg(g, f) \in Message
      /\ \A y \in {x, g} :
           /\ n(y) \in Nat /\ (n(y) > 0 <=> y \in Children(g))
           /\ Distinct(g) => n(y) <= 1
           /\ Follows(mailbox'[y], Taken(g)[y], SatisfyMsg(g, f), n(y))
  BY AskFollows
<1>. HIDE DEF n
<1>2. Distinct(g) => n(x) = 0 \/ n(x) = 1
  BY <1>1
<1>3. /\ Has(mailbox'[x], M) => Has(mailbox[x], M) \/ (n(x) > 0 /\ SatisfyMsg(g, f) \in M)
      /\ Has(mailbox[x], M) => Has(mailbox'[x], M) \/ (x = g /\ Head(mailbox[g]) \in M)
      /\ /\ One(mailbox[x], M)
         /\ n(x) = 0 \/ SatisfyMsg(g, f) \notin M \/ (~Has(mailbox[x], M) /\ n(x) = 1)
         => One(mailbox'[x], M)
      /\ /\ Precede(mailbox[x], M, N)
         /\ n(x) = 0 \/ SatisfyMsg(g, f) \notin M \/ (~Has(mailbox[x], N) /\ SatisfyMsg(g, f) \notin N)
         => Precede(mailbox'[x], M, N)
  BY <1>1, <1>2, MailHas
<1>4. /\ One(mailbox[g], M) /\ Head(mailbox[g]) \in M
      /\ n(g) = 0 \/ SatisfyMsg(g, f) \notin M
      => ~Has(mailbox'[g], M)
  BY <1>1, <1>2, MailHas
<1>. QED  BY <1>1, <1>2, <1>3, <1>4
-----------------------------------------------------------------------------
(* One handler of g, in what it does to the rest of the system.              *)

\* It tells no one, and the goal is as far from its end as it was;
Quietly(g) ==
  /\ Quiet(Taken(g))
  /\ \/ state'[g] = state[g] /\ Head(mailbox[g]).type # "Satisfy"
     \/ {state[g], state'[g]} \subseteq Unfinished

\* it asks the dependencies, for the first time;
Asks(g) ==
  /\ ~HasAskedAll(g) /\ HasAskedAll(g)' /\ Head(mailbox[g]).type \notin News
  /\ {state[g], state'[g]} \subseteq Unfinished
  /\ \E f \in BOOLEAN : /\ Asking(g, f)
                        /\ FALSE \notin ForceModes => f

\* it brings the goal to its end, or again to DependencyFailed, and tells everyone;
Decides(g) ==
  \/ /\ state[g] \in Unfinished /\ state'[g] \in Satisfied
     /\ Publish(g, "GoalSuccess", listeners'[g], Taken(g))
  \/ /\ \/ state[g] \in Unfinished
        \/ state[g] = "DependencyFailed" /\ Head(mailbox[g]).type = "GoalFailure"
     /\ state'[g] \in {"Failed", "DependencyFailed"}
     /\ Publish(g, "GoalFailure", listeners'[g], Taken(g))

\* or it tells the outcome to the one who asks for it.
Answers(g) ==
  LET m == Head(mailbox[g]) IN
  /\ m.type = "Satisfy" /\ state'[g] = state[g]
  /\ \/ state[g] \in Satisfied /\ Publish(g, "GoalSuccess", {m.from}, Taken(g))
     \/ state[g] \in Unsatisfied /\ Publish(g, "GoalFailure", {m.from}, Taken(g))

Tells(g, h) == \/ Decides(g) /\ h \in listeners'[g]
               \/ Answers(g) /\ h = Head(mailbox[g]).from

\* It learns of a dependency, or of a listener.
Learns(g) ==
  LET m == Head(mailbox[g]) IN
  /\ listeners'[g] = IF m.type = "Satisfy" THEN listeners[g] \cup {m.from}
                                           ELSE listeners[g]
  /\ childStatus'[g] = IF m.type \in News THEN childStatus[g] \cup {m.status}
                                          ELSE childStatus[g]
  /\ \A h \in Goals \ {g} :
       /\ state'[h] = state[h] /\ force'[h] = force[h] /\ checkers'[h] = checkers[h]
       /\ listeners'[h] = listeners[h] /\ childStatus'[h] = childStatus[h]

\* The goal never goes back, and goes on only when all its dependencies may be
\* built upon.
GoesOn(g) ==
  LET m == Head(mailbox[g]) IN
  /\ state[g] \notin Unfinished => state'[g] = state[g]
  /\ HasAskedAll(g) => HasAskedAll(g)'
  /\ Through(g) => Through(g)'
  /\ Through(g)' /\ ~Through(g) =>
       /\ Distinct(g)
       /\ g \in Queried => ~NewsOver(g)'
       /\ \A d \in Children(g) : state[d] \in Satisfied /\ Heard(g, d)'
  /\ g \in Queried /\ Through(g) /\ NewsOver(g)' =>
       NewsOver(g) \/ m \in Results \cup JobReports
  /\ state'[g] = "DependencyFailed" => state[g] = state'[g] \/ m.type = "GoalFailure"
  /\ Waits(g)' => HasDependencies(g) /\ g \notin BadWitness
  /\ g \in BadWitness /\ HasDependencies(g) =>
       \/ state'[g] \in {"Unstarted", "Failed"}
       \/ state'[g] = "CheckingEvidence" /\ ~force'[g]
  /\ checkers[g] = 1..Cardinality(checkers[g]) =>
       checkers'[g] = 1..Cardinality(checkers'[g]) \/ m \in Results

\* All else is its own.
Minds(g) ==
  /\ UNCHANGED <<incarnation, orphans, timers, retryUp, futures, finishing, asked>>
  /\ \A h \in Goals \ {g} :
       /\ jobRunner'[h] = jobRunner[h] /\ runner'[h] = runner[h]
       /\ runnerBox'[h] = runnerBox[h]
       /\ evidenceActors'[h] = evidenceActors[h] /\ probes'[h] = probes[h]
  /\ FALSE \notin ForceModes /\ state'[g] # "Unstarted" => force'[g]

Effect(g) ==
  /\ mailbox[g] # <<>> /\ Minds(g)
  /\ Learns(g) /\ GoesOn(g)
  /\ Quietly(g) \/ Asks(g) \/ Decides(g) \/ Answers(g)

\* The head of a mailbox is one of its messages, and its news is of this incarnation.
LEMMA HeadHas ==
  ASSUME TypeOK, NEW g \in Goals, Calm(g), mailbox[g] # <<>>
  PROVE  LET m == Head(mailbox[g]) IN
         /\ m \in Message
         /\ \A M : m \in M => Has(mailbox[g], M)
         /\ m.type \in News => \E d \in Goals : m.status = <<d, 0>>
         /\ m.type \notin {"Abort", "RestartJob"}
         /\ FALSE \notin ForceModes /\ m.type = "Satisfy" => m.force
<1>1. mailbox[g] \in Seq(Message)
  BY DEF TypeOK, BoxTypeOK
<1>2. /\ 1 \in 1..Len(mailbox[g]) /\ Head(mailbox[g]) = mailbox[g][1]
      /\ Head(mailbox[g]) \in Message
  BY <1>1
<1>3. Head(mailbox[g]).type \in News => Head(mailbox[g]).status \in Status
  BY <1>2, MessageFields DEF News
<1>4. Head(mailbox[g]) \notin Unwelcome
  BY <1>2 DEF Calm, Has
<1>5. Head(mailbox[g]).type \in News => \E d \in Goals : Head(mailbox[g]).status = <<d, 0>>
  <2>1. Head(mailbox[g]).type \in News => Head(mailbox[g]).status[2] = 0
    BY <1>2, <1>4 DEF Unwelcome
  <2>. QED  BY <1>3, <2>1 DEF Status
<1>. QED  BY <1>2, <1>4, <1>5 DEF Unwelcome, Has

\* What publishing adds to the mailboxes, kind by kind.
LEMMA PublishTidings ==
  ASSUME TypeOK, NEW g \in Goals, mailbox[g] # <<>>, incarnation[g] = 0,
         NEW t \in News, NEW L, Publish(g, t, L, Taken(g)),
         NEW h \in Goals, NEW d \in Goals, NEW r \in Requesters
  PROVE  LET m == Head(mailbox[g])
             reports == Results \cup JobReports
         IN
         /\ Has(mailbox'[d], From(r)) => Has(mailbox[d], From(r))
         /\ One(mailbox[d], From(r)) => One(mailbox'[d], From(r))
         /\ One(mailbox[g], From(r)) /\ m \in From(r) => ~Has(mailbox'[g], From(r))
         /\ \A k \in News : Has(mailbox'[h], About(d, {k})) =>
              Has(mailbox[h], About(d, {k})) \/ (h \in L /\ d = g /\ k = t)
         /\ Has(mailbox'[h], About(d, News)) =>
              Has(mailbox[h], About(d, News)) \/ (h \in L /\ d = g)
         /\ /\ One(mailbox[h], About(d, News))
            /\ h \in L /\ d = g => ~Has(mailbox[h], About(d, News))
            => One(mailbox'[h], About(d, News))
         /\ /\ One(mailbox[g], About(d, News)) /\ m \in About(d, News)
            /\ ~(g \in L /\ d = g)
            => ~Has(mailbox'[g], About(d, News))
         /\ Has(mailbox'[h], AnyNews) => Has(mailbox[h], AnyNews) \/ h \in L
         /\ /\ Precede(mailbox[h], AnyNews, reports)
            /\ h \in L => ~Has(mailbox[h], reports)
            => Precede(mailbox'[h], AnyNews, reports)
<1>. DEFINE m == Head(mailbox[g])
            reports == Results \cup JobReports
            n == NewsOf(g, t)
<1>1. /\ n \notin From(r) /\ n \notin reports
      /\ \A k \in News : n \in About(d, {k}) <=> d = g /\ k = t
      /\ n \in About(d, News) <=> d = g
  BY DEF NewsOf, From, Results, JobReports, About, News
<1>. HIDE DEF n
<1>2. Has(mailbox'[d], From(r)) => Has(mailbox[d], From(r)) \/ (d \in L /\ n \in From(r))
  BY PublishBox DEF n
<1>3. /\ One(mailbox[d], From(r)) /\ (d \in L /\ n \in From(r) => ~Has(mailbox[d], From(r)))
         => One(mailbox'[d], From(r))
      /\ One(mailbox[g], From(r)) /\ m \in From(r) /\ ~(g \in L /\ n \in From(r))
         => ~Has(mailbox'[g], From(r))
  BY PublishBox DEF n
<1>4. ASSUME NEW k \in News
      PROVE  Has(mailbox'[h], About(d, {k})) =>
               Has(mailbox[h], About(d, {k})) \/ (h \in L /\ n \in About(d, {k}))
  BY PublishBox DEF n
<1>5. Has(mailbox'[h], About(d, News)) =>
        Has(mailbox[h], About(d, News)) \/ (h \in L /\ n \in About(d, News))
  BY PublishBox DEF n
<1>6. /\ One(mailbox[h], About(d, News))
      /\ h \in L /\ n \in About(d, News) => ~Has(mailbox[h], About(d, News))
      => One(mailbox'[h], About(d, News))
  BY PublishBox DEF n
<1>7. /\ One(mailbox[g], About(d, News)) /\ m \in About(d, News)
      /\ ~(g \in L /\ n \in About(d, News))
      => ~Has(mailbox'[g], About(d, News))
  BY PublishBox DEF n
<1>8. Has(mailbox'[h], AnyNews) => Has(mailbox[h], AnyNews) \/ (h \in L /\ n \in AnyNews)
  BY PublishBox DEF n
<1>9. ASSUME NEW M, NEW N, Precede(mailbox[h], M, N),
             h \in L /\ n \in M => ~Has(mailbox[h], N) /\ n \notin N
      PROVE  Precede(mailbox'[h], M, N)
  BY <1>9, PublishBox DEF n
<1>. QED  BY <1>1, <1>2, <1>3, <1>4, <1>5, <1>6, <1>7, <1>8, <1>9

\* What is new between g and the others after a handler of g.
LEMMA Tidings ==
  ASSUME TypeOK, NEW g \in Goals, Calm(g), Effect(g),
         NEW h \in Goals, NEW d \in Goals, NEW r \in Requesters
  PROVE  LET m == Head(mailbox[g])
             asks == Asks(g) /\ r = g
             tells == Tells(g, h) /\ d = g
             reports == Results \cup JobReports
         IN
         /\ Has(mailbox'[d], From(r)) => Has(mailbox[d], From(r)) \/ (asks /\ d \in Children(g))
         /\ One(mailbox[d], From(r)) /\ (asks => Distinct(g) /\ ~Has(mailbox[d], From(r)))
              => One(mailbox'[d], From(r))
         /\ One(mailbox[g], From(r)) /\ m \in From(r) /\ ~asks => ~Has(mailbox'[g], From(r))
         /\ Has(mailbox'[h], About(d, {"GoalSuccess"})) =>
              \/ Has(mailbox[h], About(d, {"GoalSuccess"}))
              \/ tells /\ state'[g] \in Satisfied
         /\ Has(mailbox'[h], About(d, {"GoalFailure"})) =>
              \/ Has(mailbox[h], About(d, {"GoalFailure"}))
              \/ tells /\ state'[g] \in Unsatisfied
         /\ Has(mailbox'[h], About(d, News)) => Has(mailbox[h], About(d, News)) \/ tells
         /\ One(mailbox[h], About(d, News)) /\ (tells => ~Has(mailbox[h], About(d, News)))
              => One(mailbox'[h], About(d, News))
         /\ One(mailbox[g], About(d, News)) /\ m \in About(d, News)
              /\ ~(Tells(g, g) /\ d = g) => ~Has(mailbox'[g], About(d, News))
         /\ Has(mailbox'[h], AnyNews) => Has(mailbox[h], AnyNews) \/ Tells(g, h)
         /\ Precede(mailbox[h], AnyNews, reports) /\ (Tells(g, h) => ~Has(mailbox[h], reports))
              => Precede(mailbox'[h], AnyNews, reports)
<1>. DEFINE m == Head(mailbox[g])
            reports == Results \cup JobReports
            Goal == LET asks == Asks(g) /\ r = g
                        tells == Tells(g, h) /\ d = g
                    IN
         /\ Has(mailbox'[d], From(r)) => Has(mailbox[d], From(r)) \/ (asks /\ d \in Children(g))
         /\ One(mailbox[d], From(r)) /\ (asks => Distinct(g) /\ ~Has(mailbox[d], From(r)))
              => One(mailbox'[d], From(r))
         /\ One(mailbox[g], From(r)) /\ m \in From(r) /\ ~asks => ~Has(mailbox'[g], From(r))
         /\ Has(mailbox'[h], About(d, {"GoalSuccess"})) =>
              \/ Has(mailbox[h], About(d, {"GoalSuccess"}))
              \/ tells /\ state'[g] \in Satisfied
         /\ Has(mailbox'[h], About(d, {"GoalFailure"})) =>
              \/ Has(mailbox[h], About(d, {"GoalFailure"}))
              \/ tells /\ state'[g] \in Unsatisfied
         /\ Has(mailbox'[h], About(d, News)) => Has(mailbox[h], About(d, News)) \/ tells
         /\ One(mailbox[h], About(d, News)) /\ (tells => ~Has(mailbox[h], About(d, News)))
              => One(mailbox'[h], About(d, News))
         /\ One(mailbox[g], About(d, News)) /\ m \in About(d, News)
              /\ ~(Tells(g, g) /\ d = g) => ~Has(mailbox'[g], About(d, News))
         /\ Has(mailbox'[h], AnyNews) => Has(mailbox[h], AnyNews) \/ Tells(g, h)
         /\ Precede(mailbox[h], AnyNews, reports) /\ (Tells(g, h) => ~Has(mailbox[h], reports))
              => Precede(mailbox'[h], AnyNews, reports)
<1>. SUFFICES Goal
  OBVIOUS
<1>0. mailbox[g] # <<>> /\ m \in Message /\ incarnation[g] = 0
  BY HeadHas DEF Effect, Calm
<1>1. CASE Quietly(g)
  <2>1. Quiet(Taken(g))
    BY <1>1 DEF Quietly
  <2>2. /\ Has(mailbox'[d], From(r)) => Has(mailbox[d], From(r))
        /\ One(mailbox[d], From(r)) => One(mailbox'[d], From(r))
        /\ One(mailbox[g], From(r)) /\ m \in From(r) => ~Has(mailbox'[g], From(r))
    BY <1>0, <2>1, QuietBox
  <2>3. Has(mailbox'[h], About(d, {"GoalSuccess"})) => Has(mailbox[h], About(d, {"GoalSuccess"}))
    BY <1>0, <2>1, QuietBox
  <2>4. Has(mailbox'[h], About(d, {"GoalFailure"})) => Has(mailbox[h], About(d, {"GoalFailure"}))
    BY <1>0, <2>1, QuietBox
  <2>5. /\ Has(mailbox'[h], About(d, News)) => Has(mailbox[h], About(d, News))
        /\ One(mailbox[h], About(d, News)) => One(mailbox'[h], About(d, News))
        /\ One(mailbox[g], About(d, News)) /\ m \in About(d, News)
             => ~Has(mailbox'[g], About(d, News))
    BY <1>0, <2>1, QuietBox
  <2>6. Has(mailbox'[h], AnyNews) => Has(mailbox[h], AnyNews)
    BY <1>0, <2>1, QuietBox
  <2>7. Precede(mailbox[h], AnyNews, reports) => Precede(mailbox'[h], AnyNews, reports)
    BY <1>0, <2>1, QuietBox
  <2>. QED  BY <2>2, <2>3, <2>4, <2>5, <2>6, <2>7
<1>2. CASE Asks(g)
  <2>1. PICK f \in BOOLEAN : Asking(g, f)
    BY <1>2 DEF Asks
  <2>2. (SatisfyMsg(g, f) \in From(r) <=> r = g) /\ SatisfyMsg(g, f) \notin AnyNews
    BY DEF SatisfyMsg, From, AnyNews, News
  <2>3. Has(mailbox'[d], From(r)) => Has(mailbox[d], From(r)) \/ (d \in Children(g) /\ r = g)
    BY <1>0, <2>1, <2>2, AskBox
  <2>4. ASSUME NEW M, One(mailbox[d], M),
               SatisfyMsg(g, f) \in M => Distinct(g) /\ ~Has(mailbox[d], M)
        PROVE  One(mailbox'[d], M)
    BY <1>0, <2>1, <2>4, AskBox
  <2>5. ASSUME NEW M, One(mailbox[g], M), m \in M, SatisfyMsg(g, f) \notin M
        PROVE  ~Has(mailbox'[g], M)
    BY <1>0, <2>1, <2>5, AskBox
  <2>11. /\ One(mailbox[d], From(r)) /\ (r = g => Distinct(g) /\ ~Has(mailbox[d], From(r)))
             => One(mailbox'[d], From(r))
         /\ One(mailbox[g], From(r)) /\ m \in From(r) /\ r # g => ~Has(mailbox'[g], From(r))
    BY <2>2, <2>4, <2>5
  <2>6. ASSUME NEW ts, SatisfyMsg(g, f) \notin About(d, ts)
        PROVE  /\ Has(mailbox'[h], About(d, ts)) => Has(mailbox[h], About(d, ts))
               /\ One(mailbox[h], About(d, ts)) => One(mailbox'[h], About(d, ts))
               /\ One(mailbox[g], About(d, ts)) /\ m \in About(d, ts)
                    => ~Has(mailbox'[g], About(d, ts))
    <3>1. /\ Has(mailbox'[h], About(d, ts)) => Has(mailbox[h], About(d, ts))
          /\ One(mailbox[h], About(d, ts)) => One(mailbox'[h], About(d, ts))
      BY <1>0, <2>1, <2>6, AskBox
    <3>2. One(mailbox[g], About(d, ts)) /\ m \in About(d, ts) => ~Has(mailbox'[g], About(d, ts))
      BY <2>5, <2>6
    <3>. QED  BY <3>1, <3>2
  <2>7. Has(mailbox'[h], AnyNews) => Has(mailbox[h], AnyNews)
    BY <1>0, <2>1, <2>2, AskBox
  <2>8. ASSUME NEW M, NEW N, Precede(mailbox[h], M, N), SatisfyMsg(g, f) \notin M
        PROVE  Precede(mailbox'[h], M, N)
    BY <1>0, <2>1, <2>8, AskBox
  <2>9. \A ts \in {{"GoalSuccess"}, {"GoalFailure"}, News} : SatisfyMsg(g, f) \notin About(d, ts)
    BY DEF SatisfyMsg, About, News
  <2>10. /\ Has(mailbox'[h], About(d, {"GoalSuccess"})) => Has(mailbox[h], About(d, {"GoalSuccess"}))
         /\ Has(mailbox'[h], About(d, {"GoalFailure"})) => Has(mailbox[h], About(d, {"GoalFailure"}))
         /\ Has(mailbox'[h], About(d, News)) => Has(mailbox[h], About(d, News))
         /\ One(mailbox[h], About(d, News)) => One(mailbox'[h], About(d, News))
         /\ One(mailbox[g], About(d, News)) /\ m \in About(d, News)
              => ~Has(mailbox'[g], About(d, News))
    BY <2>6, <2>9
  <2>. QED  BY <1>2, <2>2, <2>3, <2>11, <2>7, <2>8, <2>10
<1>3. ASSUME NEW t \in News, NEW L, Publish(g, t, L, Taken(g)),
             \A x \in Goals : x \in L => Tells(g, x),
             state'[g] \in IF t = "GoalSuccess" THEN Satisfied ELSE Unsatisfied
      PROVE  Goal
  <2>1. /\ Has(mailbox'[d], From(r)) => Has(mailbox[d], From(r))
        /\ One(mailbox[d], From(r)) => One(mailbox'[d], From(r))
        /\ One(mailbox[g], From(r)) /\ m \in From(r) => ~Has(mailbox'[g], From(r))
    BY <1>0, <1>3, PublishTidings
  <2>2. \A k \in News : Has(mailbox'[h], About(d, {k})) =>
              Has(mailbox[h], About(d, {k})) \/ (h \in L /\ d = g /\ k = t)
    BY <1>0, <1>3, PublishTidings
  <2>3. /\ Has(mailbox'[h], About(d, News)) =>
              Has(mailbox[h], About(d, News)) \/ (h \in L /\ d = g)
        /\ /\ One(mailbox[h], About(d, News))
           /\ h \in L /\ d = g => ~Has(mailbox[h], About(d, News))
           => One(mailbox'[h], About(d, News))
        /\ /\ One(mailbox[g], About(d, News)) /\ m \in About(d, News)
           /\ ~(g \in L /\ d = g)
           => ~Has(mailbox'[g], About(d, News))
    BY <1>0, <1>3, PublishTidings
  <2>4. /\ Has(mailbox'[h], AnyNews) => Has(mailbox[h], AnyNews) \/ h \in L
        /\ /\ Precede(mailbox[h], AnyNews, reports)
           /\ h \in L => ~Has(mailbox[h], reports)
           => Precede(mailbox'[h], AnyNews, reports)
    BY <1>0, <1>3, PublishTidings
  <2>5. /\ "GoalSuccess" \in News /\ "GoalFailure" \in News
        /\ "GoalSuccess" = t => state'[g] \in Satisfied
        /\ "GoalFailure" = t => state'[g] \in Unsatisfied
    BY <1>3 DEF News
  <2>6. h \in L => Tells(g, h)
    BY <1>3
  <2>7. g \in L => Tells(g, g)
    BY <1>3
  <2>. QED  BY <2>1, <2>2, <2>3, <2>4, <2>5, <2>6, <2>7
<1>4. CASE Decides(g)
  <2>1. \A x \in Goals : x \in listeners'[g] => Tells(g, x)
    BY <1>4 DEF Tells
  <2>2. \/ state'[g] \in Satisfied /\ Publish(g, "GoalSuccess", listeners'[g], Taken(g))
        \/ state'[g] \in Unsatisfied /\ Publish(g, "GoalFailure", listeners'[g], Taken(g))
    BY <1>4 DEF Decides, Unsatisfied
  <2>3. "GoalSuccess" \in News /\ "GoalFailure" \in News /\ "GoalFailure" # "GoalSuccess"
    BY DEF News
  <2>. QED  BY <1>3, <2>1, <2>2, <2>3
<1>5. CASE Answers(g)
  <2>1. \A x \in Goals : x \in {m.from} => Tells(g, x)
    BY <1>5 DEF Tells
  <2>2. \/ state'[g] \in Satisfied /\ Publish(g, "GoalSuccess", {m.from}, Taken(g))
        \/ state'[g] \in Unsatisfied /\ Publish(g, "GoalFailure", {m.from}, Taken(g))
    BY <1>5 DEF Answers
  <2>3. "GoalSuccess" \in News /\ "GoalFailure" \in News /\ "GoalFailure" # "GoalSuccess"
    BY DEF News
  <2>. QED  BY <1>3, <2>1, <2>2, <2>3
<1>. HIDE DEF Goal
<1>. QED  BY <1>1, <1>2, <1>4, <1>5 DEF Effect
-----------------------------------------------------------------------------
(* Such a handler keeps the bonds between the goals.                         *)

\* What is decided stays so, what is heard is not forgotten, and only g moves.
LEMMA Onward ==
  ASSUME NEW g \in Goals, Effect(g), NEW h \in Goals
  PROVE  /\ HasAskedAll(h) => HasAskedAll(h)'
         /\ Through(h) => Through(h)'
         /\ state[h] \notin Unfinished => state'[h] = state[h]
         /\ h # g => /\ state'[h] = state[h] /\ force'[h] = force[h]
                     /\ checkers'[h] = checkers[h]
                     /\ HasAskedAll(h)' = HasAskedAll(h) /\ Through(h)' = Through(h)
                     /\ NewsOver(h)' = NewsOver(h)
         /\ \A d \in Goals : Heard(h, d) => Heard(h, d)'
<1>1. CASE h = g
  BY <1>1 DEF Effect, GoesOn, Learns, Heard
<1>2. CASE h # g
  <2>1. state'[h] = state[h] /\ force'[h] = force[h] /\ childStatus'[h] = childStatus[h]
        /\ checkers'[h] = checkers[h]
    BY <1>2 DEF Effect, Learns
  <2>2. HasAskedAll(h)' = HasAskedAll(h) /\ NewsOver(h)' = NewsOver(h)
    BY <2>1 DEF HasAskedAll, NewsOver, Waits
  <2>3. Through(h)' = Through(h)
    BY <2>1, <2>2 DEF Through, Waits
  <2>. QED  BY <1>2, <2>1, <2>2, <2>3 DEF Heard
<1>. QED  BY <1>1, <1>2

\* The head is one of the kinds above if it tells g something, and what is told
\* has been asked for.
LEMMA Asked ==
  ASSUME TypeOK, ServiceInv, NEW g \in Goals, Effect(g)
  PROVE  LET m == Head(mailbox[g]) IN
         /\ \A r \in Requesters, d \in Goals : r \in listeners'[d] =>
              r \in listeners[d] \/ (d = g /\ m \in From(r) /\ Has(mailbox[g], From(r)))
         /\ \A h \in Goals, d \in Goals : Heard(h, d)' =>
              \/ Heard(h, d)
              \/ h = g /\ m \in About(d, News) /\ Has(mailbox[g], About(d, News))
         /\ \A h \in Goals : Tells(g, h) =>
              /\ h \in listeners'[g] /\ HasAskedAll(h) /\ g \in Children(h)
              /\ Answers(g) => Has(mailbox[g], From(h))
         /\ \A d \in Goals : m \in About(d, News) => HasAskedAll(g) /\ d \in Children(g)
<1>. DEFINE m == Head(mailbox[g])
<1>0. /\ m \in Message /\ \A M : m \in M => Has(mailbox[g], M)
  BY HeadHas DEF ServiceInv, Own, Effect
<1>1. /\ \A r : m \in From(r) <=> m.type = "Satisfy" /\ m.from = r
      /\ \A d : m \in About(d, News) <=> m.type \in News /\ m.status = <<d, 0>>
  BY <1>0, Kinds
<1>2. ASSUME NEW r \in Requesters, NEW d \in Goals, r \in listeners'[d], r \notin listeners[d]
      PROVE  d = g /\ m \in From(r) /\ Has(mailbox[g], From(r))
  <2>1. d = g
    BY <1>2 DEF Effect, Learns
  <2>2. m.type = "Satisfy" /\ m.from = r
    BY <1>2, <2>1 DEF Effect, Learns
  <2>. QED  BY <1>0, <1>1, <2>1, <2>2
<1>3. ASSUME NEW h \in Goals, NEW d \in Goals, Heard(h, d)', ~Heard(h, d)
      PROVE  h = g /\ m \in About(d, News) /\ Has(mailbox[g], About(d, News))
  <2>1. h = g
    BY <1>3 DEF Effect, Learns, Heard
  <2>2. m.type \in News /\ m.status = <<d, 0>>
    BY <1>3, <2>1 DEF Effect, Learns, Heard
  <2>. QED  BY <1>0, <1>1, <2>1, <2>2
<1>4. ASSUME NEW h \in Goals, Tells(g, h)
      PROVE  /\ h \in listeners'[g] /\ HasAskedAll(h) /\ g \in Children(h)
             /\ Answers(g) => Has(mailbox[g], From(h))
  <2>1. h \in listeners'[g] /\ h \in Requesters
    BY <1>4 DEF Tells, Answers, Effect, Learns, Requesters
  <2>2. h \in listeners[g] \/ Has(mailbox[g], From(h))
    BY <1>2, <2>1
  <2>3. Silent(h, g)
    BY DEF ServiceInv, Bonds
  <2>4. Answers(g) => Has(mailbox[g], From(h))
    <3>1. Answers(g) => m.type = "Satisfy" /\ ~Decides(g)
      BY DEF Answers, Decides, Satisfied, Unsatisfied, Unfinished
    <3>. QED  BY <1>0, <1>1, <1>4, <3>1 DEF Tells
  <2>. QED  BY <2>1, <2>2, <2>3, <2>4 DEF Silent
<1>5. ASSUME NEW d \in Goals, m \in About(d, News)
      PROVE  HasAskedAll(g) /\ d \in Children(g)
  BY <1>0, <1>5 DEF ServiceInv, Bonds, Silent
<1>. QED  BY <1>2, <1>3, <1>4, <1>5

\* A goal that is told of one it builds upon has not heard of it: Passed and Once
\* leave no room for a second success.
LEMMA NotTwice ==
  ASSUME TypeOK, ServiceInv, NEW g \in Goals, Effect(g), NEW h \in Goals, Tells(g, h)
  PROVE  /\ ~Through(h)
         /\ state[g] \in Satisfied => Answers(g)
         /\ Answers(g) /\ Distinct(h) => ~Heard(h, g) /\ ~Has(mailbox[h], About(g, News))
<1>1. /\ HasAskedAll(h) /\ g \in Children(h)
      /\ Answers(g) => Has(mailbox[g], From(h))
  BY Asked
<1>2. state[g] \in Satisfied => Answers(g)
  BY DEF Tells, Decides, Satisfied, Unfinished
<1>3. Answers(g) /\ Distinct(h) => ~Heard(h, g) /\ ~Has(mailbox[h], About(g, News))
  BY <1>1 DEF ServiceInv, Bonds, Once
<1>4. ~Through(h)
  BY <1>1, <1>2, <1>3 DEF ServiceInv, Bonds, Passed
<1>. QED  BY <1>2, <1>3, <1>4

LEMMA SilentStays ==
  ASSUME TypeOK, ServiceInv, NEW g \in Goals, Effect(g), NEW h \in Goals, NEW d \in Goals
  PROVE  Silent(h, d)'
<1>. SUFFICES ASSUME ~(HasAskedAll(h)' /\ d \in Children(h))
              PROVE  /\ ~Has(mailbox'[d], From(h)) /\ h \notin listeners'[d]
                     /\ ~Has(mailbox'[h], About(d, News)) /\ ~Heard(h, d)'
  BY DEF Silent, Children
<1>1. /\ ~Has(mailbox[d], From(h)) /\ h \notin listeners[d]
      /\ ~Has(mailbox[h], About(d, News)) /\ ~Heard(h, d)
  BY Onward DEF ServiceInv, Bonds, Silent
<1>2. h \in Requesters /\ Calm(g)
  BY DEF Requesters, ServiceInv, Own
<1>3. ~Has(mailbox'[d], From(h))
  <2>1. Has(mailbox'[d], From(h)) => Has(mailbox[d], From(h)) \/ (Asks(g) /\ h = g /\ d \in Children(g))
    BY <1>2, Tidings
  <2>. QED  BY <1>1, <2>1 DEF Asks
<1>4. h \notin listeners'[d]
  BY <1>1, <1>2, Asked
<1>5. ~Has(mailbox'[h], About(d, News))
  <2>1. Has(mailbox'[h], About(d, News)) => Has(mailbox[h], About(d, News)) \/ (Tells(g, h) /\ d = g)
    BY <1>2, Tidings
  <2>. QED  BY <1>1, <1>4, <2>1, Asked
<1>6. ~Heard(h, d)'
  BY <1>1, Asked
<1>. QED  BY <1>3, <1>4, <1>5, <1>6

LEMMA NewsTrueStays ==
  ASSUME TypeOK, ServiceInv, NEW g \in Goals, Effect(g), NEW h \in Goals, NEW d \in Goals
  PROVE  NewsTrue(h, d)'
<1>1. NewsTrue(h, d) /\ NewsTrue(g, d) /\ Calm(g)
  BY DEF ServiceInv, Bonds, Own
<1>2. state[d] \notin Unfinished => state'[d] = state[d]
  BY Onward
<1>3. /\ Satisfied \cap Unfinished = {} /\ Unsatisfied \cap Unfinished = {}
  BY DEF Satisfied, Unsatisfied, Unfinished
<1>4. PICK r : r \in Requesters
  BY DEF Requesters
<1>5. /\ Has(mailbox'[h], About(d, {"GoalSuccess"})) =>
              \/ Has(mailbox[h], About(d, {"GoalSuccess"}))
              \/ Tells(g, h) /\ d = g /\ state'[g] \in Satisfied
      /\ Has(mailbox'[h], About(d, {"GoalFailure"})) =>
              \/ Has(mailbox[h], About(d, {"GoalFailure"}))
              \/ Tells(g, h) /\ d = g /\ state'[g] \in Unsatisfied
  BY <1>1, <1>4, Tidings
<1>6. ASSUME Heard(h, d)', h \notin Queried
      PROVE  state'[d] \notin Unfinished
  <2>1. CASE Heard(h, d)
    BY <1>1, <1>2, <1>6, <2>1 DEF NewsTrue
  <2>2. CASE h = g /\ Head(mailbox[g]) \in About(d, News)
    <3>1. \E k \in News : Has(mailbox[g], About(d, {k}))
      <4>1. \E k \in News : Head(mailbox[g]) \in About(d, {k})
        BY <2>2 DEF About
      <4>. QED  BY <1>1, <4>1, HeadHas DEF Effect
    <3>2. state[d] \notin Unfinished
      BY <1>1, <1>3, <3>1 DEF NewsTrue, News
    <3>. QED  BY <1>2, <3>2
  <2>. QED  BY <1>6, <2>1, <2>2, Asked
<1>. QED  BY <1>1, <1>2, <1>3, <1>5, <1>6 DEF NewsTrue

\* News of a goal that has none to tell yet.
LEMMA NoNewsYet ==
  ASSUME ServiceInv, NEW h \in Goals, NEW d \in Goals, state[d] \in Unfinished
  PROVE  ~Has(mailbox[h], About(d, News))
<1>1. \A k \in News : ~Has(mailbox[h], About(d, {k}))
  BY DEF ServiceInv, Bonds, NewsTrue, News, Satisfied, Unsatisfied, Unfinished
<1>. QED  BY <1>1 DEF Has, About

LEMMA OnceStays ==
  ASSUME TypeOK, ServiceInv, NEW g \in Goals, Effect(g), NEW h \in Goals, NEW d \in Goals
  PROVE  Once(h, d)'
<1>. DEFINE m == Head(mailbox[g])
<1>. SUFFICES ASSUME Distinct(h), d \in Children(h)
              PROVE
  /\ One(mailbox'[d], From(h))
  /\ Has(mailbox'[d], From(h)) => /\ h \notin listeners'[d] /\ ~Heard(h, d)'
                                  /\ ~Has(mailbox'[h], About(d, News))
  /\ state'[d] \in Satisfied =>
       /\ One(mailbox'[h], About(d, News))
       /\ h \notin Queried /\ Has(mailbox'[h], About(d, News)) => ~Heard(h, d)'
  BY DEF Once, Distinct, Children
<1>0. h \in Requesters /\ Calm(g)
  BY DEF Requesters, ServiceInv, Own
<1>1. /\ One(mailbox[d], From(h))
      /\ Has(mailbox[d], From(h)) => /\ h \notin listeners[d] /\ ~Heard(h, d)
                                     /\ ~Has(mailbox[h], About(d, News))
      /\ state[d] \in Satisfied =>
           /\ One(mailbox[h], About(d, News))
           /\ h \notin Queried /\ Has(mailbox[h], About(d, News)) => ~Heard(h, d)
  BY DEF ServiceInv, Bonds, Once
<1>2. Asks(g) /\ h = g => /\ ~Has(mailbox[d], From(h)) /\ h \notin listeners[d]
                          /\ ~Has(mailbox[h], About(d, News)) /\ ~Heard(h, d)
  BY DEF Asks, ServiceInv, Bonds, Silent
<1>3. /\ One(mailbox[d], From(h))
           /\ (Asks(g) /\ h = g => Distinct(g) /\ ~Has(mailbox[d], From(h)))
           => One(mailbox'[d], From(h))
      /\ Has(mailbox'[d], From(h)) =>
           Has(mailbox[d], From(h)) \/ (Asks(g) /\ h = g /\ d \in Children(g))
      /\ One(mailbox[g], From(h)) /\ m \in From(h) /\ ~(Asks(g) /\ h = g)
           => ~Has(mailbox'[g], From(h))
  BY <1>0, Tidings
<1>4. /\ Has(mailbox'[h], About(d, News)) =>
           Has(mailbox[h], About(d, News)) \/ (Tells(g, h) /\ d = g)
      /\ One(mailbox[h], About(d, News))
           /\ (Tells(g, h) /\ d = g => ~Has(mailbox[h], About(d, News)))
              => One(mailbox'[h], About(d, News))
      /\ One(mailbox[g], About(d, News)) /\ m \in About(d, News)
              /\ ~(Tells(g, g) /\ d = g) => ~Has(mailbox'[g], About(d, News))
  BY <1>0, Tidings
<1>5. One(mailbox'[d], From(h))
  BY <1>1, <1>2, <1>3
<1>6. ASSUME Has(mailbox'[d], From(h))
      PROVE  /\ h \notin listeners'[d] /\ ~Heard(h, d)'
             /\ ~Has(mailbox'[h], About(d, News))
  <2>1. /\ h \notin listeners[d] /\ ~Heard(h, d) /\ ~Has(mailbox[h], About(d, News))
    BY <1>1, <1>2, <1>3, <1>6
  <2>2. h \notin listeners'[d]
    <3>1. SUFFICES ASSUME d = g, m \in From(h), Has(mailbox[g], From(h))
                   PROVE  FALSE
      BY <1>0, <2>1, Asked
    <3>. QED  BY <1>1, <1>2, <1>3, <1>6, <3>1
  <2>3. ~Heard(h, d)'
    BY <2>1, Asked
  <2>4. ~Has(mailbox'[h], About(d, News))
    BY <1>4, <2>1, <2>2, Asked
  <2>. QED  BY <2>2, <2>3, <2>4
<1>7. ASSUME state'[d] \in Satisfied
      PROVE  One(mailbox'[h], About(d, News))
  <2>1. CASE state[d] \in Unfinished
    <3>1. ~Has(mailbox[h], About(d, News))
      BY <2>1, NoNewsYet
    <3>2. One(mailbox[h], About(d, News))
      BY <3>1 DEF Has, One
    <3>. QED  BY <1>4, <3>1, <3>2
  <2>2. CASE state[d] \notin Unfinished
    <3>1. state[d] \in Satisfied
      BY <1>7, <2>2, Onward
    <3>2. Tells(g, h) /\ d = g => ~Has(mailbox[h], About(d, News))
      BY <3>1, NotTwice
    <3>. QED  BY <1>1, <1>4, <3>1, <3>2
  <2>. QED  BY <2>1, <2>2
<1>8. ASSUME state'[d] \in Satisfied, h \notin Queried, Has(mailbox'[h], About(d, News)),
             Heard(h, d)'
      PROVE  FALSE
  <2>1. state[d] \in Satisfied
    <3>1. NewsTrue(h, d)
      BY DEF ServiceInv, Bonds
    <3>2. Heard(h, d) => state[d] \notin Unfinished
      BY <1>8, <3>1 DEF NewsTrue
    <3>3. Has(mailbox[h], About(d, News)) => state[d] \notin Unfinished
      BY NoNewsYet
    <3>4. state[d] \notin Unfinished
      BY <1>8, <3>2, <3>3, Asked
    <3>. QED  BY <1>8, <3>4, Onward
  <2>2. CASE Heard(h, d)
    <3>1. Tells(g, h) /\ d = g
      BY <1>1, <1>4, <1>8, <2>1, <2>2
    <3>. QED  BY <2>1, <2>2, <3>1, NotTwice
  <2>3. CASE h = g /\ m \in About(d, News)
    <3>1. Tells(g, g) /\ d = g
      BY <1>1, <1>4, <1>8, <2>1, <2>3
    <3>2. Answers(g)
      BY <2>1, <3>1, NotTwice
    <3>3. m.type = "Satisfy" /\ m.type \in News
      BY <2>3, <3>2 DEF Answers, About
    <3>. QED  BY <3>3 DEF News
  <2>. QED  BY <1>8, <2>2, <2>3, Asked
<1>. QED  BY <1>5, <1>6, <1>7, <1>8

LEMMA PassedStays ==
  ASSUME TypeOK, ServiceInv, NEW g \in Goals, Effect(g), NEW h \in Goals
  PROVE  Passed(h)'
<1>. DEFINE m == Head(mailbox[g])
<1>. SUFFICES ASSUME Through(h)'
              PROVE  /\ Distinct(h)
                     /\ \A d \in Children(h) :
                          /\ state'[d] \in Satisfied /\ Heard(h, d)'
                          /\ NewsOver(h)' => ~Has(mailbox'[h], About(d, News))
  BY DEF Passed, Distinct, Children
<1>0. Children(h) \subseteq Goals
  BY DependenciesType DEF Children
<1>1. \A d \in Goals : state[d] \in Satisfied => state'[d] \in Satisfied
  BY Onward DEF Satisfied, Unfinished
<1>2. CASE Through(h)
  <2>1. /\ Distinct(h)
        /\ \A d \in Children(h) : /\ state[d] \in Satisfied /\ Heard(h, d)
                                  /\ NewsOver(h) => ~Has(mailbox[h], About(d, News))
    BY <1>2 DEF ServiceInv, Bonds, Passed
  <2>2. ASSUME NEW d \in Children(h), NewsOver(h)', Has(mailbox'[h], About(d, News))
        PROVE  FALSE
    <3>1. d \in Goals /\ Calm(g) /\ (\E r : r \in Requesters)
      BY <1>0 DEF ServiceInv, Own, Requesters
    <3>2. Has(mailbox[h], About(d, News)) \/ (Tells(g, h) /\ d = g)
      BY <2>2, <3>1, Tidings
    <3>3. Has(mailbox[h], About(d, News))
      BY <1>2, <3>2, NotTwice
    <3>4. ~NewsOver(h)
      BY <2>1, <3>3
    <3>5. h = g
      BY <2>2, <3>4, Onward
    <3>6. g \in Queried
      BY <3>4, <3>5 DEF NewsOver
    <3>7. m \in Results \cup JobReports
      BY <1>2, <2>2, <3>4, <3>5, <3>6 DEF Effect, GoesOn
    <3>8. Precede(mailbox[g], AnyNews, Results \cup JobReports)
      BY <3>6 DEF ServiceInv, Bonds, Ordered
    <3>9. mailbox[g] \in Seq(Message) /\ mailbox[g] # <<>>
      BY DEF TypeOK, BoxTypeOK, Effect
    <3>10. ~Has(mailbox[g], AnyNews)
      BY <3>7, <3>8, <3>9, TailHas
    <3>11. Has(mailbox[g], AnyNews)
      BY <3>1, <3>3, <3>5 DEF Has, About, AnyNews
    <3>. QED  BY <3>10, <3>11
  <2>. QED  BY <1>0, <1>1, <2>1, <2>2, Onward
<1>3. CASE ~Through(h)
  <2>1. h = g
    BY <1>3, Onward
  <2>2. /\ Distinct(g)
        /\ g \in Queried => ~NewsOver(g)'
        /\ \A d \in Children(g) : state[d] \in Satisfied /\ Heard(g, d)'
    BY <1>3, <2>1 DEF Effect, GoesOn
  <2>3. ASSUME NEW d \in Children(g), NewsOver(g)', Has(mailbox'[g], About(d, News))
        PROVE  FALSE
    <3>1. d \in Goals /\ state'[d] \in Satisfied /\ Heard(g, d)' /\ g \notin Queried
      BY <1>0, <1>1, <2>1, <2>2, <2>3
    <3>2. Once(g, d)'
      BY <3>1, OnceStays
    <3>3. Distinct(g)' /\ (d \in Children(g))'
      BY <2>2 DEF Distinct, Children
    <3>. QED  BY <2>3, <3>1, <3>2, <3>3 DEF Once
  <2>. QED  BY <1>0, <1>1, <2>1, <2>2, <2>3
<1>. QED  BY <1>2, <1>3

\* A goal whose status is asked for has no result or report before all news is in.
LEMMA NoReportsYet ==
  ASSUME TypeOK, Undisturbed, ServiceInv, NEW h \in Goals, h \in Queried,
         HasAskedAll(h), ~Through(h)
  PROVE  ~Has(mailbox[h], Results \cup JobReports) /\ checkers[h] = {}
<1>1. Waits(h) /\ state[h] # "Unstarted" /\ state[h] # "Running"
  BY DEF Through, Waits
<1>2. force[h] /\ Jobs(h) /\ Checks(h)
  BY <1>1 DEF Undisturbed, ServiceInv, Own, Calm
<1>3. ~Has(mailbox[h], JobReports)
  BY <1>1, <1>2 DEF Jobs, JobIn
<1>4. ~Has(mailbox[h], Results) /\ checkers[h] = {}
  BY <1>1, <1>2 DEF Checks
<1>. QED  BY <1>3, <1>4 DEF Has

LEMMA OrderedStays ==
  ASSUME TypeOK, Undisturbed, ServiceInv, NEW g \in Goals, Effect(g), NEW h \in Goals
  PROVE  Ordered(h)'
<1>. DEFINE m == Head(mailbox[g])
            reports == Results \cup JobReports
<1>. SUFFICES ASSUME h \in Queried
              PROVE  /\ Precede(mailbox'[h], AnyNews, reports)
                     /\ Has(mailbox'[h], AnyNews) => checkers'[h] = 1..Cardinality(checkers'[h])
  BY DEF Ordered
<1>0. /\ mailbox[g] \in Seq(Message) /\ mailbox[g] # <<>> /\ Calm(g)
      /\ \E r : r \in Requesters
  BY DEF TypeOK, BoxTypeOK, Effect, ServiceInv, Own, Requesters
<1>1. /\ Precede(mailbox[h], AnyNews, reports)
      /\ Has(mailbox[h], AnyNews) => checkers[h] = 1..Cardinality(checkers[h])
  BY DEF ServiceInv, Bonds, Ordered
<1>2. Tells(g, h) => ~Has(mailbox[h], reports) /\ checkers[h] = {}
  BY Asked, NotTwice, NoReportsYet
<1>3. /\ Has(mailbox'[h], AnyNews) => Has(mailbox[h], AnyNews) \/ Tells(g, h)
      /\ Precede(mailbox[h], AnyNews, reports) /\ (Tells(g, h) => ~Has(mailbox[h], reports))
              => Precede(mailbox'[h], AnyNews, reports)
  BY <1>0, Tidings
<1>4. ASSUME Has(mailbox'[h], AnyNews)
      PROVE  checkers'[h] = 1..Cardinality(checkers'[h])
  <2>1. checkers[h] = {} => checkers[h] = 1..Cardinality(checkers[h])
    BY FS_EmptySet
  <2>2. checkers[h] = 1..Cardinality(checkers[h])
    BY <1>1, <1>2, <1>3, <1>4, <2>1
  <2>3. CASE h # g
    BY <2>2, <2>3, Onward
  <2>4. CASE h = g
    <3>1. m \in Results => Has(mailbox[g], reports) /\ m \in reports
      <4>1. m \in reports => Has(mailbox[g], reports)
        BY <1>0, TailHas
      <4>. QED  BY <4>1
    <3>2. m \in Results => ~Has(mailbox[g], AnyNews)
      BY <1>0, <1>1, <2>4, <3>1, TailHas
    <3>3. m \notin Results
      BY <1>2, <1>3, <1>4, <2>4, <3>1, <3>2
    <3>. QED  BY <2>2, <2>4, <3>3 DEF Effect, GoesOn
  <2>. QED  BY <2>3, <2>4
<1>. QED  BY <1>1, <1>2, <1>3, <1>4

LEMMA StuckStays ==
  ASSUME TypeOK, ServiceInv, NEW g \in Goals, Effect(g), NEW h \in Goals
  PROVE  Stuck(h)'
<1>. DEFINE m == Head(mailbox[g])
<1>0. Stuck(h) /\ Children(h) \subseteq Goals
  BY DependenciesType DEF ServiceInv, Bonds, Children
<1>1. \A d \in Goals : state[d] \in Unsatisfied => state'[d] \in Unsatisfied
  BY Onward DEF Unsatisfied, Unfinished
<1>2. ASSUME state'[h] = "DependencyFailed"
      PROVE  \E d \in Children(h) : Heard(h, d)' /\ state'[d] \in Unsatisfied
  <2>1. CASE state[h] = "DependencyFailed"
    <3>1. PICK d \in Children(h) : Heard(h, d) /\ state[d] \in Unsatisfied
      BY <1>0, <2>1 DEF Stuck
    <3>2. Heard(h, d)' /\ state'[d] \in Unsatisfied
      BY <1>0, <1>1, <3>1, Onward
    <3>. QED  BY <3>2
  <2>2. CASE state[h] # "DependencyFailed"
    <3>1. h = g /\ m.type = "GoalFailure"
      BY <1>2, <2>2, Onward DEF Effect, GoesOn
    <3>2. /\ m \in Message /\ \A M : m \in M => Has(mailbox[g], M)
          /\ m.type \in News => \E d \in Goals : m.status = <<d, 0>>
      BY HeadHas DEF Effect, ServiceInv, Own
    <3>3. PICK d \in Goals : m.status = <<d, 0>>
      BY <3>1, <3>2 DEF News
    <3>4. m \in About(d, News) /\ m \in About(d, {"GoalFailure"})
      BY <3>1, <3>2, <3>3, Kinds DEF News
    <3>5. d \in Children(g)
      BY <3>4, Asked
    <3>6. state[d] \in Unsatisfied
      BY <3>2, <3>4 DEF ServiceInv, Bonds, NewsTrue
    <3>7. Heard(g, d)'
      BY <3>1, <3>3 DEF Effect, Learns, Heard, News
    <3>. QED  BY <1>1, <3>1, <3>5, <3>6, <3>7
  <2>. QED  BY <2>1, <2>2
<1>3. /\ Waits(h)' => HasDependencies(h) /\ h \notin BadWitness
      /\ h \in BadWitness /\ HasDependencies(h) =>
           \/ state'[h] \in {"Unstarted", "Failed"}
           \/ state'[h] = "CheckingEvidence" /\ ~force'[h]
  <2>1. CASE h = g
    BY <2>1 DEF Effect, GoesOn
  <2>2. CASE h # g
    <3>1. state'[h] = state[h] /\ force'[h] = force[h]
      BY <2>2, Onward
    <3>. QED  BY <1>0, <3>1 DEF Stuck, Waits
  <2>. QED  BY <2>1, <2>2
<1>. QED  BY <1>2, <1>3 DEF Stuck, Children, HasDependencies

LEMMA BondsStay ==
  ASSUME TypeOK, Undisturbed, ServiceInv, NEW g \in Goals, Effect(g)
  PROVE  Bonds'
  BY SilentStays, NewsTrueStays, OnceStays, PassedStays, OrderedStays, StuckStays DEF Bonds

\* Whom a goal tells of its end has asked for it.
LEMMA ClientToldStays ==
  ASSUME TypeOK, ServiceInv, NEW g \in Goals, Effect(g), NEW c \in Clients
  PROVE  ClientTold(c)'
<1>. DEFINE m == Head(mailbox[g])
<1>0. /\ c \in Requesters /\ c # g /\ Calm(g) /\ ClientTold(c)
      /\ asked'[c] = asked[c] /\ NoValue \notin Goals
  BY NamesDistinct, BoundsType DEF Requesters, ServiceInv, Own, Effect, Minds
<1>1. ASSUME NEW x \in Goals
      PROVE  /\ Has(mailbox'[x], From(c)) => Has(mailbox[x], From(c))
             /\ c \in listeners'[x] => c \in listeners[x] \/ (x = g /\ Has(mailbox[g], From(c)))
  <2>1. Has(mailbox'[x], From(c)) => Has(mailbox[x], From(c)) \/ (Asks(g) /\ c = g)
    BY <1>0, Tidings
  <2>. QED  BY <1>0, <2>1, Asked
<1>2. \A x \in Goals : Has(mailbox'[x], From(c)) \/ c \in listeners'[x] => asked'[c] = x
  BY <1>0, <1>1 DEF ClientTold
<1>3. ASSUME NEW t \in News, NEW L, Publish(g, t, L, Taken(g)), L \subseteq listeners'[g],
             state'[g] \in IF t = "GoalSuccess" THEN Satisfied ELSE Unsatisfied
      PROVE  reply'[c] # reply[c] =>
               /\ reply[c] = "waiting" /\ reply'[c] = t /\ asked[c] = g
               /\ c \in listeners'[g]
  <2>1. reply'[c] = IF c \in L /\ reply[c] = "waiting" THEN t ELSE reply[c]
    BY <1>3 DEF Publish
  <2>. QED  BY <1>0, <1>2, <1>3, <2>1
<1>4. \/ reply'[c] = reply[c]
      \/ /\ reply[c] = "waiting" /\ asked[c] = g
         /\ \/ reply'[c] = "GoalSuccess" /\ state'[g] \in Satisfied
            \/ reply'[c] = "GoalFailure" /\ state'[g] \in Unsatisfied
  <2>1. CASE Quietly(g) \/ Asks(g)
    BY <2>1 DEF Quietly, Asks, Asking, Quiet
  <2>2. CASE Decides(g)
    BY <1>3, <2>2 DEF Decides, News, Unsatisfied
  <2>3. CASE Answers(g)
    <3>1. {m.from} \subseteq listeners'[g]
      BY <2>3 DEF Answers, Effect, Learns
    <3>. QED  BY <1>3, <2>3, <3>1 DEF Answers, News
  <2>. QED  BY <2>1, <2>2, <2>3 DEF Effect
<1>5. \A x \in Goals : /\ state[x] \in Satisfied => state'[x] \in Satisfied
                       /\ state[x] \in Unsatisfied => state'[x] \in Unsatisfied
  BY Onward DEF Satisfied, Unsatisfied, Unfinished
<1>6. ASSUME NEW x \in Goals, c \in listeners'[x], state'[x] \notin Unfinished,
             reply'[c] = "waiting"
      PROVE  x \in BadWitness /\ HasDependencies(x)
  <2>1. reply[c] = "waiting"
    BY <1>4, <1>6
  <2>2. CASE x # g
    BY <1>0, <1>1, <1>6, <2>1, <2>2, Onward DEF ClientTold
  <2>3. CASE x = g
    <3>1. ~Decides(g) /\ (Answers(g) => m.from # c)
      <4>1. ASSUME NEW t \in News, NEW L, Publish(g, t, L, Taken(g)), c \in L
            PROVE  FALSE
        BY <1>6, <2>1, <4>1 DEF Publish, News
      <4>2. ~Decides(g)
        BY <1>6, <2>3, <4>1 DEF Decides, News
      <4>3. Answers(g) => m.from # c
        BY <4>1 DEF Answers, News
      <4>. QED  BY <4>2, <4>3
    <3>2. state'[g] = state[g] /\ (m.type = "Satisfy" => m.from # c)
      BY <1>6, <2>3, <3>1 DEF Effect, Quietly, Asks, Answers
    <3>3. c \in listeners[g]
      BY <1>6, <2>3, <3>2 DEF Effect, Learns
    <3>. QED  BY <1>0, <1>6, <2>1, <2>3, <3>2, <3>3 DEF ClientTold
  <2>. QED  BY <2>2, <2>3
<1>7. /\ reply'[c] = "GoalSuccess" => state'[asked'[c]] \in Satisfied
      /\ reply'[c] = "GoalFailure" => state'[asked'[c]] \in Unsatisfied
      /\ asked'[c] = NoValue => reply'[c] = "none"
  <2>1. asked[c] \in Goals \cup {NoValue}
    BY DEF TypeOK, ClientTypeOK
  <2>2. asked[c] = NoValue => reply'[c] = reply[c]
    BY <1>0, <1>4
  <2>3. CASE reply'[c] = reply[c]
    BY <1>0, <1>5, <2>1, <2>2, <2>3 DEF ClientTold
  <2>4. CASE reply'[c] # reply[c]
    BY <1>0, <1>4, <2>4
  <2>. QED  BY <2>3, <2>4
<1>. QED  BY <1>2, <1>6, <1>7 DEF ClientTold, HasDependencies
-----------------------------------------------------------------------------
(* And it keeps what each goal is alone.                                     *)

\* Reports, results and what is unwelcome are not news.
LEMMA Reports ==
  ASSUME TypeOK, NEW g \in Goals, Calm(g), Effect(g), NEW h \in Goals,
         NEW K \in {Unwelcome, Results, JobReports}
  PROVE  LET m == Head(mailbox[g]) IN
         /\ Has(mailbox'[h], K) => Has(mailbox[h], K)
         /\ Has(mailbox[h], K) => Has(mailbox'[h], K) \/ (h = g /\ m \in K)
         /\ One(mailbox[h], K) => One(mailbox'[h], K)
         /\ One(mailbox[g], K) /\ m \in K => ~Has(mailbox'[g], K)
<1>. DEFINE m == Head(mailbox[g])
            Goal == /\ Has(mailbox'[h], K) => Has(mailbox[h], K)
                    /\ Has(mailbox[h], K) => Has(mailbox'[h], K) \/ (h = g /\ m \in K)
                    /\ One(mailbox[h], K) => One(mailbox'[h], K)
                    /\ One(mailbox[g], K) /\ m \in K => ~Has(mailbox'[g], K)
<1>. SUFFICES Goal
  OBVIOUS
<1>0. mailbox[g] # <<>> /\ incarnation[g] = 0
  BY DEF Effect, Calm
<1>1. CASE Quietly(g)
  <2>1. Quiet(Taken(g))
    BY <1>1 DEF Quietly
  <2>2. /\ Has(mailbox'[h], K) => Has(mailbox[h], K)
        /\ Has(mailbox[h], K) => Has(mailbox'[h], K) \/ (h = g /\ m \in K)
        /\ One(mailbox[h], K) => One(mailbox'[h], K)
    BY <1>0, <2>1, QuietBox
  <2>3. One(mailbox[g], K) /\ m \in K => ~Has(mailbox'[g], K)
    BY <1>0, <2>1, QuietBox
  <2>. QED  BY <2>2, <2>3
<1>2. CASE Asks(g)
  <2>1. PICK f \in BOOLEAN : Asking(g, f) /\ (FALSE \notin ForceModes => f)
    BY <1>2 DEF Asks
  <2>2. SatisfyMsg(g, f) \notin K
    <3>1. SatisfyMsg(g, f) \notin Unwelcome
      BY <2>1 DEF SatisfyMsg, Unwelcome, News
    <3>2. SatisfyMsg(g, f) \notin Results /\ SatisfyMsg(g, f) \notin JobReports
      BY DEF SatisfyMsg, Results, JobReports
    <3>. QED  BY <3>1, <3>2
  <2>5. f \in BOOLEAN /\ Asking(g, f)
    BY <2>1
  <2>3. ASSUME NEW M, SatisfyMsg(g, f) \notin M
        PROVE  /\ Has(mailbox'[h], M) => Has(mailbox[h], M)
               /\ Has(mailbox[h], M) => Has(mailbox'[h], M) \/ (h = g /\ m \in M)
               /\ One(mailbox[h], M) => One(mailbox'[h], M)
    <3>1. ASSUME Has(mailbox'[h], M)
          PROVE  Has(mailbox[h], M)
      BY <1>0, <2>5, <2>3, <3>1, AskBox
    <3>2. Has(mailbox[h], M) => Has(mailbox'[h], M) \/ (h = g /\ m \in M)
      BY <1>0, <2>5, <2>3, AskBox
    <3>3. ASSUME One(mailbox[h], M)
          PROVE  One(mailbox'[h], M)
      <4>1. SatisfyMsg(g, f) \in M => Distinct(g) /\ ~Has(mailbox[h], M)
        BY <2>3
      <4>. QED  BY <1>0, <2>5, <3>3, <4>1, AskBox
    <3>. QED  BY <3>1, <3>2, <3>3
  <2>4. ASSUME NEW M, SatisfyMsg(g, f) \notin M, One(mailbox[g], M), m \in M
        PROVE  ~Has(mailbox'[g], M)
    BY <1>0, <2>5, <2>4, AskBox
  <2>. QED  BY <2>2, <2>3, <2>4
<1>3. ASSUME NEW t \in News, NEW L, Publish(g, t, L, Taken(g))
      PROVE  Goal
  <2>2. NewsOf(g, t) \notin K
    <3>1. NewsOf(g, t) \notin Unwelcome
      BY DEF NewsOf, Unwelcome, News
    <3>2. NewsOf(g, t) \notin Results /\ NewsOf(g, t) \notin JobReports
      BY DEF NewsOf, Results, JobReports, News
    <3>. QED  BY <3>1, <3>2
  <2>3. Has(mailbox'[h], K) => Has(mailbox[h], K)
    BY <1>0, <1>3, <2>2, PublishBox
  <2>4. Has(mailbox[h], K) => Has(mailbox'[h], K) \/ (h = g /\ m \in K)
    BY <1>0, <1>3, <2>2, PublishBox
  <2>5. One(mailbox[h], K) => One(mailbox'[h], K)
    BY <1>0, <1>3, <2>2, PublishBox
  <2>6. One(mailbox[g], K) /\ m \in K => ~Has(mailbox'[g], K)
    BY <1>0, <1>3, <2>2, PublishBox
  <2>. QED  BY <2>3, <2>4, <2>5, <2>6
<1>4. CASE Decides(g) \/ Answers(g)
  <2>1. "GoalSuccess" \in News /\ "GoalFailure" \in News
    BY DEF News
  <2>. HIDE DEF Goal
  <2>. QED  BY <1>3, <1>4, <2>1 DEF Decides, Answers
<1>. QED  BY <1>1, <1>2, <1>4 DEF Effect

\* The other goals are left alone.
LEMMA OthersStay ==
  ASSUME TypeOK, TypeOK', NEW g \in Goals, Calm(g), Effect(g),
         NEW h \in Goals \ {g}, Own(h)
  PROVE  Own(h)'
<1>1. /\ state'[h] = state[h] /\ force'[h] = force[h] /\ checkers'[h] = checkers[h]
      /\ listeners'[h] = listeners[h] /\ childStatus'[h] = childStatus[h]
      /\ jobRunner'[h] = jobRunner[h] /\ runner'[h] = runner[h]
      /\ runnerBox'[h] = runnerBox[h]
      /\ evidenceActors'[h] = evidenceActors[h] /\ probes'[h] = probes[h]
      /\ incarnation'[h] = incarnation[h] /\ orphans'[h] = orphans[h]
      /\ timers'[h] = timers[h] /\ retryUp'[h] = retryUp[h]
      /\ futures'[h] = futures[h] /\ finishing'[h] = finishing[h]
  BY DEF Effect, Learns, Minds
<1>2. Has(mailbox'[h], Unwelcome) => Has(mailbox[h], Unwelcome)
  BY Reports
<1>3. Has(mailbox'[h], Results) => Has(mailbox[h], Results)
  BY Reports
<1>4. /\ Has(mailbox'[h], JobReports) = Has(mailbox[h], JobReports)
      /\ One(mailbox[h], JobReports) => One(mailbox'[h], JobReports)
  <2>1. Has(mailbox'[h], JobReports) \in BOOLEAN /\ Has(mailbox[h], JobReports) \in BOOLEAN
    BY DEF Has
  <2>. QED  BY <2>1, Reports
<1>5. Calm(h)'
  BY <1>1, <1>2 DEF Own, Calm, Unwelcome
<1>6. Jobs(h)'
  BY <1>1, <1>4 DEF Own, Jobs, JobIn
<1>7. Checks(h)'
  BY <1>1, <1>3 DEF Own, Checks, Waits
<1>. QED  BY <1>5, <1>6, <1>7 DEF Own

LEMMA CalmStays ==
  ASSUME TypeOK, NEW g \in Goals, Calm(g), Effect(g)
  PROVE  Calm(g)'
<1>1. Has(mailbox'[g], Unwelcome) => Has(mailbox[g], Unwelcome)
  BY Reports
<1>2. state'[g] # "Aborted"
  BY DEF Calm, Effect, Quietly, Asks, Decides, Answers, Satisfied, Unfinished
<1>3. /\ Head(mailbox[g]) \in Message
      /\ Head(mailbox[g]).type \in News =>
           \E d \in Goals : Head(mailbox[g]).status = <<d, 0>>
  BY HeadHas DEF Effect
<1>4. retryAgent \notin listeners'[g]
  <2>1. Head(mailbox[g]).type = "Satisfy" => Head(mailbox[g]).from # retryAgent
    BY <1>3, MessageFields, NamesDistinct DEF Requesters
  <2>. QED  BY <2>1 DEF Calm, Effect, Learns
<1>5. \A s \in childStatus'[g] : s[2] = 0
  BY <1>3 DEF Calm, Effect, Learns
<1>6. /\ incarnation'[g] = incarnation[g] /\ orphans'[g] = orphans[g]
      /\ timers'[g] = timers[g] /\ retryUp'[g] = retryUp[g]
      /\ FALSE \notin ForceModes /\ state'[g] # "Unstarted" => force'[g]
  BY DEF Effect, Minds
<1>. QED  BY <1>1, <1>2, <1>4, <1>5, <1>6 DEF Calm, Unwelcome

\* A handler that has nothing to do with the job,
LEMMA JobKept ==
  ASSUME TypeOK, NEW g \in Goals, Calm(g), Jobs(g), Effect(g), noJob,
         Head(mailbox[g]).type \notin {"JobRunSuccess", "JobRunFailed"},
         state'[g] = "Running" <=> state[g] = "Running"
  PROVE  Jobs(g)'
<1>1. Head(mailbox[g]) \notin JobReports
  BY DEF JobReports
<1>2. /\ Has(mailbox'[g], JobReports) = Has(mailbox[g], JobReports)
      /\ One(mailbox'[g], JobReports)
  <2>1. Has(mailbox'[g], JobReports) \in BOOLEAN /\ Has(mailbox[g], JobReports) \in BOOLEAN
    BY DEF Has
  <2>. QED  BY <1>1, <2>1, Reports DEF Jobs
<1>3. /\ UNCHANGED <<jobRunner, runner, runnerBox, futures, finishing>>
      /\ state[g] \in {"Success", "Failed"} => state'[g] = state[g]
  BY DEF noJob, Effect, Minds, GoesOn, Unfinished
<1>. QED  BY <1>2, <1>3 DEF Jobs, JobIn

\* one that starts it,
LEMMA JobStarts ==
  ASSUME TypeOK, NEW g \in Goals, Jobs(g), NEW box, RunLocalJob(g, box),
         state[g] \notin {"Running", "Success", "Failed"}
  PROVE  /\ state' = [state EXCEPT ![g] = "Running"] /\ Quiet(box)
         /\ runner'[g] /\ runnerBox'[g] = <<"Satisfy">>
         /\ \A h \in Goals \ {g} : /\ jobRunner'[h] = jobRunner[h]
                                   /\ runner'[h] = runner[h]
                                   /\ runnerBox'[h] = runnerBox[h]
<1>1. ~runner[g] /\ ~jobRunner[g] /\ runnerBox[g] = <<>>
  BY DEF Jobs, JobIn
<1>2. /\ state' = [state EXCEPT ![g] = "Running"] /\ Quiet(box)
      /\ jobRunner' = [jobRunner EXCEPT ![g] = TRUE]
      /\ runner' = [runner EXCEPT ![g] = runner[g] \/ ~jobRunner[g]]
      /\ runnerBox' = IF runner'[g]
                      THEN [runnerBox EXCEPT ![g] = Append(runnerBox[g], "Satisfy")]
                      ELSE runnerBox
  BY <1>1 DEF RunLocalJob
<1>3. runner'[g]
  BY <1>1, <1>2 DEF TypeOK, RunnerTypeOK
<1>4. /\ runnerBox'[g] = Append(<<>>, "Satisfy")
      /\ \A h \in Goals \ {g} : runnerBox'[h] = runnerBox[h]
  BY <1>1, <1>2, <1>3 DEF TypeOK, RunnerTypeOK
<1>5. Append(<<>>, "Satisfy") = <<"Satisfy">>
  OBVIOUS
<1>6. \A h \in Goals \ {g} : jobRunner'[h] = jobRunner[h] /\ runner'[h] = runner[h]
  BY <1>2 DEF TypeOK, RunnerTypeOK, ProverTypeOK
<1>. QED  BY <1>2, <1>3, <1>4, <1>5, <1>6

LEMMA JobStarted ==
  ASSUME TypeOK, NEW g \in Goals, Calm(g), Jobs(g), Effect(g),
         state[g] \notin {"Running", "Success", "Failed"},
         state'[g] = "Running", runner'[g], runnerBox'[g] = <<"Satisfy">>
  PROVE  Jobs(g)'
<1>1. ~runner[g] /\ futures[g] = 0 /\ runnerBox[g] = <<>> /\ finishing[g] = 0
      /\ ~Has(mailbox[g], JobReports) /\ One(mailbox[g], JobReports)
  BY DEF Jobs, JobIn
<1>2. ~Has(mailbox'[g], JobReports) /\ One(mailbox'[g], JobReports)
  BY <1>1, Reports
<1>3. futures'[g] = 0 /\ finishing'[g] = 0
  BY <1>1 DEF Effect, Minds
<1>4. <<"Satisfy">> # <<>>
  OBVIOUS
<1>. QED  BY <1>2, <1>3, <1>4 DEF Jobs, JobIn

\* and one that takes its report.
LEMMA JobEnds ==
  ASSUME TypeOK, NEW g \in Goals, Calm(g), Jobs(g), Effect(g),
         Head(mailbox[g]).type \in {"JobRunSuccess", "JobRunFailed"},
         state'[g] \in {"Success", "Failed"}, UNCHANGED <<runner, runnerBox>>
  PROVE  Jobs(g)'
<1>1. Head(mailbox[g]) \in JobReports /\ Has(mailbox[g], JobReports)
  BY HeadHas, Kinds DEF Effect
<1>2. /\ state[g] = "Running" /\ runnerBox[g] = <<>> /\ futures[g] = 0
      /\ One(mailbox[g], JobReports)
  BY <1>1 DEF Jobs, JobIn
<1>3. ~Has(mailbox'[g], JobReports) /\ One(mailbox'[g], JobReports)
  BY <1>1, <1>2, Reports
<1>4. futures'[g] = futures[g] /\ finishing'[g] = finishing[g]
  BY DEF Effect, Minds
<1>. QED  BY <1>2, <1>3, <1>4 DEF Jobs, JobIn

\* A handler that creates no checker,
LEMMA ChecksKept ==
  ASSUME TypeOK, NEW g \in Goals, Calm(g), Checks(g), Effect(g),
         UNCHANGED probes, evidenceActors'[g] = checkers'[g],
         checkers'[g] \subseteq checkers[g],
         state[g] # "Unstarted" => /\ state'[g] # "Unstarted"
                                   /\ force'[g] /\ Waits(g)' => force[g] /\ Waits(g),
         state'[g] \in {"CheckingEvidence", "AlreadySatisfied"} => HasEvidence(g)
  PROVE  Checks(g)'
<1>1. Has(mailbox'[g], Results) => Has(mailbox[g], Results)
  BY Reports
<1>. QED  BY <1>1 DEF Checks, HasEvidence

\* and one that does.
LEMMA ChecksStart ==
  ASSUME TypeOK, NEW g \in Goals, evidenceActors[g] = checkers[g],
         checkers[g] = 1..Cardinality(checkers[g])
  PROVE  /\ NamesFree(g)
         /\ \A box : CheckEvidence(g, box) =>
              /\ evidenceActors'[g] = checkers'[g]
              /\ checkers'[g] = 1..Cardinality(checkers'[g])
              /\ \A h \in Goals \ {g} :
                   /\ checkers'[h] = checkers[h]
                   /\ evidenceActors'[h] = evidenceActors[h] /\ probes'[h] = probes[h]
<1>. DEFINE n == Cardinality(checkers[g])
            k == NumEvidence[g]
<1>1. n \in Nat /\ k \in Nat
  BY FS_CardinalityType, DependenciesType DEF TypeOK, ProverTypeOK
<1>2. NewIds(g) = (n + 1)..(n + k) /\ checkers[g] = 1..n
  BY DEF NewIds
<1>. HIDE DEF n, k
<1>3. NamesFree(g)
  BY <1>1, <1>2 DEF NamesFree
<1>4. Created(g) = NewIds(g)
  BY <1>3 DEF NamesFree, Created
<1>5. checkers[g] \cup NewIds(g) = 1..(n + k)
  BY <1>1, <1>2
<1>6. Cardinality(1..(n + k)) = n + k
  <2>1. n + k \in Nat
    BY <1>1
  <2>2. 1 \in Int /\ n + k \in Int
    BY <2>1
  <2>3. Cardinality(1..(n + k)) = IF 1 > n + k THEN 0 ELSE (n + k) - 1 + 1
    BY <2>2, FS_Interval
  <2>. QED  BY <2>1, <2>3
<1>7. ASSUME NEW box, CheckEvidence(g, box)
      PROVE  /\ evidenceActors'[g] = checkers'[g]
             /\ checkers'[g] = 1..Cardinality(checkers'[g])
             /\ \A h \in Goals \ {g} :
                   /\ checkers'[h] = checkers[h]
                   /\ evidenceActors'[h] = evidenceActors[h] /\ probes'[h] = probes[h]
  <2>1. /\ evidenceActors' = [evidenceActors EXCEPT ![g] = evidenceActors[g] \cup Created(g)]
        /\ probes' = [probes EXCEPT ![g] = probes[g] \cup Created(g)]
        /\ checkers' = [checkers EXCEPT ![g] = checkers[g] \cup NewIds(g)]
    BY <1>7 DEF CheckEvidence, CreateCheckers
  <2>2. checkers'[g] = 1..(n + k) /\ evidenceActors'[g] = 1..(n + k)
    BY <1>4, <1>5, <2>1 DEF TypeOK, ProverTypeOK, CheckerTypeOK
  <2>. QED  BY <1>6, <2>1, <2>2 DEF TypeOK, ProverTypeOK, CheckerTypeOK
<1>. QED  BY <1>3, <1>7
-----------------------------------------------------------------------------
(* What the prover of g knows when it takes a message.                       *)

\* The state at a dependency's news.
LEMMA NewsContext ==
  ASSUME TypeOK, Undisturbed, ServiceInv, NEW g \in Goals, NEW d \in Goals,
         mailbox[g] # <<>>, Head(mailbox[g]).type \in News,
         Head(mailbox[g]).status = <<d, 0>>
  PROVE  /\ HasAskedAll(g) /\ d \in Children(g)
         /\ Head(mailbox[g]).type = "GoalFailure" => state[d] \in Unsatisfied /\ Waits(g)
         /\ ~Waits(g) => /\ g \in Queried /\ force[g]
                         /\ \/ state[g] = "CheckingEvidence"
                            \/ state[g] = "Running" /\ ~HasEvidence(g)
<1>. DEFINE m == Head(mailbox[g])
<1>1. /\ m \in Message /\ \A M : m \in M => Has(mailbox[g], M)
  BY HeadHas DEF ServiceInv, Own
<1>2. Has(mailbox[g], About(d, News)) /\ Has(mailbox[g], About(d, {m.type}))
  BY <1>1, Kinds
<1>3. HasAskedAll(g) /\ d \in Children(g)
  BY <1>2 DEF ServiceInv, Bonds, Silent
<1>4. m.type = "GoalFailure" => state[d] \in Unsatisfied
  BY <1>2 DEF ServiceInv, Bonds, NewsTrue
<1>5. ASSUME ~Waits(g)
      PROVE  /\ m.type # "GoalFailure" /\ g \in Queried /\ force[g]
             /\ \/ state[g] = "CheckingEvidence"
                \/ state[g] = "Running" /\ ~HasEvidence(g)
  <2>1. /\ state[d] \in Satisfied /\ ~NewsOver(g)
    BY <1>2, <1>3, <1>5 DEF Through, ServiceInv, Bonds, Passed
  <2>2. /\ g \in Queried /\ state[g] \notin {"Success", "Failed", "AlreadySatisfied"}
        /\ ~(state[g] = "Running" /\ HasEvidence(g))
    BY <2>1 DEF NewsOver
  <2>3. state[g] \in {"Running", "CheckingEvidence"}
    BY <1>3, <1>5, <2>2 DEF HasAskedAll
  <2>4. force[g]
    BY <2>2, <2>3 DEF Undisturbed, ServiceInv, Own, Calm
  <2>. QED  BY <1>4, <2>1, <2>2, <2>3, <2>4 DEF Satisfied, Unsatisfied
<1>. QED  BY <1>3, <1>4, <1>5

\* Where no dependency restarts, its status is only added to those before.
LEMMA WithChildIs ==
  ASSUME TypeOK, NEW g \in Goals, Calm(g), NEW d \in Goals
  PROVE  WithChild(g, <<d, 0>>) = childStatus[g] \cup {<<d, 0>>}
<1>1. \A t \in childStatus[g] : t[1] = d => t = <<d, 0>>
  BY DEF TypeOK, ProverTypeOK, Status, Calm
<1>. QED  BY <1>1 DEF WithChild

\* As many statuses as entries, all of children: each entry has a child of its own,
\* and all are there.
LEMMA ReadyMeansAll ==
  ASSUME TypeOK, ServiceInv, NEW g \in Goals, NEW d \in Goals, d \in Children(g),
         ReadyToProceed(g, <<d, 0>>)
  PROVE  /\ \A x \in Goals : Heard(g, x) => state[x] \in Satisfied
         /\ ~HidesDependencies(g) =>
              /\ Distinct(g)
              /\ \A x \in Children(g) : /\ state[x] \in Satisfied
                                        /\ Heard(g, x) \/ x = d
<1>. DEFINE D == Dependencies[g]
            W == WithChild(g, <<d, 0>>)
            T == {<<x, 0>> : x \in Children(g)}
<1>1. W = childStatus[g] \cup {<<d, 0>>} /\ Children(g) \subseteq Goals
  BY WithChildIs, DependenciesType DEF ServiceInv, Own, Children
<1>2. ASSUME NEW x \in Goals, <<x, 0>> \in W
      PROVE  state[x] \in Satisfied
  <2>1. LiveState(<<x, 0>>) = state[x]
    BY DEF LiveState, IsCurrent, ServiceInv, Own, Calm
  <2>. QED  BY <1>2, <2>1 DEF ReadyToProceed, CanProceed
<1>3. ASSUME ~HidesDependencies(g)
      PROVE  /\ Distinct(g)
             /\ \A x \in Children(g) : state[x] \in Satisfied /\ (Heard(g, x) \/ x = d)
  <2>1. IsFiniteSet(D)
    BY DependenciesType
  <2>2. Cardinality(W) >= Cardinality(D)
    BY <1>3 DEF ReadyToProceed, NumDependencies
  <2>3. W \subseteq T
    <3>1. ASSUME NEW s \in childStatus[g]
          PROVE  \E x \in Goals : s = <<x, 0>>
      <4>1. s \in Goals \X Nat
        BY DEF TypeOK, ProverTypeOK, Status
      <4>2. s[2] = 0
        BY DEF ServiceInv, Own, Calm
      <4>. QED  BY <4>1, <4>2
    <3>2. \A x \in Goals : <<x, 0>> \in childStatus[g] => x \in Children(g)
      BY DEF ServiceInv, Bonds, Silent, Heard
    <3>. QED  BY <1>1, <3>1, <3>2
  <2>. DEFINE f == [e \in D |-> <<e[2], 0>>]
  <2>4. f \in Surjection(D, T)
    BY DEF Surjection, Children
  <2>5. /\ IsFiniteSet(T) /\ Cardinality(T) <= Cardinality(D)
        /\ Cardinality(T) = Cardinality(D) <=> f \in Injection(D, T)
    BY <2>1, <2>4, FS_Surjection
  <2>6. /\ IsFiniteSet(W) /\ Cardinality(W) <= Cardinality(T)
        /\ Cardinality(T) = Cardinality(W) => T = W
    BY <2>3, <2>5, FS_Subset
  <2>7. Cardinality(W) \in Nat /\ Cardinality(T) \in Nat /\ Cardinality(D) \in Nat
    BY <2>1, <2>5, <2>6, FS_CardinalityType
  <2>8. Cardinality(T) = Cardinality(D) /\ Cardinality(T) = Cardinality(W)
    BY <2>2, <2>5, <2>6, <2>7
  <2>9. T = W /\ f \in Injection(D, T)
    BY <2>5, <2>6, <2>8
  <2>10. Distinct(g)
    BY <2>9 DEF Injection, IsInjective, Distinct
  <2>11. ASSUME NEW x \in Children(g)
         PROVE  state[x] \in Satisfied /\ (Heard(g, x) \/ x = d)
    <3>1. x \in Goals /\ <<x, 0>> \in W
      BY <1>1, <2>9
    <3>2. <<x, 0>> \in childStatus[g] \/ x = d
      BY <1>1, <3>1
    <3>. QED  BY <1>2, <3>1, <3>2 DEF Heard
  <2>. QED  BY <2>10, <2>11
<1>. QED  BY <1>1, <1>2, <1>3 DEF Heard

\* A handler that leaves the goal where it is,
LEMMA GoesOnSame ==
  ASSUME NEW g \in Goals, Stuck(g), state'[g] = state[g], force'[g] = force[g],
         checkers'[g] = checkers[g] \/ Head(mailbox[g]) \in Results
  PROVE  GoesOn(g)
<1>1. HasAskedAll(g)' = HasAskedAll(g) /\ NewsOver(g)' = NewsOver(g) /\ Waits(g)' = Waits(g)
  BY DEF HasAskedAll, NewsOver, Waits
<1>2. Through(g)' = Through(g)
  BY <1>1 DEF Through
<1>. QED  BY <1>1, <1>2 DEF GoesOn, Stuck

\* and one of a goal that has not yet asked.
LEMMA GoesOnFirst ==
  ASSUME NEW g \in Goals, ~HasAskedAll(g), state[g] \in Unfinished, ~Through(g)',
         state'[g] # "DependencyFailed",
         Waits(g)' => HasDependencies(g) /\ g \notin BadWitness,
         g \in BadWitness /\ HasDependencies(g) =>
           \/ state'[g] \in {"Unstarted", "Failed"}
           \/ state'[g] = "CheckingEvidence" /\ ~force'[g],
         checkers[g] = 1..Cardinality(checkers[g]) =>
           \/ checkers'[g] = 1..Cardinality(checkers'[g])
           \/ Head(mailbox[g]) \in Results
  PROVE  GoesOn(g)
  BY DEF GoesOn, Through
-----------------------------------------------------------------------------
(* The handlers, each as one of the kinds above.                             *)

\* The first Satisfy asks the dependencies, or starts what the goal does alone.
LEMMA FirstSatisfyKeeps ==
  ASSUME TypeOK, Undisturbed, ServiceInv, NEW g \in Goals, HandleFirstSatisfy(g)
  PROVE  Effect(g) /\ Own(g)'
<1>. DEFINE m == Head(mailbox[g])
            checksFirst == HasEvidence(g) /\ (~m.force \/ ~HasDependencies(g))
<1>1. /\ mailbox[g] # <<>> /\ m.type = "Satisfy" /\ state[g] = "Unstarted"
      /\ force' = [force EXCEPT ![g] = m.force]
      /\ listeners' = [listeners EXCEPT ![g] = listeners[g] \cup {m.from}]
      /\ UNCHANGED <<childStatus, incarnation>> /\ othersUnchanged
      /\ \/ checksFirst /\ noJob
              /\ (CheckEvidence(g, Taken(g)) \/ CheckEvidenceFails(g, Taken(g)))
         \/ ~checksFirst /\ noChecks /\ HasDependencies(g)
              /\ SatisfyDependencies(g, m.force, Taken(g))
         \/ ~checksFirst /\ noChecks /\ ~HasDependencies(g) /\ RunLocalJob(g, Taken(g))
  BY DEF HandleFirstSatisfy, Received
<1>2. /\ Calm(g) /\ Jobs(g) /\ Checks(g) /\ Stuck(g) /\ m \in Message
      /\ FALSE \notin ForceModes => m.force
  BY <1>1, HeadHas DEF ServiceInv, Own, Bonds
<1>3. m.force \in BOOLEAN /\ m.from \in Requesters
  BY <1>1, <1>2, MessageFields
<1>4. /\ checkers[g] = {} /\ probes[g] = {} /\ evidenceActors[g] = {}
      /\ ~Has(mailbox[g], Results)
      /\ ~HasAskedAll(g)
      /\ checkers[g] = 1..Cardinality(checkers[g])
  <2>1. checkers[g] = {} /\ probes[g] = {} /\ ~Has(mailbox[g], Results)
    BY <1>1, <1>2 DEF Checks
  <2>2. checkers[g] = 1..Cardinality(checkers[g])
    BY <2>1, FS_EmptySet
  <2>. QED  BY <1>1, <1>2, <2>1, <2>2 DEF Checks, HasAskedAll, Waits
<1>5. /\ force'[g] = m.force
      /\ listeners'[g] = listeners[g] \cup {m.from}
      /\ \A h \in Goals \ {g} : force'[h] = force[h] /\ listeners'[h] = listeners[h]
      /\ m.type \notin News
  BY <1>1, <1>3 DEF TypeOK, ProverTypeOK, News
<1>6. UNCHANGED <<incarnation, orphans, timers, retryUp, futures, finishing, asked>>
  BY <1>1 DEF othersUnchanged, retryVars, clientVars
<1>7. ASSUME NEW s \in GoalState, state' = [state EXCEPT ![g] = s],
             \A h \in Goals \ {g} : checkers'[h] = checkers[h]
      PROVE  state'[g] = s /\ Learns(g)
  BY <1>1, <1>5, <1>7 DEF Learns, TypeOK, ProverTypeOK
<1>8. CASE checksFirst /\ noJob
           /\ (CheckEvidence(g, Taken(g)) \/ CheckEvidenceFails(g, Taken(g)))
  <2>1. CheckEvidence(g, Taken(g))
    BY <1>2, <1>4, <1>8, ChecksStart DEF Checks, CheckEvidenceFails
  <2>2. /\ state' = [state EXCEPT ![g] = "CheckingEvidence"] /\ Quiet(Taken(g))
    BY <2>1 DEF CheckEvidence
  <2>3. /\ evidenceActors'[g] = checkers'[g]
        /\ checkers'[g] = 1..Cardinality(checkers'[g])
        /\ \A h \in Goals \ {g} :
             /\ checkers'[h] = checkers[h]
             /\ evidenceActors'[h] = evidenceActors[h] /\ probes'[h] = probes[h]
    BY <1>2, <1>4, <2>1, ChecksStart DEF Checks
  <2>4. state'[g] = "CheckingEvidence" /\ Learns(g)
    BY <1>7, <2>2, <2>3 DEF GoalState, Unfinished
  <2>5. ~HasAskedAll(g)' /\ ~Waits(g)'
    BY <1>5, <1>8, <2>4 DEF HasAskedAll, Waits, HasDependencies
  <2>6. GoesOn(g)
    BY <1>1, <1>4, <1>5, <1>8, <2>3, <2>4, <2>5, GoesOnFirst DEF Through, Unfinished
  <2>7. Minds(g)
    BY <1>2, <1>5, <1>6, <1>8, <2>3 DEF Minds, noJob
  <2>8. Quietly(g)
    BY <1>1, <2>2, <2>4 DEF Quietly, Unfinished
  <2>9. Effect(g)
    BY <1>1, <2>4, <2>6, <2>7, <2>8 DEF Effect
  <2>10. Jobs(g)'
    BY <1>1, <1>2, <1>8, <2>4, <2>9, JobKept
  <2>11. Checks(g)'
    BY <1>8, <2>3, <2>4, <2>5 DEF Checks, HasEvidence
  <2>. QED  BY <1>2, <2>9, <2>10, <2>11, CalmStays DEF Own
<1>9. CASE ~checksFirst /\ noChecks /\ HasDependencies(g)
           /\ SatisfyDependencies(g, m.force, Taken(g))
  <2>1. UNCHANGED <<jobRunner, runner, runnerBox, checkers, evidenceActors, probes>>
    BY <1>9 DEF SatisfyDependencies, noChecks
  <2>2. /\ Effect(g) /\ state'[g] \in {"WaitingOnDependencies", "Failed"}
    <3>1. CASE /\ g \notin BadWitness /\ Asking(g, m.force)
               /\ state' = [state EXCEPT ![g] = "WaitingOnDependencies"]
      <4>1. state'[g] = "WaitingOnDependencies" /\ Learns(g)
        BY <1>7, <2>1, <3>1 DEF GoalState, Unfinished
      <4>2. HasAskedAll(g)' /\ ~Through(g)' /\ Waits(g)'
        BY <1>9, <3>1, <4>1 DEF HasAskedAll, Waits, Through, HasDependencies
      <4>3. GoesOn(g)
        BY <1>1, <1>4, <1>9, <2>1, <3>1, <4>1, <4>2, GoesOnFirst DEF Unfinished
      <4>4. Minds(g)
        BY <1>2, <1>5, <1>6, <2>1 DEF Minds
      <4>5. Asks(g)
        BY <1>1, <1>2, <1>3, <1>4, <1>5, <3>1, <4>1, <4>2 DEF Asks, Unfinished
      <4>. QED  BY <1>1, <4>1, <4>3, <4>4, <4>5 DEF Effect
    <3>2. CASE g \in BadWitness /\ Unexpectedly(g, Taken(g))
      <4>0. state' = [state EXCEPT ![g] = "Failed"]
            /\ Publish(g, "GoalFailure", listeners'[g], Taken(g))
        BY <3>2 DEF Unexpectedly, MarkUnexpected
      <4>1. state'[g] = "Failed" /\ Learns(g)
        BY <1>7, <2>1, <4>0 DEF GoalState, Unsatisfied
      <4>2. ~HasAskedAll(g)' /\ ~Waits(g)'
        BY <3>2, <4>1 DEF HasAskedAll, Waits
      <4>3. GoesOn(g)
        BY <1>1, <1>4, <2>1, <4>1, <4>2, GoesOnFirst DEF Unfinished, Through
      <4>4. Minds(g)
        BY <1>2, <1>5, <1>6, <2>1 DEF Minds
      <4>5. Decides(g)
        BY <1>1, <4>0, <4>1 DEF Decides, Unfinished
      <4>. QED  BY <1>1, <4>1, <4>3, <4>4, <4>5 DEF Effect
    <3>. QED  BY <1>9, <3>1, <3>2 DEF SatisfyDependencies, Asking
  <2>3. Jobs(g)'
    BY <1>1, <1>2, <2>1, <2>2, JobKept DEF noJob
  <2>4. Checks(g)'
    BY <1>1, <1>2, <2>1, <2>2, ChecksKept DEF Checks
  <2>. QED  BY <1>2, <2>2, <2>3, <2>4, CalmStays DEF Own
<1>10. CASE ~checksFirst /\ noChecks /\ ~HasDependencies(g) /\ RunLocalJob(g, Taken(g))
  <2>1. /\ state' = [state EXCEPT ![g] = "Running"] /\ Quiet(Taken(g))
        /\ runner'[g] /\ runnerBox'[g] = <<"Satisfy">>
        /\ \A h \in Goals \ {g} : /\ jobRunner'[h] = jobRunner[h]
                                  /\ runner'[h] = runner[h]
                                  /\ runnerBox'[h] = runnerBox[h]
    BY <1>1, <1>2, <1>10, JobStarts
  <2>2. UNCHANGED <<checkers, evidenceActors, probes>>
    BY <1>10 DEF noChecks
  <2>3. state'[g] = "Running" /\ Learns(g)
    BY <1>7, <2>1, <2>2 DEF GoalState, Unfinished
  <2>4. ~HasAskedAll(g)' /\ ~Waits(g)'
    BY <1>10, <2>3 DEF HasAskedAll, Waits, HasDependencies
  <2>5. GoesOn(g)
    BY <1>1, <1>4, <1>10, <2>2, <2>3, <2>4, GoesOnFirst DEF Unfinished, Through
  <2>6. Minds(g)
    BY <1>2, <1>5, <1>6, <2>1, <2>2 DEF Minds
  <2>7. Quietly(g)
    BY <1>1, <2>1, <2>3 DEF Quietly, Unfinished
  <2>8. Effect(g)
    BY <1>1, <2>3, <2>5, <2>6, <2>7 DEF Effect
  <2>9. Jobs(g)'
    BY <1>1, <1>2, <2>1, <2>3, <2>8, JobStarted
  <2>10. Checks(g)'
    BY <1>1, <1>2, <2>2, <2>3, <2>8, ChecksKept DEF Checks
  <2>. QED  BY <1>2, <2>8, <2>9, <2>10, CalmStays DEF Own
<1>. QED  BY <1>1, <1>8, <1>9, <1>10

\* A later one is answered if the goal is at its end.
LEMMA LaterSatisfyKeeps ==
  ASSUME TypeOK, Undisturbed, ServiceInv, NEW g \in Goals, HandleLaterSatisfy(g)
  PROVE  Effect(g) /\ Own(g)'
<1>. DEFINE m == Head(mailbox[g])
<1>1. /\ mailbox[g] # <<>> /\ m.type = "Satisfy" /\ state[g] # "Unstarted"
      /\ listeners' = [listeners EXCEPT ![g] = listeners[g] \cup {m.from}]
      /\ UNCHANGED <<state, force, childStatus, incarnation>>
      /\ noChecks /\ noJob /\ othersUnchanged
      /\ \/ state[g] \in Satisfied /\ Publish(g, "GoalSuccess", {m.from}, Taken(g))
         \/ state[g] \in Unsatisfied /\ Publish(g, "GoalFailure", {m.from}, Taken(g))
         \/ state[g] \in Unfinished /\ Quiet(Taken(g))
  BY DEF HandleLaterSatisfy, Received
<1>2. /\ Calm(g) /\ Jobs(g) /\ Checks(g) /\ Stuck(g)
  BY DEF ServiceInv, Own, Bonds
<1>3. /\ UNCHANGED <<incarnation, orphans, timers, retryUp, futures, finishing, asked,
                    checkers, evidenceActors, probes, jobRunner, runner, runnerBox>>
  BY <1>1 DEF othersUnchanged, retryVars, clientVars, noChecks, noJob
<1>4. Learns(g)
  BY <1>1, <1>3 DEF Learns, TypeOK, ProverTypeOK, News
<1>5. GoesOn(g)
  BY <1>1, <1>2, <1>3, GoesOnSame
<1>6. Minds(g)
  BY <1>1, <1>2, <1>3 DEF Minds, Calm
<1>7. Quietly(g) \/ Answers(g)
  BY <1>1 DEF Quietly, Answers
<1>8. Effect(g)
  BY <1>1, <1>4, <1>5, <1>6, <1>7 DEF Effect
<1>9. Jobs(g)'
  BY <1>1, <1>2, <1>3, <1>8, JobKept DEF noJob
<1>10. Checks(g)'
  BY <1>1, <1>2, <1>3, <1>8, ChecksKept DEF Checks, Waits
<1>. QED  BY <1>2, <1>8, <1>9, <1>10, CalmStays DEF Own

\* A result of a checker the goal still holds lets it go on, or ends it.
LEMMA EvidenceCheckResultKeeps ==
  ASSUME TypeOK, Undisturbed, ServiceInv, NEW g \in Goals, HandleEvidenceCheckResult(g)
  PROVE  Effect(g) /\ Own(g)'
<1>. DEFINE m == Head(mailbox[g])
            known == m.id \in checkers[g]
            settles == known /\ state[g] = "CheckingEvidence"
                             /\ (m.exists => checkers[g] = {m.id})
<1>1. /\ mailbox[g] # <<>> /\ m.type = "EvidenceCheckResult"
      /\ checkers' = [checkers EXCEPT ![g] = checkers[g] \ {m.id}]
      /\ evidenceActors' = IF known
                           THEN [evidenceActors EXCEPT ![g] = evidenceActors[g] \ {m.id}]
                           ELSE evidenceActors
      /\ UNCHANGED <<force, listeners, childStatus, incarnation, probes>>
      /\ othersUnchanged
      /\ \/ ~settles /\ UNCHANGED state /\ Quiet(Taken(g)) /\ noJob
         \/ settles /\ ~force[g] /\ HasDependencies(g)
                    /\ SatisfyDependencies(g, FALSE, Taken(g))
         \/ settles /\ (force[g] \/ ~HasDependencies(g)) /\ RunLocalJob(g, Taken(g))
         \/ settles /\ g \notin BadWitness
                    /\ state' = [state EXCEPT ![g] = "AlreadySatisfied"]
                    /\ Publish(g, "GoalSuccess", listeners[g], Taken(g)) /\ noJob
         \/ settles /\ g \in BadWitness /\ Unexpectedly(g, Taken(g)) /\ noJob
  BY DEF HandleEvidenceCheckResult, Received
<1>2. /\ Calm(g) /\ Jobs(g) /\ Checks(g) /\ Stuck(g)
      /\ m \in Results /\ Has(mailbox[g], Results)
  BY <1>1, HeadHas, Kinds DEF ServiceInv, Own, Bonds
<1>3. HasEvidence(g) /\ state[g] # "Unstarted" /\ ~(force[g] /\ Waits(g))
  BY <1>2 DEF Checks
<1>4. /\ evidenceActors'[g] = checkers'[g] /\ checkers'[g] \subseteq checkers[g]
      /\ \A h \in Goals \ {g} : /\ checkers'[h] = checkers[h]
                                /\ evidenceActors'[h] = evidenceActors[h]
  BY <1>1, <1>2 DEF Checks, TypeOK, ProverTypeOK, CheckerTypeOK
<1>5. UNCHANGED <<incarnation, orphans, timers, retryUp, futures, finishing, asked,
                  force, listeners, childStatus, probes>>
  BY <1>1 DEF othersUnchanged, retryVars, clientVars
<1>6. m.type \notin News /\ m.type # "Satisfy"
      /\ m.type \notin {"JobRunSuccess", "JobRunFailed"}
  BY <1>1 DEF News
<1>7. ASSUME NEW s \in GoalState, state' = [state EXCEPT ![g] = s]
      PROVE  state'[g] = s /\ Learns(g)
  BY <1>4, <1>5, <1>6, <1>7 DEF Learns, TypeOK, ProverTypeOK
<1>8. ASSUME \A h \in Goals \ {g} : /\ jobRunner'[h] = jobRunner[h]
                                    /\ runner'[h] = runner[h]
                                    /\ runnerBox'[h] = runnerBox[h]
      PROVE  Minds(g)
  BY <1>2, <1>3, <1>4, <1>5, <1>8 DEF Minds, Calm
<1>9. ASSUME noJob
      PROVE  Minds(g)
  BY <1>8, <1>9 DEF noJob
<1>10. ASSUME Effect(g), Jobs(g)', state'[g] # "Unstarted",
              force[g] => state'[g] # "WaitingOnDependencies" \/ state'[g] = state[g],
              state'[g] = "DependencyFailed" => state[g] = state'[g]
       PROVE  Own(g)'
  <2>1. Checks(g)'
    BY <1>2, <1>3, <1>4, <1>5, <1>10, ChecksKept DEF Waits
  <2>. QED  BY <1>2, <1>10, <2>1, CalmStays DEF Own
<1>11. CASE ~settles /\ UNCHANGED state /\ Quiet(Taken(g)) /\ noJob
  <2>1. Learns(g) /\ GoesOn(g) /\ Minds(g) /\ Quietly(g)
    <3>1. Learns(g)
      BY <1>4, <1>5, <1>6, <1>11 DEF Learns
    <3>2. GoesOn(g)
      BY <1>2, <1>5, <1>11, GoesOnSame
    <3>. QED  BY <1>6, <1>9, <1>11, <3>1, <3>2 DEF Quietly
  <2>2. Effect(g)
    BY <1>1, <2>1 DEF Effect
  <2>3. Jobs(g)'
    BY <1>2, <1>6, <1>11, <2>2, JobKept
  <2>. QED  BY <1>3, <1>10, <1>11, <2>2, <2>3
<1>12. CASE settles /\ ~force[g] /\ HasDependencies(g)
              /\ SatisfyDependencies(g, FALSE, Taken(g))
  <2>0. /\ ~HasAskedAll(g) /\ state[g] \in Unfinished /\ noJob
    BY <1>12 DEF HasAskedAll, Waits, Unfinished, SatisfyDependencies, noJob
  <2>1. Effect(g) /\ state'[g] \in {"WaitingOnDependencies", "Failed"}
    <3>1. CASE /\ g \notin BadWitness /\ Asking(g, FALSE)
               /\ state' = [state EXCEPT ![g] = "WaitingOnDependencies"]
      <4>1. state'[g] = "WaitingOnDependencies" /\ Learns(g)
        BY <1>7, <3>1 DEF GoalState, Unfinished
      <4>2. HasAskedAll(g)' /\ ~Through(g)' /\ Waits(g)'
        BY <1>12, <3>1, <4>1 DEF HasAskedAll, Waits, Through, HasDependencies
      <4>3. GoesOn(g)
        BY <1>2, <1>12, <2>0, <3>1, <4>1, <4>2, GoesOnFirst
      <4>4. FALSE \in ForceModes
        BY <1>2, <1>3, <1>12 DEF Calm
      <4>5. Asks(g)
        BY <1>6, <2>0, <3>1, <4>1, <4>2, <4>4 DEF Asks, Unfinished
      <4>. QED  BY <1>1, <1>9, <2>0, <4>1, <4>3, <4>5 DEF Effect
    <3>2. CASE g \in BadWitness /\ Unexpectedly(g, Taken(g))
      <4>0. state' = [state EXCEPT ![g] = "Failed"]
            /\ Publish(g, "GoalFailure", listeners'[g], Taken(g))
        BY <3>2 DEF Unexpectedly, MarkUnexpected
      <4>1. state'[g] = "Failed" /\ Learns(g)
        BY <1>7, <4>0 DEF GoalState, Unsatisfied
      <4>2. ~HasAskedAll(g)' /\ ~Waits(g)'
        BY <3>2, <4>1 DEF HasAskedAll, Waits
      <4>3. GoesOn(g)
        BY <1>2, <2>0, <4>1, <4>2, GoesOnFirst DEF Through
      <4>5. Decides(g)
        BY <2>0, <4>0, <4>1 DEF Decides
      <4>. QED  BY <1>1, <1>9, <2>0, <4>1, <4>3, <4>5 DEF Effect
    <3>. QED  BY <1>12, <3>1, <3>2 DEF SatisfyDependencies, Asking
  <2>2. Jobs(g)'
    BY <1>2, <1>6, <1>12, <2>0, <2>1, JobKept
  <2>. QED  BY <1>10, <1>12, <2>1, <2>2
<1>13. CASE settles /\ (force[g] \/ ~HasDependencies(g)) /\ RunLocalJob(g, Taken(g))
  <2>1. /\ state' = [state EXCEPT ![g] = "Running"] /\ Quiet(Taken(g))
        /\ runner'[g] /\ runnerBox'[g] = <<"Satisfy">>
        /\ \A h \in Goals \ {g} : /\ jobRunner'[h] = jobRunner[h]
                                  /\ runner'[h] = runner[h]
                                  /\ runnerBox'[h] = runnerBox[h]
    BY <1>2, <1>13, JobStarts
  <2>2. state'[g] = "Running" /\ Learns(g)
    BY <1>7, <2>1 DEF GoalState, Unfinished
  <2>3. HasDependencies(g) => g \notin BadWitness
    BY <1>2, <1>13 DEF Stuck
  <2>4. HasAskedAll(g)' = HasAskedAll(g) /\ Through(g)' = Through(g) /\ ~Waits(g)'
    BY <1>13, <2>2, <2>3 DEF HasAskedAll, Through, Waits, HasDependencies
  <2>5. GoesOn(g)
    BY <1>2, <1>13, <2>2, <2>3, <2>4 DEF GoesOn, Unfinished
  <2>6. Quietly(g)
    BY <1>13, <2>1, <2>2 DEF Quietly, Unfinished
  <2>7. Effect(g)
    BY <1>1, <1>8, <2>1, <2>2, <2>5, <2>6 DEF Effect
  <2>8. Jobs(g)'
    BY <1>2, <1>13, <2>1, <2>2, <2>7, JobStarted
  <2>. QED  BY <1>10, <2>2, <2>7, <2>8
<1>14. ASSUME settles, noJob, NEW s \in {"AlreadySatisfied", "Failed"},
              state' = [state EXCEPT ![g] = s], s = "Failed" <=> g \in BadWitness,
              Publish(g, IF s = "Failed" THEN "GoalFailure" ELSE "GoalSuccess",
                      listeners'[g], Taken(g))
       PROVE  Effect(g) /\ Own(g)'
  <2>1. state'[g] = s /\ Learns(g)
    BY <1>7, <1>14 DEF GoalState, Satisfied, Unsatisfied
  <2>2. g \in BadWitness => ~HasAskedAll(g) /\ ~HasAskedAll(g)'
    BY DEF HasAskedAll
  <2>3. HasAskedAll(g)' = HasAskedAll(g) /\ Through(g)' = Through(g) /\ ~Waits(g)'
    BY <1>5, <1>14, <2>1, <2>2 DEF HasAskedAll, Through, Waits, HasDependencies
  <2>4. g \in BadWitness /\ HasDependencies(g) => state'[g] = "Failed"
    BY <1>14, <2>1
  <2>5. GoesOn(g)
    BY <1>2, <1>14, <2>1, <2>3, <2>4 DEF GoesOn, Unfinished
  <2>6. Decides(g)
    BY <1>14, <2>1 DEF Decides, Unfinished, Satisfied
  <2>7. Effect(g)
    BY <1>1, <1>9, <1>14, <2>1, <2>5, <2>6 DEF Effect
  <2>8. Jobs(g)'
    BY <1>2, <1>6, <1>14, <2>1, <2>7, JobKept
  <2>. QED  BY <1>10, <1>14, <2>1, <2>7, <2>8
<1>15. CASE settles /\ g \notin BadWitness
              /\ state' = [state EXCEPT ![g] = "AlreadySatisfied"]
              /\ Publish(g, "GoalSuccess", listeners[g], Taken(g)) /\ noJob
  BY <1>5, <1>14, <1>15
<1>16. CASE settles /\ g \in BadWitness /\ Unexpectedly(g, Taken(g)) /\ noJob
  BY <1>14, <1>16 DEF Unexpectedly, MarkUnexpected
<1>. QED  BY <1>1, <1>11, <1>12, <1>13, <1>15, <1>16

\* A dependency's failure is the goal's own.
LEMMA GoalFailureKeeps ==
  ASSUME TypeOK, Undisturbed, ServiceInv, NEW g \in Goals, HandleGoalFailure(g)
  PROVE  Effect(g) /\ Own(g)'
<1>. DEFINE m == Head(mailbox[g])
<1>1. /\ mailbox[g] # <<>> /\ m.type = "GoalFailure"
      /\ childStatus' = [childStatus EXCEPT ![g] = WithChild(g, m.status)]
      /\ state' = [state EXCEPT ![g] = "DependencyFailed"]
      /\ Publish(g, "GoalFailure", listeners[g], Taken(g))
      /\ UNCHANGED <<force, listeners, incarnation>>
      /\ noChecks /\ noJob /\ othersUnchanged
  BY DEF HandleGoalFailure, Received
<1>2. /\ Calm(g) /\ Jobs(g) /\ Checks(g) /\ Stuck(g)
  BY DEF ServiceInv, Own, Bonds
<1>3. PICK d \in Goals : m.status = <<d, 0>>
  BY <1>1, <1>2, HeadHas DEF News
<1>4. HasAskedAll(g) /\ Waits(g)
  BY <1>1, <1>3, NewsContext DEF News
<1>5. UNCHANGED <<incarnation, orphans, timers, retryUp, futures, finishing, asked, force,
                  listeners, checkers, evidenceActors, probes, jobRunner, runner, runnerBox>>
  BY <1>1 DEF othersUnchanged, retryVars, clientVars, noChecks, noJob
<1>6. state'[g] = "DependencyFailed" /\ Learns(g)
  <2>1. WithChild(g, m.status) = childStatus[g] \cup {m.status}
    BY <1>2, <1>3, WithChildIs
  <2>. QED  BY <1>1, <1>5, <2>1 DEF Learns, TypeOK, ProverTypeOK, News
<1>7. HasAskedAll(g)' /\ Waits(g)' /\ ~Through(g) /\ ~Through(g)'
      /\ HasDependencies(g) /\ g \notin BadWitness
  BY <1>4, <1>6 DEF HasAskedAll, Through, Waits, HasDependencies
<1>8. GoesOn(g)
  BY <1>1, <1>4, <1>5, <1>6, <1>7 DEF GoesOn, Waits, Unfinished
<1>9. Minds(g)
  BY <1>2, <1>4, <1>5 DEF Minds, Calm, Waits
<1>10. Decides(g)
  BY <1>1, <1>4, <1>5, <1>6 DEF Decides, Waits, Unfinished
<1>11. Effect(g)
  BY <1>1, <1>6, <1>8, <1>9, <1>10 DEF Effect
<1>12. Jobs(g)'
  BY <1>1, <1>2, <1>4, <1>5, <1>6, <1>11, JobKept DEF noJob, Waits
<1>13. Checks(g)'
  BY <1>2, <1>4, <1>5, <1>6, <1>11, ChecksKept DEF Checks, Waits
<1>. QED  BY <1>2, <1>11, <1>12, <1>13, CalmStays DEF Own

\* The last success lets it go on.
LEMMA GoalSuccessKeeps ==
  ASSUME TypeOK, Undisturbed, ServiceInv, NEW g \in Goals, Received(g, "GoalSuccess")
  PROVE  /\ HandleGoalSuccess(g) => Effect(g) /\ Own(g)'
         /\ ~HandleGoalSuccessThrows(g)
<1>. DEFINE m == Head(mailbox[g])
            checksFirst == force[g] /\ HasEvidence(g)
<1>1. mailbox[g] # <<>> /\ m.type = "GoalSuccess"
  BY DEF Received
<1>2. /\ Calm(g) /\ Jobs(g) /\ Checks(g) /\ Stuck(g) /\ m \in Message
  BY <1>1, HeadHas DEF ServiceInv, Own, Bonds
<1>3. PICK d \in Goals : m.status = <<d, 0>>
  BY <1>1, <1>2, HeadHas DEF News
<1>4. /\ HasAskedAll(g) /\ d \in Children(g)
      /\ ~Waits(g) => /\ g \in Queried /\ force[g]
                      /\ \/ state[g] = "CheckingEvidence"
                         \/ state[g] = "Running" /\ ~HasEvidence(g)
  BY <1>1, <1>3, NewsContext DEF News
<1>5. HasDependencies(g) /\ g \notin BadWitness /\ state[g] # "Unstarted"
  BY <1>4 DEF HasAskedAll, Waits
<1>6. checksFirst => checkers[g] = 1..Cardinality(checkers[g])
  <2>1. CASE force[g] /\ Waits(g)
    <3>1. checkers[g] = {}
      BY <1>2, <2>1 DEF Checks
    <3>. QED  BY <3>1, FS_EmptySet
  <2>2. CASE g \in Queried
    <3>1. m \in AnyNews
      <4>1. m.type \in News /\ m.status[2] = 0
        BY <1>1, <1>3 DEF News
      <4>. QED  BY <1>2, <4>1, Kinds
    <3>2. Has(mailbox[g], AnyNews)
      BY <1>1, <1>2, <3>1, HeadHas
    <3>. QED  BY <2>2, <3>2 DEF ServiceInv, Bonds, Ordered
  <2>. QED  BY <1>4, <2>1, <2>2
<1>7. ~HandleGoalSuccessThrows(g)
  BY <1>2, <1>6, ChecksStart DEF HandleGoalSuccessThrows, Checks
<1>8. ASSUME HandleGoalSuccess(g)
      PROVE  Effect(g) /\ Own(g)'
  <2>1. /\ childStatus' = [childStatus EXCEPT ![g] = WithChild(g, m.status)]
        /\ UNCHANGED <<force, listeners, incarnation>> /\ othersUnchanged
        /\ \/ UNCHANGED state /\ Quiet(Taken(g)) /\ noChecks /\ noJob
           \/ ReadyToProceed(g, m.status) /\ checksFirst /\ CheckEvidence(g, Taken(g)) /\ noJob
           \/ ReadyToProceed(g, m.status) /\ ~checksFirst /\ RunLocalJob(g, Taken(g)) /\ noChecks
    BY <1>8 DEF HandleGoalSuccess
  <2>2. UNCHANGED <<incarnation, orphans, timers, retryUp, futures, finishing, asked, force,
                    listeners>>
    BY <2>1 DEF othersUnchanged, retryVars, clientVars
  <2>3. childStatus' = [childStatus EXCEPT ![g] = childStatus[g] \cup {<<d, 0>>}]
        /\ Heard(g, d)'
    <3>1. WithChild(g, m.status) = childStatus[g] \cup {<<d, 0>>}
      BY <1>2, <1>3, WithChildIs
    <3>. QED  BY <2>1, <3>1 DEF TypeOK, ProverTypeOK, Heard
  <2>4. ASSUME \A h \in Goals \ {g} : state'[h] = state[h] /\ checkers'[h] = checkers[h]
        PROVE  Learns(g)
    BY <1>1, <1>3, <2>2, <2>3, <2>4 DEF Learns, TypeOK, ProverTypeOK, News
  <2>5. ASSUME \A h \in Goals \ {g} :
                 /\ jobRunner'[h] = jobRunner[h] /\ runner'[h] = runner[h]
                 /\ runnerBox'[h] = runnerBox[h]
                 /\ evidenceActors'[h] = evidenceActors[h] /\ probes'[h] = probes[h]
        PROVE  Minds(g)
    BY <1>2, <1>5, <2>2, <2>5 DEF Minds, Calm
  <2>6. CASE UNCHANGED state /\ Quiet(Taken(g)) /\ noChecks /\ noJob
    <3>1. UNCHANGED <<state, checkers, evidenceActors, probes, jobRunner, runner, runnerBox>>
      BY <2>6 DEF noChecks, noJob
    <3>2. Effect(g)
      <4>1. GoesOn(g)
        BY <1>2, <2>2, <3>1, GoesOnSame
      <4>2. Quietly(g)
        BY <1>1, <2>6 DEF Quietly
      <4>. QED  BY <1>1, <2>4, <2>5, <3>1, <4>1, <4>2 DEF Effect
    <3>3. Jobs(g)'
      BY <1>1, <1>2, <3>1, <3>2, JobKept DEF noJob
    <3>4. Checks(g)'
      BY <1>2, <2>2, <3>1, <3>2, ChecksKept DEF Checks, Waits
    <3>. QED  BY <1>2, <3>2, <3>3, <3>4, CalmStays DEF Own
  \* It goes on: from waiting, or a second time where a page's query told it first.
  <2>7. ASSUME ReadyToProceed(g, m.status)
        PROVE  /\ Waits(g) => /\ state[g] = "WaitingOnDependencies" /\ Distinct(g)
                              /\ \A x \in Children(g) : state[x] \in Satisfied /\ Heard(g, x)'
               /\ state[g] \in Unfinished
    <3>1. ReadyToProceed(g, <<d, 0>>)
      BY <1>3, <2>7
    <3>2. /\ \A x \in Goals : Heard(g, x) => state[x] \in Satisfied
          /\ ~HidesDependencies(g) =>
               /\ Distinct(g)
               /\ \A x \in Children(g) : state[x] \in Satisfied /\ (Heard(g, x) \/ x = d)
      BY <1>4, <3>1, ReadyMeansAll
    <3>3. state[g] # "DependencyFailed"
      <4>1. Children(g) \subseteq Goals /\ Satisfied \cap Unsatisfied = {}
        BY DependenciesType DEF Children, Satisfied, Unsatisfied
      <4>. QED  BY <1>2, <3>2, <4>1 DEF Stuck
    <3>4. Waits(g) => state[g] = "WaitingOnDependencies" /\ ~HidesDependencies(g)
      BY <3>3 DEF Waits, HidesDependencies
    <3>5. \A x \in Goals : Heard(g, x) => Heard(g, x)'
      BY <2>3 DEF Heard, TypeOK, ProverTypeOK
    <3>6. Children(g) \subseteq Goals
      BY DependenciesType DEF Children
    <3>. QED  BY <1>4, <2>3, <3>2, <3>4, <3>5, <3>6 DEF Unfinished
  <2>8. CASE ReadyToProceed(g, m.status) /\ checksFirst /\ CheckEvidence(g, Taken(g)) /\ noJob
    <3>1. /\ state' = [state EXCEPT ![g] = "CheckingEvidence"] /\ Quiet(Taken(g))
      BY <2>8 DEF CheckEvidence
    <3>2. /\ evidenceActors'[g] = checkers'[g]
          /\ checkers'[g] = 1..Cardinality(checkers'[g])
          /\ \A h \in Goals \ {g} :
               /\ checkers'[h] = checkers[h]
               /\ evidenceActors'[h] = evidenceActors[h] /\ probes'[h] = probes[h]
      BY <1>2, <1>6, <2>8, ChecksStart DEF Checks
    <3>3. /\ state'[g] = "CheckingEvidence"
          /\ \A h \in Goals \ {g} : state'[h] = state[h]
      BY <3>1 DEF TypeOK, ProverTypeOK
    <3>4. state[g] # "Running" /\ force'[g]
      BY <1>4, <2>2, <2>8 DEF Waits
    <3>5. HasAskedAll(g)' /\ Through(g)' /\ ~Waits(g)'
      BY <1>5, <3>3, <3>4 DEF HasAskedAll, Through, Waits, HasDependencies
    <3>6. g \in Queried => ~NewsOver(g)'
      BY <3>3 DEF NewsOver
    <3>7. ~Through(g) => Waits(g)
      BY <1>4 DEF Through
    <3>8. GoesOn(g)
      BY <1>4, <1>5, <2>7, <2>8, <3>2, <3>3, <3>5, <3>6, <3>7 DEF GoesOn
    <3>9. Quietly(g)
      BY <2>7, <2>8, <3>1, <3>3 DEF Quietly, Unfinished
    <3>10. Effect(g)
      BY <1>1, <2>4, <2>5, <2>8, <3>2, <3>3, <3>8, <3>9 DEF Effect, noJob
    <3>11. Jobs(g)'
      BY <1>1, <1>2, <2>8, <3>3, <3>4, <3>10, JobKept
    <3>12. Checks(g)'
      BY <2>8, <3>2, <3>3, <3>5 DEF Checks, HasEvidence
    <3>. QED  BY <1>2, <3>10, <3>11, <3>12, CalmStays DEF Own
  <2>9. CASE /\ ReadyToProceed(g, m.status) /\ ~checksFirst
             /\ RunLocalJob(g, Taken(g)) /\ noChecks
    <3>0. UNCHANGED <<checkers, evidenceActors, probes>>
      BY <2>9 DEF noChecks
    <3>1. CASE state[g] = "Running"
      <4>1. UNCHANGED <<state, jobRunner, runner, runnerBox>> /\ Quiet(Taken(g))
        BY <2>9, <3>1 DEF RunLocalJob
      <4>. QED  BY <2>6, <3>0, <4>1 DEF noJob, noChecks
    <3>2. CASE state[g] # "Running"
      <4>1. Waits(g) /\ state[g] = "WaitingOnDependencies"
        BY <1>2, <1>4, <2>7, <2>9, <3>2 DEF Checks
      <4>2. /\ state' = [state EXCEPT ![g] = "Running"] /\ Quiet(Taken(g))
            /\ runner'[g] /\ runnerBox'[g] = <<"Satisfy">>
            /\ \A h \in Goals \ {g} : /\ jobRunner'[h] = jobRunner[h]
                                      /\ runner'[h] = runner[h]
                                      /\ runnerBox'[h] = runnerBox[h]
        BY <1>2, <2>9, <4>1, JobStarts
      <4>3. /\ state'[g] = "Running" /\ \A h \in Goals \ {g} : state'[h] = state[h]
        BY <4>2 DEF TypeOK, ProverTypeOK
      <4>4. HasAskedAll(g)' /\ Through(g)' /\ ~Waits(g)' /\ ~Through(g)
        BY <1>5, <4>1, <4>3 DEF HasAskedAll, Through, Waits, HasDependencies
      <4>5. g \in Queried => ~NewsOver(g)'
        <5>1. g \in Queried => ~HasEvidence(g)
          BY <1>2, <1>5, <2>9 DEF Undisturbed, Calm
        <5>. QED  BY <4>3, <5>1 DEF NewsOver, HasEvidence
      <4>6. GoesOn(g)
        BY <1>5, <2>7, <2>9, <3>0, <4>1, <4>3, <4>4, <4>5 DEF GoesOn, Unfinished
      <4>7. Quietly(g)
        BY <4>1, <4>2, <4>3 DEF Quietly, Unfinished
      <4>8. Effect(g)
        BY <1>1, <2>4, <2>5, <3>0, <4>2, <4>3, <4>6, <4>7 DEF Effect
      <4>9. Jobs(g)'
        BY <1>2, <4>1, <4>2, <4>3, <4>8, JobStarted
      <4>10. Checks(g)'
        BY <1>2, <3>0, <4>3, <4>4, <4>8, ChecksKept DEF Checks
      <4>. QED  BY <1>2, <4>8, <4>9, <4>10, CalmStays DEF Own
    <3>. QED  BY <3>1, <3>2
  <2>. QED  BY <2>1, <2>6, <2>8, <2>9
<1>. QED  BY <1>7, <1>8

\* The report of the job ends the goal.
LEMMA JobReportKeeps ==
  ASSUME TypeOK, Undisturbed, ServiceInv, NEW g \in Goals,
         HandleJobRunSuccess(g) \/ HandleJobRunFailed(g)
  PROVE  Effect(g) /\ Own(g)'
<1>. DEFINE m == Head(mailbox[g])
<1>1. /\ mailbox[g] # <<>> /\ m.type \in {"JobRunSuccess", "JobRunFailed"}
      /\ UNCHANGED <<force, listeners, childStatus, incarnation, runner, runnerBox>>
      /\ \A h \in Goals \ {g} : jobRunner'[h] = jobRunner[h]
      /\ noChecks /\ othersUnchanged
  BY DEF HandleJobRunSuccess, HandleJobRunFailed, Received, noJob, TypeOK, ProverTypeOK
<1>2. /\ Calm(g) /\ Jobs(g) /\ Checks(g) /\ Stuck(g)
      /\ m \in JobReports /\ Has(mailbox[g], JobReports)
  BY <1>1, HeadHas, Kinds DEF ServiceInv, Own, Bonds
<1>3. state[g] = "Running"
  BY <1>2 DEF Jobs, JobIn
<1>4. UNCHANGED <<incarnation, orphans, timers, retryUp, futures, finishing, asked, force,
                  listeners, childStatus, checkers, evidenceActors, probes, runner, runnerBox>>
  BY <1>1 DEF othersUnchanged, retryVars, clientVars, noChecks
<1>5. \/ /\ state' = [state EXCEPT ![g] = "Success"]
         /\ Publish(g, "GoalSuccess", listeners[g], Taken(g))
      \/ /\ state' = [state EXCEPT ![g] = "Failed"]
         /\ Publish(g, "GoalFailure", listeners[g], Taken(g))
  BY DEF HandleJobRunSuccess, HandleJobRunFailed, MarkExecution
<1>6. state'[g] \in {"Success", "Failed"} /\ \A h \in Goals \ {g} : state'[h] = state[h]
  BY <1>5 DEF TypeOK, ProverTypeOK
<1>7. Learns(g)
  BY <1>1, <1>4, <1>6 DEF Learns, News
<1>8. /\ HasAskedAll(g)' = HasAskedAll(g) /\ Through(g)' = Through(g) /\ ~Waits(g)'
      /\ ~(g \in BadWitness /\ HasDependencies(g))
  BY <1>2, <1>3, <1>6 DEF HasAskedAll, Through, Waits, Stuck, HasDependencies
<1>9. GoesOn(g)
  BY <1>2, <1>3, <1>4, <1>6, <1>8 DEF GoesOn, Unfinished
<1>10. Minds(g)
  BY <1>1, <1>2, <1>3, <1>4 DEF Minds, Calm
<1>11. Decides(g)
  BY <1>3, <1>4, <1>5 DEF Decides, Unfinished, Satisfied, TypeOK, ProverTypeOK
<1>12. Effect(g)
  BY <1>1, <1>7, <1>9, <1>10, <1>11 DEF Effect
<1>13. Jobs(g)'
  BY <1>1, <1>2, <1>6, <1>12, JobEnds
<1>14. Checks(g)'
  BY <1>2, <1>4, <1>6, <1>8, <1>12, ChecksKept DEF Checks
<1>. QED  BY <1>2, <1>12, <1>13, <1>14, CalmStays DEF Own

\* What the prover does not match is dropped.
LEMMA UnexpectedKeeps ==
  ASSUME TypeOK, Undisturbed, ServiceInv, NEW g \in Goals, HandleUnexpected(g)
  PROVE  Effect(g) /\ Own(g)'
<1>. DEFINE m == Head(mailbox[g])
<1>1. /\ mailbox[g] # <<>> /\ m.type = "Unexpected" /\ Quiet(Taken(g))
      /\ UNCHANGED <<state, force, listeners, childStatus, checkers, jobRunner, incarnation>>
      /\ UNCHANGED <<evidenceActors, probes, runner, runnerBox, futures, finishing, orphans,
                     retryUp, timers, asked>>
  BY DEF HandleUnexpected, Received, proverVars, checkerVars, runnerVars, retryVars, clientVars
<1>2. /\ Calm(g) /\ Jobs(g) /\ Checks(g) /\ Stuck(g)
  BY DEF ServiceInv, Own, Bonds
<1>3. Learns(g) /\ GoesOn(g) /\ Quietly(g)
  <2>1. GoesOn(g)
    BY <1>1, <1>2, GoesOnSame
  <2>. QED  BY <1>1, <2>1 DEF Learns, Quietly, News
<1>4. Minds(g)
  BY <1>1, <1>2 DEF Minds, Calm
<1>5. Effect(g)
  BY <1>1, <1>3, <1>4 DEF Effect
<1>6. Jobs(g)'
  BY <1>1, <1>2, <1>5, JobKept DEF noJob
<1>7. Checks(g)'
  BY <1>1, <1>2, <1>5, ChecksKept DEF Checks, Waits
<1>. QED  BY <1>2, <1>5, <1>6, <1>7, CalmStays DEF Own

\* So every message is handled in one of these ways, and none throws.
LEMMA ProverKeeps ==
  ASSUME TypeOK, TypeOK', Undisturbed, ServiceInv, NEW g \in Goals, ProverReceive(g)
  PROVE  Effect(g) /\ ServiceInv'
<1>1. mailbox[g] # <<>>
  BY ProverHeeds
<1>2. Calm(g)
  BY DEF ServiceInv, Own
<1>3. Head(mailbox[g]).type \notin {"Abort", "RestartJob"}
  BY <1>1, <1>2, HeadHas
<1>4. Effect(g) /\ Own(g)'
  <2>1. CASE HandleFirstSatisfy(g)
    BY <2>1, FirstSatisfyKeeps
  <2>2. CASE HandleLaterSatisfy(g)
    BY <2>2, LaterSatisfyKeeps
  <2>3. CASE HandleEvidenceCheckResult(g)
    BY <2>3, EvidenceCheckResultKeeps
  <2>4. CASE HandleGoalFailure(g)
    BY <2>4, GoalFailureKeeps
  <2>5. CASE HandleGoalSuccess(g) \/ HandleGoalSuccessThrows(g)
    <3>1. Received(g, "GoalSuccess")
      BY <2>5 DEF HandleGoalSuccess, HandleGoalSuccessThrows
    <3>. QED  BY <2>5, <3>1, GoalSuccessKeeps
  <2>6. CASE HandleJobRunSuccess(g) \/ HandleJobRunFailed(g)
    BY <2>6, JobReportKeeps
  <2>7. CASE HandleUnexpected(g)
    BY <2>7, UnexpectedKeeps
  <2>8. ~HandleRestartJob(g) /\ ~HandleAbort(g) /\ ~HandleAbortThrows(g)
    BY <1>3 DEF HandleRestartJob, HandleAbort, HandleAbortThrows, Received
  <2>. QED  BY <2>1, <2>2, <2>3, <2>4, <2>5, <2>6, <2>7, <2>8 DEF ProverReceive
<1>5. \A h \in Goals : Own(h)'
  BY <1>2, <1>4, OthersStay DEF ServiceInv
<1>. QED  BY <1>4, <1>5, BondsStay, ClientToldStays DEF ServiceInv
-----------------------------------------------------------------------------
(* What the other actors and the clients send.                               *)
Sent(g, m) == mailbox' = [mailbox EXCEPT ![g] = Append(@, m)]

LEMMA SentBox ==
  ASSUME TypeOK, NEW g \in Goals, NEW m \in Message, Sent(g, m),
         NEW x \in Goals, NEW M, NEW N
  PROVE  /\ Has(mailbox'[x], M) <=> Has(mailbox[x], M) \/ (x = g /\ m \in M)
         /\ One(mailbox[x], M) /\ (x = g /\ m \in M => ~Has(mailbox[x], M))
              => One(mailbox'[x], M)
         /\ Precede(mailbox[x], M, N) /\ ~(x = g /\ m \in M)
              => Precede(mailbox'[x], M, N)
<1>. DEFINE n == IF x = g THEN 1 ELSE 0
<1>1. mailbox[x] \in Seq(Message)
  BY DEF TypeOK, BoxTypeOK
<1>2. Follows(mailbox'[x], mailbox[x], m, n)
  <2>1. mailbox'[x] = IF x = g THEN Append(mailbox[x], m) ELSE mailbox[x]
    BY DEF Sent, TypeOK, BoxTypeOK
  <2>2. [i \in 1..0 |-> m] = <<>> /\ [i \in 1..1 |-> m] = <<m>>
    OBVIOUS
  <2>3. mailbox[x] \o <<>> = mailbox[x] /\ mailbox[x] \o <<m>> = Append(mailbox[x], m)
    BY <1>1
  <2>. QED  BY <2>1, <2>2, <2>3 DEF Follows
<1>3. n \in Nat /\ (n > 0 <=> x = g) /\ (n = 0 <=> x # g) /\ (n = 1 <=> x = g)
  OBVIOUS
<1>. HIDE DEF n
<1>4. /\ Has(mailbox'[x], M) <=> Has(mailbox[x], M) \/ (n > 0 /\ m \in M)
      /\ One(mailbox[x], M) /\ (n = 0 \/ m \notin M \/ (~Has(mailbox[x], M) /\ n = 1))
           => One(mailbox'[x], M)
      /\ /\ Precede(mailbox[x], M, N)
         /\ n = 0 \/ m \notin M \/ (~Has(mailbox[x], N) /\ m \notin N)
         => Precede(mailbox'[x], M, N)
  BY <1>1, <1>2, <1>3, FollowsHas
<1>. QED  BY <1>3, <1>4

\* Nothing that the goals say to each other is new, nor anything unwelcome.
NoNewTalk ==
  \A x \in Goals :
    /\ \A r \in Goals : /\ Has(mailbox'[x], From(r)) => Has(mailbox[x], From(r))
                        /\ One(mailbox[x], From(r)) => One(mailbox'[x], From(r))
    /\ \A d \in Goals, ts \in {News, {"GoalSuccess"}, {"GoalFailure"}} :
         /\ Has(mailbox'[x], About(d, ts)) => Has(mailbox[x], About(d, ts))
         /\ One(mailbox[x], About(d, ts)) => One(mailbox'[x], About(d, ts))
    /\ Has(mailbox'[x], AnyNews) => Has(mailbox[x], AnyNews)
    /\ Precede(mailbox[x], AnyNews, Results \cup JobReports) =>
         Precede(mailbox'[x], AnyNews, Results \cup JobReports)
    /\ Has(mailbox'[x], Unwelcome) => Has(mailbox[x], Unwelcome)

\* Results, reports, what no prover matches and a client's request are not talk.
LEMMA SentIsNoTalk ==
  ASSUME TypeOK, NEW g \in Goals, NEW m \in Message, Sent(g, m), m \notin Unwelcome,
         m.type \notin News, \A r \in Goals : m \notin From(r)
  PROVE  NoNewTalk
<1>1. m \notin AnyNews /\ \A d, ts : m \notin About(d, ts)
  BY Kinds
<1>. SUFFICES ASSUME NEW x \in Goals
              PROVE  /\ \A r \in Goals : /\ Has(mailbox'[x], From(r)) => Has(mailbox[x], From(r))
                                         /\ One(mailbox[x], From(r)) => One(mailbox'[x], From(r))
                     /\ \A d \in Goals, ts \in {News, {"GoalSuccess"}, {"GoalFailure"}} :
                          /\ Has(mailbox'[x], About(d, ts)) => Has(mailbox[x], About(d, ts))
                          /\ One(mailbox[x], About(d, ts)) => One(mailbox'[x], About(d, ts))
                     /\ Has(mailbox'[x], AnyNews) => Has(mailbox[x], AnyNews)
                     /\ Precede(mailbox[x], AnyNews, Results \cup JobReports) =>
                          Precede(mailbox'[x], AnyNews, Results \cup JobReports)
                     /\ Has(mailbox'[x], Unwelcome) => Has(mailbox[x], Unwelcome)
  BY DEF NoNewTalk
<1>2. ASSUME NEW M, m \notin M
      PROVE  /\ Has(mailbox'[x], M) => Has(mailbox[x], M)
             /\ One(mailbox[x], M) => One(mailbox'[x], M)
             /\ \A N : Precede(mailbox[x], M, N) => Precede(mailbox'[x], M, N)
  BY <1>2, SentBox
<1>. QED  BY <1>1, <1>2

\* So the bonds hold on while no prover does anything.
LEMMA BondsSpared ==
  ASSUME Bonds, NoNewTalk, UNCHANGED <<state, force, listeners, childStatus, checkers>>
  PROVE  Bonds'
<1>1. ASSUME NEW g \in Goals, NEW d \in Goals
      PROVE  Silent(g, d)' /\ NewsTrue(g, d)' /\ Once(g, d)'
  <2>1. /\ HasAskedAll(g)' = HasAskedAll(g) /\ Heard(g, d)' = Heard(g, d)
        /\ state'[d] = state[d] /\ listeners'[d] = listeners[d]
    BY DEF HasAskedAll, Waits, Heard
  <2>2. Silent(g, d) /\ NewsTrue(g, d) /\ Once(g, d)
    BY DEF Bonds
  <2>3. Silent(g, d)'
    BY <2>1, <2>2 DEF Silent, NoNewTalk
  <2>4. NewsTrue(g, d)'
    BY <2>1, <2>2 DEF NewsTrue, NoNewTalk
  <2>5. Once(g, d)'
    BY <2>1, <2>2 DEF Once, NoNewTalk, Distinct
  <2>. QED  BY <2>3, <2>4, <2>5
<1>2. ASSUME NEW g \in Goals
      PROVE  Passed(g)' /\ Ordered(g)' /\ Stuck(g)'
  <2>1. /\ Through(g)' = Through(g) /\ NewsOver(g)' = NewsOver(g)
        /\ Waits(g)' = Waits(g) /\ \A d \in Goals : Heard(g, d)' = Heard(g, d)
    BY DEF Through, HasAskedAll, Waits, Heard, NewsOver
  <2>2. Passed(g) /\ Ordered(g) /\ Stuck(g)
    BY DEF Bonds
  <2>3. \A d \in Children(g) : d \in Goals
    BY DependenciesType DEF Children
  <2>4. Passed(g)'
    BY <2>1, <2>2, <2>3 DEF Passed, NoNewTalk, Distinct
  <2>5. Ordered(g)'
    BY <2>1, <2>2 DEF Ordered, NoNewTalk
  <2>6. Stuck(g)'
    BY <2>1, <2>2, <2>3 DEF Stuck
  <2>. QED  BY <2>4, <2>5, <2>6
<1>. QED  BY <1>1, <1>2 DEF Bonds

\* And so does what a goal is alone, for its actors do nothing either.
Spared(h) ==
  /\ jobRunner'[h] = jobRunner[h] /\ runner'[h] = runner[h]
  /\ runnerBox'[h] = runnerBox[h] /\ futures'[h] = futures[h]
  /\ finishing'[h] = finishing[h]
  /\ Has(mailbox'[h], JobReports) = Has(mailbox[h], JobReports)
  /\ One(mailbox[h], JobReports) => One(mailbox'[h], JobReports)

LEMMA CalmSpared ==
  ASSUME NoNewTalk, NEW h \in Goals, Calm(h), orphans'[h] = orphans[h],
         UNCHANGED <<state, force, listeners, childStatus, incarnation, timers, retryUp>>
  PROVE  Calm(h)'
  BY DEF Calm, NoNewTalk, Unwelcome

LEMMA JobsSpared ==
  ASSUME NEW h \in Goals, Jobs(h), Spared(h), UNCHANGED state
  PROVE  Jobs(h)'
  BY DEF Jobs, JobIn, Spared

LEMMA ChecksSpared ==
  ASSUME NEW h \in Goals, Checks(h), UNCHANGED <<state, force, checkers, evidenceActors>>,
         probes'[h] # {} \/ Has(mailbox'[h], Results) =>
           checkers[h] # {} \/ probes[h] # {} \/ Has(mailbox[h], Results)
  PROVE  Checks(h)'
  BY DEF Checks, Waits

LEMMA ClientToldSpared ==
  ASSUME NEW c \in Clients, ClientTold(c), UNCHANGED <<state, listeners, reply, asked>>,
         \A g \in Goals : Has(mailbox'[g], From(c)) => Has(mailbox[g], From(c))
  PROVE  ClientTold(c)'
  BY DEF ClientTold
-----------------------------------------------------------------------------
(* Each of those steps.                                                      *)

\* While the mailboxes stay as they are.
LEMMA NothingSent ==
  ASSUME UNCHANGED mailbox
  PROVE  /\ NoNewTalk
         /\ \A x \in Goals : \A M : Has(mailbox'[x], M) = Has(mailbox[x], M)
         /\ \A x \in Goals : \A M : One(mailbox[x], M) => One(mailbox'[x], M)
<1>1. \A x \in Goals : mailbox'[x] = mailbox[x]
  OBVIOUS
<1>. QED  BY <1>1 DEF NoNewTalk

\* A job report, a check's result, and what no prover matches.
LEMMA ActorSends ==
  ASSUME TypeOK, NEW g \in Goals, NEW m \in Message, Sent(g, m),
         m.type \in {"EvidenceCheckResult", "JobRunSuccess", "JobRunFailed", "Unexpected"}
  PROVE  /\ NoNewTalk
         /\ \A x \in Goals, c \in Clients :
              Has(mailbox'[x], From(c)) => Has(mailbox[x], From(c))
         /\ \A x \in Goals : Has(mailbox'[x], Results) =>
              Has(mailbox[x], Results) \/ (x = g /\ m.type = "EvidenceCheckResult")
         /\ m.type \in {"EvidenceCheckResult", "Unexpected"} =>
              \A x \in Goals :
                /\ Has(mailbox'[x], JobReports) = Has(mailbox[x], JobReports)
                /\ One(mailbox[x], JobReports) => One(mailbox'[x], JobReports)
         /\ m.type \in {"JobRunSuccess", "JobRunFailed"} =>
              /\ Has(mailbox'[g], JobReports) = TRUE
              /\ ~Has(mailbox[g], JobReports) => One(mailbox'[g], JobReports)
              /\ \A x \in Goals \ {g} :
                   /\ Has(mailbox'[x], JobReports) = Has(mailbox[x], JobReports)
                   /\ One(mailbox[x], JobReports) => One(mailbox'[x], JobReports)
<1>1. /\ m \notin Unwelcome /\ m.type \notin News /\ \A r : m \notin From(r)
      /\ m \in Results <=> m.type = "EvidenceCheckResult"
      /\ m \in JobReports <=> m.type \in {"JobRunSuccess", "JobRunFailed"}
  BY Kinds DEF Unwelcome, News
<1>2. NoNewTalk
  BY <1>1, SentIsNoTalk
<1>3. ASSUME NEW x \in Goals, NEW M
      PROVE  /\ Has(mailbox'[x], M) <=> Has(mailbox[x], M) \/ (x = g /\ m \in M)
             /\ One(mailbox[x], M) /\ (x = g /\ m \in M => ~Has(mailbox[x], M))
                  => One(mailbox'[x], M)
  BY SentBox
<1>4. \A x \in Goals : /\ Has(mailbox'[x], JobReports) \in BOOLEAN
                       /\ Has(mailbox[x], JobReports) \in BOOLEAN
  BY DEF Has
<1>5. ~Has(mailbox[g], JobReports) => One(mailbox[g], JobReports)
  BY DEF Has, One
<1>6. \A x \in Goals, c \in Clients : Has(mailbox'[x], From(c)) => Has(mailbox[x], From(c))
  BY <1>1, <1>3
<1>7. \A x \in Goals : Has(mailbox'[x], Results) =>
        Has(mailbox[x], Results) \/ (x = g /\ m.type = "EvidenceCheckResult")
  BY <1>1, <1>3
<1>8. \A x \in Goals : x # g \/ m \notin JobReports =>
                /\ Has(mailbox'[x], JobReports) = Has(mailbox[x], JobReports)
                /\ One(mailbox[x], JobReports) => One(mailbox'[x], JobReports)
  BY <1>3, <1>4
<1>9. m \in JobReports =>
              /\ Has(mailbox'[g], JobReports) = TRUE
              /\ ~Has(mailbox[g], JobReports) => One(mailbox'[g], JobReports)
  BY <1>3, <1>4, <1>5
<1>. QED  BY <1>1, <1>2, <1>6, <1>7, <1>8, <1>9

\* The runner takes the one request it has,
LEMMA RunnerSatisfyKeeps ==
  ASSUME TypeOK, ServiceInv, NEW g \in Goals, RunnerSatisfy(g)
  PROVE  ServiceInv'
<1>1. /\ runner[g] /\ runnerBox[g] # <<>>
      /\ futures' = [futures EXCEPT ![g] = @ + 1]
      /\ runnerBox' = [runnerBox EXCEPT ![g] = Tail(@)]
      /\ UNCHANGED <<state, force, listeners, childStatus, checkers, jobRunner, incarnation,
                     mailbox, reply, evidenceActors, probes, runner, finishing, orphans,
                     timers, retryUp, asked>>
  BY DEF RunnerSatisfy, RunnerReceived, proverVars, boxVars, checkerVars, retryVars, clientVars
<1>2. /\ NoNewTalk
      /\ \A x \in Goals : \A M : Has(mailbox'[x], M) = Has(mailbox[x], M)
      /\ \A x \in Goals : \A M : One(mailbox[x], M) => One(mailbox'[x], M)
  BY <1>1, NothingSent
<1>3. Bonds' /\ \A h \in Goals : Calm(h)' /\ Checks(h)'
  BY <1>1, <1>2, BondsSpared, CalmSpared, ChecksSpared DEF ServiceInv, Own
<1>4. \A c \in Clients : ClientTold(c)'
  BY <1>1, <1>2, ClientToldSpared DEF ServiceInv
<1>5. Jobs(g)'
  <2>1. /\ state[g] = "Running" /\ finishing[g] = 0
        /\ runnerBox[g] = <<"Satisfy">> /\ futures[g] = 0
        /\ ~Has(mailbox[g], JobReports) /\ One(mailbox[g], JobReports)
    BY <1>1 DEF ServiceInv, Own, Jobs, JobIn
  <2>2. Has(mailbox'[g], JobReports) = FALSE /\ One(mailbox'[g], JobReports)
    BY <1>1, <2>1 DEF Has
  <2>3. runnerBox'[g] = <<>> /\ futures'[g] = 1
    BY <1>1, <2>1 DEF TypeOK, RunnerTypeOK
  <2>4. /\ state'[g] = "Running" /\ finishing'[g] = 0 /\ runner'[g]
    BY <1>1, <2>1
  <2>. QED  BY <2>2, <2>3, <2>4 DEF Jobs, JobIn
<1>6. \A h \in Goals \ {g} : Jobs(h)'
  BY <1>1, <1>2, JobsSpared DEF Spared, ServiceInv, Own, TypeOK, RunnerTypeOK
<1>. QED  BY <1>3, <1>4, <1>5, <1>6 DEF ServiceInv, Own

\* its execution reports,
LEMMA JobCompletesKeeps ==
  ASSUME TypeOK, ServiceInv, NEW g \in Goals, NEW o \in JobOutcomes, JobCompletes(g, o)
  PROVE  ServiceInv'
<1>. DEFINE m == JobMsg(IF o = "success" THEN "JobRunSuccess" ELSE "JobRunFailed")
<1>1. /\ futures[g] > 0
      /\ futures' = [futures EXCEPT ![g] = @ - 1]
      /\ finishing' = [finishing EXCEPT ![g] = @ + 1]
      /\ Sent(g, m)
      /\ UNCHANGED <<state, force, listeners, childStatus, checkers, jobRunner, incarnation,
                     reply, evidenceActors, probes, runner, runnerBox, orphans,
                     timers, retryUp, asked>>
  BY DEF JobCompletes, Report, Sent, Quiet, proverVars, checkerVars, retryVars, clientVars
<1>2. m \in Message /\ m.type \in {"JobRunSuccess", "JobRunFailed"}
  BY DEF JobMsg, Message
<1>. HIDE DEF m
<1>3. /\ NoNewTalk
      /\ \A x \in Goals, c \in Clients : Has(mailbox'[x], From(c)) => Has(mailbox[x], From(c))
      /\ \A x \in Goals : Has(mailbox'[x], Results) => Has(mailbox[x], Results)
      /\ Has(mailbox'[g], JobReports) = TRUE
      /\ ~Has(mailbox[g], JobReports) => One(mailbox'[g], JobReports)
      /\ \A x \in Goals \ {g} :
           /\ Has(mailbox'[x], JobReports) = Has(mailbox[x], JobReports)
           /\ One(mailbox[x], JobReports) => One(mailbox'[x], JobReports)
  BY <1>1, <1>2, ActorSends
<1>4. Bonds' /\ \A h \in Goals : Calm(h)' /\ Checks(h)'
  BY <1>1, <1>3, BondsSpared, CalmSpared, ChecksSpared DEF ServiceInv, Own
<1>5. \A c \in Clients : ClientTold(c)'
  BY <1>1, <1>3, ClientToldSpared DEF ServiceInv
<1>6. Jobs(g)'
  <2>1. /\ state[g] = "Running" /\ finishing[g] = 0
        /\ runnerBox[g] = <<>> /\ futures[g] = 1 /\ runner[g]
        /\ ~Has(mailbox[g], JobReports)
    BY <1>1 DEF ServiceInv, Own, Jobs, JobIn
  <2>2. futures'[g] = 0 /\ finishing'[g] = 1
    BY <1>1, <2>1 DEF TypeOK, RunnerTypeOK
  <2>. QED  BY <1>1, <1>3, <2>1, <2>2 DEF Jobs, JobIn
<1>7. \A h \in Goals \ {g} : Jobs(h)'
  BY <1>1, <1>3, JobsSpared DEF Spared, ServiceInv, Own, TypeOK, RunnerTypeOK
<1>. QED  BY <1>4, <1>5, <1>6, <1>7 DEF ServiceInv, Own

\* and it stops, with nothing left in the pool.
LEMMA RunnerFinishKeeps ==
  ASSUME TypeOK, ServiceInv, NEW g \in Goals, RunnerFinish(g)
  PROVE  ServiceInv'
<1>1. /\ finishing[g] > 0
      /\ runner' = [runner EXCEPT ![g] = FALSE]
      /\ runnerBox' = [runnerBox EXCEPT ![g] = <<>>]
      /\ futures' = [futures EXCEPT ![g] = 0]
      /\ finishing' = [finishing EXCEPT ![g] = 0]
      /\ orphans' = [orphans EXCEPT ![g] = @ + futures[g]]
      /\ UNCHANGED <<state, force, listeners, childStatus, checkers, jobRunner, incarnation,
                     mailbox, reply, evidenceActors, probes, timers, retryUp, asked>>
  BY DEF RunnerFinish, Finish, proverVars, boxVars, checkerVars, retryVars, clientVars
<1>2. /\ NoNewTalk
      /\ \A x \in Goals : \A M : Has(mailbox'[x], M) = Has(mailbox[x], M)
      /\ \A x \in Goals : \A M : One(mailbox[x], M) => One(mailbox'[x], M)
  BY <1>1, NothingSent
<1>3. /\ runnerBox[g] = <<>> /\ futures[g] = 0
      /\ state[g] = "Running" => Has(mailbox[g], JobReports) = TRUE
      /\ state[g] # "Running" => Has(mailbox[g], JobReports) = FALSE
      /\ One(mailbox[g], JobReports) /\ runner[g]
  BY <1>1 DEF ServiceInv, Own, Jobs, JobIn
<1>4. orphans' = orphans
  BY <1>1, <1>3 DEF TypeOK, RunnerTypeOK
<1>5. Bonds' /\ \A h \in Goals : Calm(h)' /\ Checks(h)'
  BY <1>1, <1>2, <1>4, BondsSpared, CalmSpared, ChecksSpared DEF ServiceInv, Own
<1>6. \A c \in Clients : ClientTold(c)'
  BY <1>1, <1>2, ClientToldSpared DEF ServiceInv
<1>7. Jobs(g)'
  <2>1. /\ ~runner'[g] /\ runnerBox'[g] = <<>> /\ futures'[g] = 0 /\ finishing'[g] = 0
    BY <1>1 DEF TypeOK, RunnerTypeOK
  <2>2. state[g] \in {"Running", "Success", "Failed"}
    BY <1>3 DEF ServiceInv, Own, Jobs
  <2>. QED  BY <1>1, <1>3, <2>1, <2>2 DEF Jobs, JobIn
<1>8. \A h \in Goals \ {g} : Jobs(h)'
  BY <1>1, <1>2, JobsSpared DEF Spared, ServiceInv, Own, TypeOK, RunnerTypeOK
<1>. QED  BY <1>5, <1>6, <1>7, <1>8 DEF ServiceInv, Own

\* There is no Abort for it to take, and no execution without it.
LEMMA RunnerKeeps ==
  ASSUME TypeOK, ServiceInv, NEW g \in Goals, JobRunnerStep(g)
  PROVE  ServiceInv'
<1>1. ~RunnerAbort(g)
  <2>1. runnerBox[g] = <<>> \/ runnerBox[g] = <<"Satisfy">>
    BY DEF ServiceInv, Own, Jobs, JobIn
  <2>. QED  BY <2>1 DEF RunnerAbort, RunnerReceived
<1>2. \A o : ~OrphanCompletes(g, o)
  <2>1. orphans[g] = 0
    BY DEF ServiceInv, Own, Calm
  <2>. QED  BY <2>1 DEF OrphanCompletes
<1>. QED  BY <1>1, <1>2, RunnerSatisfyKeeps, JobCompletesKeeps, RunnerFinishKeeps
     DEF JobRunnerStep

\* A check answers with a result, and may be asked again.
LEMMA CheckerKeeps ==
  ASSUME TypeOK, Undisturbed, ServiceInv, NEW g \in Goals, EvidenceCheckerStep(g)
  PROVE  ServiceInv'
<1>. DEFINE Unmoved == UNCHANGED <<state, force, listeners, childStatus, checkers, jobRunner,
                                   incarnation, reply, evidenceActors, runner, runnerBox,
                                   futures, finishing, orphans, timers, retryUp, asked>>
            Apart == /\ NoNewTalk
                     /\ \A x \in Goals, c \in Clients :
                          Has(mailbox'[x], From(c)) => Has(mailbox[x], From(c))
                     /\ \A x \in Goals :
                          /\ Has(mailbox'[x], JobReports) = Has(mailbox[x], JobReports)
                          /\ One(mailbox[x], JobReports) => One(mailbox'[x], JobReports)
                     /\ \A x \in Goals : probes'[x] # {} \/ Has(mailbox'[x], Results) =>
                          checkers[x] # {} \/ probes[x] # {} \/ Has(mailbox[x], Results)
<1>1. Unmoved /\ Apart
  <2>1. ASSUME NEW id \in probes[g], NEW o \in CheckOutcomes, CheckCompletes(g, id, o)
        PROVE  Unmoved /\ Apart
    <3>. DEFINE m == EvidenceMsg(id, o = "exists")
    <3>1. /\ Unmoved /\ Sent(g, m)
          /\ probes' = [probes EXCEPT ![g] = @ \ {id}]
      <4>1. o # "throws"
        BY DEF Undisturbed
      <4>. QED  BY <2>1, <4>1 DEF CheckCompletes, Sent, Quiet, proverVars, runnerVars,
                   retryVars, clientVars
    <3>2. m \in Message /\ m.type = "EvidenceCheckResult"
      <4>1. id \in Nat
        BY DEF TypeOK, CheckerTypeOK
      <4>. QED  BY <4>1 DEF EvidenceMsg, Message
    <3>. HIDE DEF m
    <3>3. /\ NoNewTalk
          /\ \A x \in Goals, c \in Clients :
               Has(mailbox'[x], From(c)) => Has(mailbox[x], From(c))
          /\ \A x \in Goals : Has(mailbox'[x], Results) => Has(mailbox[x], Results) \/ x = g
          /\ \A x \in Goals :
               /\ Has(mailbox'[x], JobReports) = Has(mailbox[x], JobReports)
               /\ One(mailbox[x], JobReports) => One(mailbox'[x], JobReports)
      BY <3>1, <3>2, ActorSends
    <3>4. probes[g] # {} /\ \A x \in Goals : probes'[x] # {} => probes[x] # {}
      BY <3>1 DEF TypeOK, CheckerTypeOK
    <3>. QED  BY <3>1, <3>3, <3>4
  <2>2. ASSUME NEW id \in checkers[g], CheckAgain(g, id)
        PROVE  Unmoved /\ Apart
    <3>1. /\ Unmoved /\ UNCHANGED mailbox
          /\ probes' = [probes EXCEPT ![g] = @ \cup {id}]
      BY <2>2 DEF CheckAgain, proverVars, boxVars, runnerVars, retryVars, clientVars
    <3>2. \A x \in Goals : probes'[x] # {} => checkers[x] # {} \/ probes[x] # {}
      BY <2>2, <3>1 DEF TypeOK, CheckerTypeOK
    <3>3. /\ NoNewTalk
          /\ \A x \in Goals : \A M : Has(mailbox'[x], M) = Has(mailbox[x], M)
          /\ \A x \in Goals : \A M : One(mailbox[x], M) => One(mailbox'[x], M)
      BY <3>1, NothingSent
    <3>. QED  BY <3>1, <3>2, <3>3
  <2>. QED  BY <2>1, <2>2 DEF EvidenceCheckerStep
<1>2. Bonds' /\ \A h \in Goals : Calm(h)' /\ Checks(h)'
  BY <1>1, BondsSpared, CalmSpared, ChecksSpared DEF ServiceInv, Own
<1>3. \A h \in Goals : Jobs(h)'
  BY <1>1, JobsSpared DEF Spared, ServiceInv, Own
<1>4. \A c \in Clients : ClientTold(c)'
  BY <1>1, ClientToldSpared DEF ServiceInv
<1>. QED  BY <1>2, <1>3, <1>4 DEF ServiceInv, Own

\* A client asks for a goal; restartGoal sends what no prover matches; and nothing
\* is aborted.
LEMMA ClientKeeps ==
  ASSUME TypeOK, Undisturbed, ServiceInv, NEW g \in Goals,
         \/ \E c \in Clients : SatisfyGoal(c, g)
         \/ AbortGoal(g) \/ RestartGoal(g)
  PROVE  ServiceInv'
<1>. DEFINE Unmoved == UNCHANGED <<state, force, listeners, childStatus, checkers, jobRunner,
                                   incarnation, evidenceActors, probes, runner, runnerBox,
                                   futures, finishing, orphans, timers, retryUp>>
            Apart == /\ NoNewTalk
                     /\ \A x \in Goals :
                          /\ Has(mailbox'[x], Results) => Has(mailbox[x], Results)
                          /\ Has(mailbox'[x], JobReports) = Has(mailbox[x], JobReports)
                          /\ One(mailbox[x], JobReports) => One(mailbox'[x], JobReports)
<1>1. ~AbortGoal(g)
  <2>1. aborts \in Nat /\ (Abortable = {} \/ MaxAborts = 0)
    BY DEF Undisturbed, TypeOK, ClientTypeOK
  <2>2. aborts < 0 => FALSE
    BY <2>1
  <2>3. AbortGoal(g) => Abortable # {} /\ aborts < MaxAborts
    BY DEF AbortGoal
  <2>. QED  BY <2>1, <2>2, <2>3
<1>2. Unmoved /\ Apart /\ \A c \in Clients : ClientTold(c)'
  <2>1. CASE RestartGoal(g)
    <3>1. Unmoved /\ UNCHANGED <<reply, asked>> /\ Sent(g, UnexpectedMsg)
      BY <2>1 DEF RestartGoal, Deliver, Sent, Quiet, proverVars, checkerVars, runnerVars,
         retryVars
    <3>2. UnexpectedMsg \in Message /\ UnexpectedMsg.type = "Unexpected"
      BY DEF UnexpectedMsg, Message
    <3>3. /\ Apart
          /\ \A x \in Goals, c \in Clients :
               Has(mailbox'[x], From(c)) => Has(mailbox[x], From(c))
      BY <3>1, <3>2, ActorSends
    <3>. QED  BY <3>1, <3>3, ClientToldSpared DEF ServiceInv
  <2>2. ASSUME NEW c \in Clients, SatisfyGoal(c, g)
        PROVE  Unmoved /\ Apart /\ \A b \in Clients : ClientTold(b)'
    <3>1. PICK f \in ForceModes : Sent(g, SatisfyMsg(c, f))
      BY <2>2 DEF SatisfyGoal, Sent
    <3>2. /\ Unmoved /\ asked[c] = NoValue
          /\ asked' = [asked EXCEPT ![c] = g]
          /\ reply' = [reply EXCEPT ![c] = "waiting"]
      BY <2>2 DEF SatisfyGoal, proverVars, checkerVars, runnerVars, retryVars
    <3>. DEFINE m == SatisfyMsg(c, f)
    <3>3. m \in Message /\ m.type = "Satisfy" /\ m.from = c /\ m.force = f
      BY BoundsType DEF SatisfyMsg, Message, Requesters
    <3>. HIDE DEF m
    <3>4. Sent(g, m)
      BY <3>1 DEF m
    <3>5. /\ m \notin Unwelcome /\ m.type \notin News
          /\ m \notin Results /\ m \notin JobReports
          /\ \A r \in Goals : m \notin From(r)
          /\ \A b \in Clients \ {c} : m \notin From(b)
      <4>1. FALSE \notin ForceModes => f
        BY BoundsType
      <4>2. m \notin Unwelcome /\ m.type \notin News
        BY <3>3, <4>1 DEF Unwelcome, News
      <4>. QED  BY <3>3, <4>2, Kinds, NamesDistinct
    <3>6. NoNewTalk
      BY <3>3, <3>4, <3>5, SentIsNoTalk
    <3>7. ASSUME NEW x \in Goals, NEW M
          PROVE  /\ Has(mailbox'[x], M) <=> Has(mailbox[x], M) \/ (x = g /\ m \in M)
                 /\ One(mailbox[x], M) /\ m \notin M => One(mailbox'[x], M)
      BY <3>3, <3>4, SentBox
    <3>8. Apart
      <4>1. \A x \in Goals : /\ Has(mailbox'[x], JobReports) \in BOOLEAN
                             /\ Has(mailbox[x], JobReports) \in BOOLEAN
        BY DEF Has
      <4>. QED  BY <3>5, <3>6, <3>7, <4>1
    <3>9. ASSUME NEW b \in Clients \ {c}
          PROVE  ClientTold(b)'
      <4>1. asked'[b] = asked[b] /\ reply'[b] = reply[b] /\ ClientTold(b)
        BY <3>2 DEF ServiceInv, TypeOK, BoxTypeOK, ClientTypeOK
      <4>2. \A x \in Goals : Has(mailbox'[x], From(b)) => Has(mailbox[x], From(b))
        BY <3>5, <3>7
      <4>. QED  BY <3>2, <4>1, <4>2 DEF ClientTold
    <3>10. ClientTold(c)'
      <4>1. asked'[c] = g /\ reply'[c] = "waiting" /\ ClientTold(c) /\ NoValue \notin Goals
        BY <3>2, BoundsType DEF ServiceInv, TypeOK, BoxTypeOK, ClientTypeOK
      <4>2. \A x \in Goals : ~Has(mailbox[x], From(c)) /\ c \notin listeners[x]
        BY <3>2, <4>1 DEF ClientTold
      <4>3. \A x \in Goals : Has(mailbox'[x], From(c)) => x = g
        BY <3>7, <4>2
      <4>. QED  BY <3>2, <4>1, <4>2, <4>3 DEF ClientTold
    <3>. QED  BY <3>2, <3>8, <3>9, <3>10
  <2>. QED  BY <1>1, <2>1, <2>2
<1>3. Bonds' /\ \A h \in Goals : Calm(h)' /\ Checks(h)'
  BY <1>2, BondsSpared, CalmSpared, ChecksSpared DEF ServiceInv, Own
<1>4. \A h \in Goals : Jobs(h)'
  BY <1>2, JobsSpared DEF Spared, ServiceInv, Own
<1>. QED  BY <1>2, <1>3, <1>4 DEF ServiceInv, Own

\* A page that asks for a status learns of dependencies that were asked before.
LEMMA WhatsYourStatusKeeps ==
  ASSUME TypeOK, Undisturbed, ServiceInv, NEW g \in Goals, WhatsYourStatus(g)
  PROVE  UNCHANGED state /\ ServiceInv'
<1>1. /\ g \in Queried
      /\ UNCHANGED <<force, listeners, checkers, jobRunner, incarnation, mailbox, reply,
                     evidenceActors, probes, runner, runnerBox, futures, finishing, orphans,
                     timers, retryUp, asked>>
  BY DEF WhatsYourStatus, boxVars, checkerVars, runnerVars, retryVars, clientVars
<1>2. Calm(g) /\ Stuck(g) /\ (state[g] # "Unstarted" => force[g])
  BY <1>1 DEF ServiceInv, Own, Bonds, Calm, Undisturbed
<1>3. /\ UNCHANGED state
      /\ \/ UNCHANGED childStatus
         \/ \E d \in Goals :
              /\ HasAskedAll(g) /\ d \in Children(g) /\ ~Has(mailbox[d], From(g))
              /\ childStatus' = [childStatus EXCEPT ![g] = childStatus[g] \cup {<<d, 0>>}]
  <2>1. CASE WhatsYourStatusThrows(g)
    <3>1. state[g] = "Failed"
      BY <1>2, <2>1 DEF WhatsYourStatusThrows, HidesDependencies, Stuck
    <3>. QED  BY <2>1, <3>1 DEF WhatsYourStatusThrows, MarkUnexpected, TypeOK, ProverTypeOK
  <2>2. ASSUME NEW d \in Children(g), ChildStatusArrives(g, d)
        PROVE  /\ UNCHANGED state
               /\ HasAskedAll(g) /\ d \in Goals /\ ~Has(mailbox[d], From(g))
               /\ childStatus' = [childStatus EXCEPT ![g] = childStatus[g] \cup {<<d, 0>>}]
    <3>1. d \in Goals /\ HasDependencies(g)
      BY DependenciesType DEF Children, HasDependencies
    <3>2. PICK n \in 0..incarnation[d] :
            childStatus' = [childStatus EXCEPT ![g] = WithChild(g, <<d, n>>)]
      BY <2>2 DEF ChildStatusArrives
    <3>3. n = 0
      <4>1. incarnation[d] = 0
        BY <3>1 DEF ServiceInv, Own, Calm
      <4>. QED  BY <3>2, <4>1
    <3>4. UNCHANGED state /\ g \notin BadWitness /\ force[g] /\ ~SatisfyQueued(g, d)
      BY <1>2, <2>2 DEF ChildStatusArrives, AsksAfterSatisfy
    <3>5. HasAskedAll(g)
      BY <1>2, <2>2, <3>1, <3>4 DEF ChildStatusArrives, HasAskedAll, Waits, Calm, TypeOK,
         ProverTypeOK, GoalState, Satisfied, Unsatisfied, Unfinished
    <3>6. ~Has(mailbox[d], From(g))
      BY <3>4 DEF SatisfyQueued, Has, From
    <3>. QED  BY <1>2, <3>1, <3>2, <3>3, <3>4, <3>5, <3>6, WithChildIs
  <2>. QED  BY <2>1, <2>2, <1>1 DEF WhatsYourStatus, WhatsYourStatusThrows
<1>4. CASE UNCHANGED childStatus
  <2>1. /\ NoNewTalk
        /\ \A x \in Goals : \A M : Has(mailbox'[x], M) = Has(mailbox[x], M)
        /\ \A x \in Goals : \A M : One(mailbox[x], M) => One(mailbox'[x], M)
    BY <1>1, NothingSent
  <2>2. Bonds' /\ \A h \in Goals : Calm(h)' /\ Checks(h)'
    BY <1>1, <1>3, <1>4, <2>1, BondsSpared, CalmSpared, ChecksSpared DEF ServiceInv, Own
  <2>3. \A h \in Goals : Jobs(h)'
    BY <1>1, <1>3, <2>1, JobsSpared DEF Spared, ServiceInv, Own
  <2>4. \A c \in Clients : ClientTold(c)'
    BY <1>1, <1>3, <2>1, ClientToldSpared DEF ServiceInv
  <2>. QED  BY <1>3, <2>2, <2>3, <2>4 DEF ServiceInv, Own
<1>5. ASSUME NEW d \in Goals, HasAskedAll(g), d \in Children(g), ~Has(mailbox[d], From(g)),
             childStatus' = [childStatus EXCEPT ![g] = childStatus[g] \cup {<<d, 0>>}]
      PROVE  ServiceInv'
  <2>1. ASSUME NEW x \in Goals, NEW y \in Goals
        PROVE  Heard(x, y)' <=> Heard(x, y) \/ (x = g /\ y = d)
    BY <1>5 DEF Heard, TypeOK, ProverTypeOK
  <2>2. \A x \in Goals : /\ HasAskedAll(x)' = HasAskedAll(x) /\ Through(x)' = Through(x)
                         /\ NewsOver(x)' = NewsOver(x) /\ Waits(x)' = Waits(x)
    BY <1>1, <1>3 DEF HasAskedAll, Through, NewsOver, Waits
  <2>3. \A x \in Goals : mailbox'[x] = mailbox[x] /\ state'[x] = state[x]
                         /\ listeners'[x] = listeners[x] /\ force'[x] = force[x]
                         /\ checkers'[x] = checkers[x]
    BY <1>1, <1>3
  <2>4. ASSUME NEW x \in Goals, NEW y \in Goals
        PROVE  Silent(x, y)' /\ NewsTrue(x, y)' /\ Once(x, y)'
    <3>1. Silent(x, y) /\ NewsTrue(x, y) /\ Once(x, y)
      BY DEF ServiceInv, Bonds
    <3>2. Silent(x, y)'
      BY <1>5, <2>1, <2>2, <2>3, <3>1 DEF Silent
    <3>3. NewsTrue(x, y)'
      BY <1>1, <2>1, <2>3, <3>1 DEF NewsTrue
    <3>4. Once(x, y)'
      BY <1>1, <1>5, <2>1, <2>3, <3>1 DEF Once, Distinct
    <3>. QED  BY <3>2, <3>3, <3>4
  <2>5. ASSUME NEW x \in Goals
        PROVE  Passed(x)' /\ Ordered(x)' /\ Stuck(x)'
    <3>1. Passed(x) /\ Ordered(x) /\ Stuck(x) /\ \A y \in Children(x) : y \in Goals
      BY DependenciesType DEF ServiceInv, Bonds, Children
    <3>2. Passed(x)'
      BY <2>1, <2>2, <2>3, <3>1 DEF Passed, Distinct
    <3>3. Ordered(x)'
      BY <2>3, <3>1 DEF Ordered
    <3>4. Stuck(x)'
      BY <2>1, <2>2, <2>3, <3>1 DEF Stuck
    <3>. QED  BY <3>2, <3>3, <3>4
  <2>6. ASSUME NEW x \in Goals
        PROVE  Own(x)'
    <3>1. Calm(x) /\ Jobs(x) /\ Checks(x)
      BY DEF ServiceInv, Own
    <3>2. Calm(x)'
      <4>1. \A s \in childStatus'[x] : s[2] = 0
        BY <1>5, <3>1 DEF Calm, TypeOK, ProverTypeOK
      <4>. QED  BY <1>1, <2>3, <3>1, <4>1 DEF Calm, Unwelcome
    <3>3. Jobs(x)'
      BY <1>1, <2>3, <3>1 DEF Jobs, JobIn
    <3>4. Checks(x)'
      BY <1>1, <2>3, <3>1 DEF Checks, Waits
    <3>. QED  BY <3>2, <3>3, <3>4 DEF Own
  <2>7. ASSUME NEW c \in Clients
        PROVE  ClientTold(c)'
    BY <1>1, <1>3 DEF ServiceInv, ClientTold
  <2>. QED  BY <2>4, <2>5, <2>6, <2>7 DEF ServiceInv, Bonds
<1>. QED  BY <1>3, <1>4, <1>5
-----------------------------------------------------------------------------
(* So it holds in every state.                                               *)

\* Nothing is asked, sent or created at the start.
LEMMA InitServes ==
  ASSUME Undisturbed, Init
  PROVE  ServiceInv
<1>1. \A g \in Goals : /\ mailbox[g] = <<>> /\ state[g] = "Unstarted" /\ ~force[g]
                       /\ listeners[g] = {} /\ childStatus[g] = {} /\ checkers[g] = {}
                       /\ evidenceActors[g] = {} /\ probes[g] = {}
                       /\ ~jobRunner[g] /\ ~runner[g] /\ runnerBox[g] = <<>>
                       /\ futures[g] = 0 /\ finishing[g] = 0 /\ orphans[g] = 0
                       /\ incarnation[g] = 0 /\ timers[g] = 0 /\ ~retryUp[g]
  BY DEF Init, Undisturbed
<1>2. \A g \in Goals : \A M : Has(mailbox[g], M) = FALSE /\ One(mailbox[g], M)
  BY <1>1 DEF Has, One
<1>3. \A g \in Goals : ~Waits(g) /\ ~HasAskedAll(g) /\ ~Through(g)
                       /\ \A d \in Goals : ~Heard(g, d)
  BY <1>1 DEF Waits, HasAskedAll, Through, Heard
<1>4. ASSUME NEW g \in Goals
      PROVE  Own(g)
  <2>1. Calm(g)
    BY <1>1, <1>2 DEF Calm
  <2>2. Jobs(g)
    BY <1>1, <1>2 DEF Jobs, JobIn
  <2>3. Checks(g)
    BY <1>1, <1>2 DEF Checks
  <2>. QED  BY <2>1, <2>2, <2>3 DEF Own
<1>5. ASSUME NEW g \in Goals, NEW d \in Goals
      PROVE  Silent(g, d) /\ NewsTrue(g, d) /\ Once(g, d)
  BY <1>1, <1>2, <1>3 DEF Silent, NewsTrue, Once, Satisfied
<1>6. ASSUME NEW g \in Goals
      PROVE  Passed(g) /\ Ordered(g) /\ Stuck(g)
  <2>1. Precede(mailbox[g], AnyNews, Results \cup JobReports)
    BY <1>1 DEF Precede
  <2>. QED  BY <1>1, <1>2, <1>3, <2>1 DEF Passed, Ordered, Stuck
<1>7. ASSUME NEW c \in Clients
      PROVE  ClientTold(c)
  BY <1>1, <1>2 DEF ClientTold, Init
<1>. QED  BY <1>4, <1>5, <1>6, <1>7 DEF ServiceInv, Bonds

LEMMA StepServes ==
  ASSUME TypeOK, TypeOK', Undisturbed, ServiceInv, [Next]_vars
  PROVE  ServiceInv'
<1>1. CASE UNCHANGED vars
  <2>1. UNCHANGED <<state, force, listeners, childStatus, checkers, jobRunner, incarnation,
                    mailbox, reply, evidenceActors, probes, runner, runnerBox, futures,
                    finishing, orphans, timers, retryUp, asked>>
    BY <1>1 DEF vars, proverVars, boxVars, checkerVars, runnerVars, retryVars, clientVars
  <2>2. /\ NoNewTalk
        /\ \A x \in Goals : \A M : Has(mailbox'[x], M) = Has(mailbox[x], M)
        /\ \A x \in Goals : \A M : One(mailbox[x], M) => One(mailbox'[x], M)
    BY <2>1, NothingSent
  <2>3. Bonds' /\ \A h \in Goals : Calm(h)' /\ Checks(h)'
    BY <2>1, <2>2, BondsSpared, CalmSpared, ChecksSpared DEF ServiceInv, Own
  <2>4. \A h \in Goals : Jobs(h)'
    BY <2>1, <2>2, JobsSpared DEF Spared, ServiceInv, Own
  <2>5. \A c \in Clients : ClientTold(c)'
    BY <2>1, <2>2, ClientToldSpared DEF ServiceInv
  <2>. QED  BY <2>3, <2>4, <2>5 DEF ServiceInv, Own
<1>2. CASE Next
  <2>1. \A g \in Goals : ~RetryAgentStep(g)
    <3>1. \A g \in Goals : timers[g] = 0 /\ ~retryUp[g]
      BY DEF ServiceInv, Own, Calm
    <3>. QED  BY <3>1 DEF RetryAgentStep, AgentGoalFailure, AgentGoalSuccess, RestartTimer,
              RetryReceived
  <2>. QED  BY <1>2, <2>1, ProverKeeps, RunnerKeeps, CheckerKeeps, ClientKeeps,
            WhatsYourStatusKeeps DEF Next
<1>. QED  BY <1>1, <1>2

THEOREM ServiceInvariant ==
  ASSUME Undisturbed
  PROVE  Spec => [](TypeOK /\ ServiceInv)
<1>1. Init => TypeOK /\ ServiceInv
  BY InitTyped, InitServes
<1>2. TypeOK /\ ServiceInv /\ [Next]_vars => (TypeOK /\ ServiceInv)'
  BY StepTyped, StepServes
<1>. QED  BY <1>1, <1>2, PTL DEF Spec
-----------------------------------------------------------------------------
(* What it shows of jobs.                                                    *)

\* The satisfier of a goal is never running twice at once.
THEOREM NeverTwice ==
  ASSUME Undisturbed
  PROVE  Spec => []SingleExecution
<1>1. TypeOK /\ ServiceInv => SingleExecution
  <2>. SUFFICES ASSUME ServiceInv, NEW g \in Goals
                PROVE  futures[g] + orphans[g] <= 1
    BY DEF SingleExecution
  <2>1. futures[g] \in {0, 1} /\ orphans[g] = 0
    BY DEF ServiceInv, Own, Jobs, JobIn, Calm
  <2>. QED  BY <2>1
<1>. QED  BY <1>1, ServiceInvariant, PTL

\* A goal that is Running has a job that is to start, executes or has reported.
THEOREM NeverWithoutJob ==
  ASSUME Undisturbed
  PROVE  Spec => []RunningHasJob
<1>1. TypeOK /\ ServiceInv => RunningHasJob
  <2>. SUFFICES ASSUME ServiceInv, NEW g \in Goals, state[g] = "Running"
                PROVE  JobPending(g)
    BY DEF RunningHasJob
  <2>1. Jobs(g)
    BY DEF ServiceInv, Own
  <2>2. CASE JobIn(g, <<"Satisfy">>, 0, FALSE)
    BY <2>1, <2>2 DEF Jobs, JobIn, JobPending
  <2>3. CASE JobIn(g, <<>>, 1, FALSE)
    BY <2>3 DEF JobIn, JobPending
  <2>4. CASE JobIn(g, <<>>, 0, TRUE)
    BY <2>4 DEF JobIn, Has, JobReports, JobPending, Queued
  <2>. QED  BY <2>1, <2>2, <2>3, <2>4 DEF Jobs
<1>. QED  BY <1>1, ServiceInvariant, PTL

\* A goal that runs, or is Success, has gone through all its dependencies; so
\* has one that finds its evidence, if it was forced.
LEMMA BuiltOn ==
  ASSUME ServiceInv, NEW g \in Goals,
         \/ state[g] \in {"Running", "Success"}
         \/ state[g] = "AlreadySatisfied" /\ force[g],
         HasDependencies(g)
  PROVE  Through(g) /\ \A d \in Children(g) : state[d] \in Satisfied
<1>1. Stuck(g) /\ Passed(g)
  BY DEF ServiceInv, Bonds
<1>2. g \notin BadWitness /\ ~Waits(g)
  BY <1>1 DEF Stuck, Waits
<1>. QED  BY <1>1, <1>2 DEF Passed, Through, HasAskedAll

\* A job runs only over satisfied dependencies, from its start to its end.
THEOREM OnlyOverSatisfied ==
  ASSUME Undisturbed
  PROVE  Spec => []DependencyOrder
<1>1. TypeOK /\ ServiceInv => DependencyOrder
  <2>. SUFFICES ASSUME ServiceInv, NEW g \in Goals, futures[g] + orphans[g] > 0,
                       NEW d \in Children(g)
                PROVE  state[d] \in Satisfied
    BY DEF DependencyOrder
  <2>1. futures[g] \in {0, 1} /\ orphans[g] = 0
    BY DEF ServiceInv, Own, Calm, Jobs, JobIn
  <2>2. state[g] = "Running"
    BY <2>1 DEF ServiceInv, Own, Jobs, JobIn
  <2>3. HasDependencies(g)
    BY DEF HasDependencies, Children
  <2>. QED  BY <2>2, <2>3, BuiltOn
<1>. QED  BY <1>1, ServiceInvariant, PTL
-----------------------------------------------------------------------------
(* And of outcomes.                                                          *)

\* What a client was told of a goal is how the goal ended.
THEOREM AnswersTrue ==
  ASSUME Undisturbed
  PROVE  Spec => []AnswerIsTrue
<1>1. TypeOK /\ ServiceInv => AnswerIsTrue
  BY DEF ServiceInv, ClientTold, AnswerIsTrue
<1>. QED  BY <1>1, ServiceInvariant, PTL

\* Akka restarts no prover: no handler throws.
THEOREM NoRestarts ==
  ASSUME Undisturbed
  PROVE  Spec => [](\A g \in Goals : incarnation[g] = 0)
<1>1. TypeOK /\ ServiceInv => \A g \in Goals : incarnation[g] = 0
  BY DEF ServiceInv, Own, Calm
<1>. QED  BY <1>1, ServiceInvariant, PTL

\* Who changes a state, and that none that has ended changes.
LEMMA OutcomeStays ==
  ASSUME TypeOK, TypeOK', Undisturbed, ServiceInv, [Next]_vars, NEW g \in Goals
  PROVE  state[g] \notin Unfinished => state'[g] = state[g]
<1>1. \A h \in Goals : ProverReceive(h) => (state[g] \notin Unfinished => state'[g] = state[g])
  BY ProverKeeps DEF Effect, GoesOn, Learns
<1>2. \A h \in Goals : WhatsYourStatus(h) => UNCHANGED state
  BY WhatsYourStatusKeeps
<1>3. \A h \in Goals : JobRunnerStep(h) \/ EvidenceCheckerStep(h) \/ RetryAgentStep(h)
                       \/ AbortGoal(h) \/ RestartGoal(h) => UNCHANGED state
  BY DEF JobRunnerStep, RunnerSatisfy, RunnerAbort, JobCompletes, OrphanCompletes, Report,
     RunnerFinish, Finish, EvidenceCheckerStep, CheckCompletes, CheckAgain, RetryAgentStep,
     AgentGoalFailure, AgentGoalSuccess, RestartTimer, AbortGoal, RestartGoal, proverVars
<1>4. \A h \in Goals, c \in Clients : SatisfyGoal(c, h) => UNCHANGED state
  BY DEF SatisfyGoal, proverVars
<1>5. UNCHANGED vars => UNCHANGED state
  BY DEF vars, proverVars
<1>. QED  BY <1>1, <1>2, <1>3, <1>4, <1>5 DEF Next

\* A goal that has ended stays as it ended, well or badly.
THEOREM EndedStaysEnded ==
  ASSUME Undisturbed
  PROVE  Spec => [][\A g \in Goals : state[g] \notin Unfinished => state'[g] = state[g]]_vars
<1>1. TypeOK /\ ServiceInv /\ [Next]_vars =>
        [\A g \in Goals : state[g] \notin Unfinished => state'[g] = state[g]]_vars
  BY OutcomeStays, StepTyped
<1>. QED  BY <1>1, ServiceInvariant, PTL DEF Spec

\* So a satisfied goal stays satisfied.
THEOREM SatisfiedStays ==
  ASSUME Undisturbed
  PROVE  Spec => SatisfiedIsFinal
<1>1. TypeOK /\ ServiceInv /\ [Next]_vars =>
        [\A g \in Goals : state[g] \in Satisfied => state'[g] = state[g]]_vars
  BY OutcomeStays, StepTyped DEF Satisfied, Unfinished
<1>. QED  BY <1>1, ServiceInvariant, PTL DEF Spec, SatisfiedIsFinal
-----------------------------------------------------------------------------
(* The engine implements GoalService, step by step: clients force the goals  *)
(* they ask for, as satisfyGoal does.  (Without force a goal whose evidence  *)
(* is there is satisfied before its dependencies are looked at.)             *)

\* A verdict is open until the goal has ended.
LEMMA VerdictIs ==
  ASSUME NEW s \in GoalState
  PROVE  /\ Verdict(s) = "open" <=> s \in Unfinished
         /\ Verdict(s) = "satisfied" <=> s \in Satisfied
         /\ Verdict(s) = "failed" <=> s \in Unsatisfied
<1>1. /\ s \in Satisfied => Verdict(s) = "satisfied"
      /\ s \in Unsatisfied => Verdict(s) = "failed"
      /\ s \in Unfinished => Verdict(s) = "open"
  BY DEF Verdict, Satisfied, Unsatisfied, Unfinished
<1>2. s \in Satisfied \/ s \in Unsatisfied \/ s \in Unfinished
  BY DEF GoalState
<1>. QED  BY <1>1, <1>2

verdicts == [g \in Goals |-> Verdict(state[g])]

\* The steps nothing can be seen of.
LEMMA Unseen ==
  ASSUME UNCHANGED <<asked, reply>>, verdicts' = verdicts
  PROVE  UNCHANGED Service!vars
  BY DEF Service!vars, verdicts

LEMMA InitService == Init => Service!Init
  BY DEF Init, Service!Init, Verdict, Satisfied, Unsatisfied, Unfinished

LEMMA AskServes ==
  ASSUME NEW c \in Clients, NEW g \in Goals, SatisfyGoal(c, g)
  PROVE  Service!Ask(c, g)
<1>1. UNCHANGED state
  BY DEF SatisfyGoal, proverVars
<1>. QED  BY <1>1 DEF SatisfyGoal, Service!Ask

\* The prover that decides its goal does so over satisfied dependencies, and tells
\* the clients among its listeners; one whose dependency fails again tells no client.
LEMMA DecidesServes ==
  ASSUME TypeOK, TypeOK', ServiceInv, ServiceInv', FALSE \notin ForceModes,
         NEW g \in Goals, Effect(g), Decides(g)
  PROVE  [Service!Next]_(Service!vars)
<1>. DEFINE heard == {c \in Clients : c \in listeners'[g] /\ reply[c] = "waiting"}
<1>1. /\ asked' = asked /\ state[g] \in GoalState /\ state'[g] \in GoalState
      /\ \A h \in Goals \ {g} : state'[h] = state[h]
  BY DEF Effect, Minds, Learns, TypeOK, ProverTypeOK
<1>2. \A c \in heard : asked[c] = g
  BY <1>1 DEF ServiceInv, ClientTold
<1>3. ASSUME NEW t \in News, NEW v \in {"satisfied", "failed"}, Service!Told(v) = t,
             state[g] \in Unfinished, Verdict(state'[g]) = v,
             Publish(g, t, listeners'[g], Taken(g)),
             v = "satisfied" => \A d \in Children(g) : state[d] \in Satisfied
      PROVE  Service!Decide(g, v, heard)
  <2>1. Verdict(state[g]) = "open"
    BY <1>1, <1>3, VerdictIs
  <2>2. verdicts' = [verdicts EXCEPT ![g] = v]
    BY <1>1, <1>3 DEF verdicts
  <2>3. reply' = [c \in Clients |-> IF c \in heard THEN Service!Told(v) ELSE reply[c]]
    BY <1>3 DEF Publish
  <2>4. v = "satisfied" => \A d \in Children(g) : d \in Goals /\ Verdict(state[d]) = "satisfied"
    <3>1. \A d \in Children(g) : d \in Goals /\ state[d] \in GoalState
      BY DependenciesType DEF Children, TypeOK, ProverTypeOK
    <3>. QED  BY <1>3, <3>1, VerdictIs
  <2>. QED  BY <1>1, <1>2, <2>1, <2>2, <2>3, <2>4 DEF Service!Decide, verdicts
<1>4. ASSUME state[g] \in Unfinished, state'[g] \in Satisfied, NEW d \in Children(g)
      PROVE  state[d] \in Satisfied
  <2>1. HasDependencies(g) /\ g \notin BadWitness /\ ~Waits(g)'
    <3>1. HasDependencies(g)
      BY DEF HasDependencies, Children
    <3>. QED  BY <1>4, <3>1 DEF Effect, GoesOn, Satisfied, Waits
  <2>2. force'[g]
    BY <1>4 DEF Effect, Minds, Satisfied
  <2>3. Through(g)'
    BY <1>4, <2>1, <2>2 DEF Through, HasAskedAll, Satisfied, HasDependencies
  <2>4. CASE Through(g)
    BY <2>4 DEF ServiceInv, Bonds, Passed
  <2>5. CASE ~Through(g)
    BY <2>3, <2>5 DEF Effect, GoesOn
  <2>. QED  BY <2>4, <2>5
<1>5. CASE /\ state[g] \in Unfinished /\ state'[g] \in Satisfied
           /\ Publish(g, "GoalSuccess", listeners'[g], Taken(g))
  <2>1. Verdict(state'[g]) = "satisfied"
    BY <1>1, <1>5, VerdictIs
  <2>2. Service!Told("satisfied") = "GoalSuccess"
    BY DEF Service!Told
  <2>3. Service!Decide(g, "satisfied", heard)
    BY <1>3, <1>4, <1>5, <2>1, <2>2 DEF News
  <2>. QED  BY <2>3 DEF Service!Next
<1>6. CASE /\ state[g] \in Unfinished /\ state'[g] \in {"Failed", "DependencyFailed"}
           /\ Publish(g, "GoalFailure", listeners'[g], Taken(g))
  <2>1. Verdict(state'[g]) = "failed"
    BY <1>1, <1>6, VerdictIs DEF Unsatisfied
  <2>2. Service!Told("failed") = "GoalFailure"
    BY DEF Service!Told
  <2>3. Service!Decide(g, "failed", heard)
    BY <1>3, <1>6, <2>1, <2>2 DEF News
  <2>. QED  BY <2>3 DEF Service!Next
<1>7. CASE /\ state[g] = "DependencyFailed" /\ Head(mailbox[g]).type = "GoalFailure"
           /\ Publish(g, "GoalFailure", listeners'[g], Taken(g))
  <2>1. state'[g] = state[g] /\ listeners'[g] = listeners[g]
    BY <1>7 DEF Effect, GoesOn, Learns, Unfinished
  <2>2. heard = {}
    <3>1. ~(g \in BadWitness /\ HasDependencies(g))
      BY <1>7 DEF ServiceInv, Bonds, Stuck
    <3>. QED  BY <1>7, <2>1, <3>1 DEF ServiceInv, ClientTold, Unfinished
  <2>3. reply' = reply
    BY <1>7, <2>2 DEF Publish, TypeOK, BoxTypeOK
  <2>4. verdicts' = verdicts
    BY <1>1, <2>1 DEF verdicts
  <2>. QED  BY <1>1, <2>3, <2>4, Unseen
<1>. QED  BY <1>5, <1>6, <1>7 DEF Decides

\* A later request of a client is answered; another prover's cannot be seen.
LEMMA AnswersServes ==
  ASSUME TypeOK, TypeOK', ServiceInv, NEW g \in Goals, Effect(g), Answers(g)
  PROVE  [Service!Next]_(Service!vars)
<1>. DEFINE c == Head(mailbox[g]).from
<1>1. /\ asked' = asked /\ verdicts' = verdicts /\ state[g] \in GoalState
      /\ reply \in [Clients -> {"none", "waiting", "GoalSuccess", "GoalFailure"}]
  BY DEF Effect, Minds, Learns, Answers, verdicts, TypeOK, ProverTypeOK, BoxTypeOK
<1>2. PICK t \in News : /\ Publish(g, t, {c}, Taken(g))
                        /\ Verdict(state[g]) # "open" /\ t = Service!Told(Verdict(state[g]))
  <2>1. CASE state[g] \in Satisfied /\ Publish(g, "GoalSuccess", {c}, Taken(g))
    BY <1>1, <2>1, VerdictIs DEF News, Service!Told
  <2>2. CASE state[g] \in Unsatisfied /\ Publish(g, "GoalFailure", {c}, Taken(g))
    BY <1>1, <2>2, VerdictIs DEF News, Service!Told
  <2>. QED  BY <2>1, <2>2 DEF Answers
<1>3. CASE c \in Clients /\ reply[c] = "waiting"
  <2>1. asked[c] = g
    <3>1. Calm(g) /\ mailbox[g] # <<>> /\ Head(mailbox[g]).type = "Satisfy"
      BY DEF ServiceInv, Own, Effect, Answers
    <3>2. Head(mailbox[g]) \in Message /\ \A M : Head(mailbox[g]) \in M => Has(mailbox[g], M)
      BY <3>1, HeadHas
    <3>3. Has(mailbox[g], From(c))
      BY <3>1, <3>2, Kinds
    <3>. QED  BY <1>3, <3>3 DEF ServiceInv, ClientTold
  <2>2. reply' = [reply EXCEPT ![c] = Service!Told(Verdict(state[g]))]
    BY <1>1, <1>2, <1>3 DEF Publish
  <2>3. Service!Answer(c)
    BY <1>1, <1>2, <1>3, <2>1, <2>2 DEF Service!Answer, verdicts
  <2>. QED  BY <1>3, <2>3 DEF Service!Next
<1>4. CASE ~(c \in Clients /\ reply[c] = "waiting")
  <2>1. reply' = reply
    BY <1>1, <1>2, <1>4 DEF Publish
  <2>. QED  BY <1>1, <2>1, Unseen
<1>. QED  BY <1>3, <1>4

LEMMA StepService ==
  ASSUME TypeOK, TypeOK', Undisturbed, ServiceInv, ServiceInv', FALSE \notin ForceModes,
         [Next]_vars
  PROVE  [Service!Next]_(Service!vars)
<1>1. ASSUME UNCHANGED <<state, asked, reply>>
      PROVE  UNCHANGED Service!vars
  BY <1>1, Unseen DEF verdicts
<1>2. CASE UNCHANGED vars
  BY <1>1, <1>2 DEF vars, proverVars, boxVars, clientVars
<1>3. ASSUME NEW c \in Clients, NEW g \in Goals, SatisfyGoal(c, g)
      PROVE  Service!Next
  BY <1>3, AskServes DEF Service!Next
<1>4. ASSUME NEW g \in Goals, ProverReceive(g)
      PROVE  [Service!Next]_(Service!vars)
  <2>1. Effect(g)
    BY <1>4, ProverKeeps
  <2>2. CASE Quietly(g) \/ Asks(g)
    <3>1. /\ \A h \in Goals \ {g} : state'[h] = state[h]
          /\ state'[g] = state[g] \/ {state[g], state'[g]} \subseteq Unfinished
          /\ UNCHANGED <<asked, reply>>
      BY <2>1, <2>2 DEF Effect, Learns, Minds, Quietly, Asks, Asking, Quiet
    <3>2. \A h \in Goals : state[h] \in GoalState /\ state'[h] \in GoalState
      BY DEF TypeOK, ProverTypeOK
    <3>3. \A h \in Goals : Verdict(state'[h]) = Verdict(state[h])
      BY <3>1, <3>2, VerdictIs
    <3>4. verdicts' = verdicts
      BY <3>3 DEF verdicts
    <3>. QED  BY <3>1, <3>4, Unseen
  <2>3. CASE Decides(g)
    BY <2>1, <2>3, DecidesServes
  <2>4. CASE Answers(g)
    BY <2>1, <2>4, AnswersServes
  <2>. QED  BY <2>1, <2>2, <2>3, <2>4 DEF Effect
<1>5. ASSUME NEW g \in Goals,
             JobRunnerStep(g) \/ EvidenceCheckerStep(g) \/ RestartGoal(g)
      PROVE  UNCHANGED <<state, asked, reply>>
  BY <1>5 DEF JobRunnerStep, RunnerSatisfy, RunnerAbort, JobCompletes, OrphanCompletes, Report,
     RunnerFinish, Finish, EvidenceCheckerStep, CheckCompletes, CheckAgain, RestartGoal,
     Deliver, Quiet, proverVars, boxVars, clientVars
<1>6. ASSUME NEW g \in Goals, WhatsYourStatus(g)
      PROVE  UNCHANGED <<state, asked, reply>>
  BY <1>6, WhatsYourStatusKeeps DEF WhatsYourStatus, boxVars, clientVars
<1>7. ASSUME NEW g \in Goals
      PROVE  ~RetryAgentStep(g) /\ ~AbortGoal(g)
  <2>1. timers[g] = 0 /\ ~retryUp[g] /\ aborts \in Nat /\ (Abortable = {} \/ MaxAborts = 0)
    BY DEF ServiceInv, Own, Calm, Undisturbed, TypeOK, ClientTypeOK
  <2>2. ~RetryAgentStep(g)
    BY <2>1 DEF RetryAgentStep, AgentGoalFailure, AgentGoalSuccess, RestartTimer, RetryReceived
  <2>3. AbortGoal(g) => Abortable # {} /\ aborts < MaxAborts
    BY DEF AbortGoal
  <2>. QED  BY <2>1, <2>2, <2>3
<1>. QED  BY <1>1, <1>2, <1>3, <1>4, <1>5, <1>6, <1>7 DEF Next

\* Every goal is decided once, satisfied only over satisfied dependencies, and every
\* client is told the verdict of the goal it asked for: ImplementsService, but for
\* the fairness of GoalService.
THEOREM ServiceIsSafe ==
  ASSUME Undisturbed, FALSE \notin ForceModes
  PROVE  Spec => Service!Init /\ [][Service!Next]_(Service!vars)
<1>1. TypeOK /\ ServiceInv /\ [Next]_vars => [Service!Next]_(Service!vars)
  BY StepTyped, StepServes, StepService
<1>. QED  BY <1>1, InitService, ServiceInvariant, PTL DEF Spec
=============================================================================

----------------------------- MODULE GoalService -----------------------------
(* What the engine promises its clients, without actors, messages or jobs:   *)
(* every goal comes to one verdict, satisfied only over satisfied            *)
(* dependencies, and a client is told the verdict of the goal it asked for.  *)
CONSTANTS
  Goals, Clients,
  Prerequisites,  \* Prerequisites[g]: the goals g depends on
  NoValue

VARIABLES
  verdict,    \* "open" until the goal is decided
  asked,      \* the goal a client asked for, or NoValue
  reply       \* "none", "waiting", or what the client was told

vars == <<verdict, asked, reply>>

Told(v) == IF v = "satisfied" THEN "GoalSuccess" ELSE "GoalFailure"

Init == /\ verdict = [g \in Goals |-> "open"]
        /\ asked = [c \in Clients |-> NoValue]
        /\ reply = [c \in Clients |-> "none"]

Ask(c, g) == /\ asked[c] = NoValue
             /\ asked' = [asked EXCEPT ![c] = g]
             /\ reply' = [reply EXCEPT ![c] = "waiting"]
             /\ UNCHANGED verdict

\* The verdict reaches the clients the goal has already heard of at once.
Decide(g, v, heard) ==
  /\ verdict[g] = "open"
  /\ v = "satisfied" => \A d \in Prerequisites[g] : verdict[d] = "satisfied"
  /\ verdict' = [verdict EXCEPT ![g] = v]
  /\ \A c \in heard : asked[c] = g /\ reply[c] = "waiting"
  /\ reply' = [c \in Clients |-> IF c \in heard THEN Told(v) ELSE reply[c]]
  /\ UNCHANGED asked

Answer(c) ==
  /\ reply[c] = "waiting"
  /\ verdict[asked[c]] # "open"
  /\ reply' = [reply EXCEPT ![c] = Told(verdict[asked[c]])]
  /\ UNCHANGED <<verdict, asked>>

Next == \/ \E c \in Clients, g \in Goals : Ask(c, g)
        \/ \E g \in Goals, v \in {"satisfied", "failed"}, h \in SUBSET Clients :
             Decide(g, v, h)
        \/ \E c \in Clients : Answer(c)

\* A decided client is told; a goal someone waits for is decided.
Fairness ==
  /\ \A c \in Clients : WF_vars(Answer(c))
  /\ \A c \in Clients, g \in Goals :
       WF_vars(/\ asked[c] = g /\ reply[c] = "waiting"
               /\ \E v \in {"satisfied", "failed"}, h \in SUBSET Clients :
                    Decide(g, v, h))

Spec == Init /\ [][Next]_vars /\ Fairness
=============================================================================

----------------------------- MODULE GoalStatus -----------------------------
(* The life of one goal as GoalStatus.scala records it: the states of the    *)
(* GoalState enumeration, the predicates on them, and the two methods that   *)
(* decide the state after an execution or an unexpected exception.  Queued   *)
(* and Forced are declared by the enumeration and never assigned.            *)

\* Finished well: a dependent goal may go ahead (GoalStatus.canProceed).
Satisfied == {"Success", "AlreadySatisfied"}

\* Finished badly: a requester is told GoalFailure.
Unsatisfied == {"Failed", "DependencyFailed", "Aborted"}

\* Still being worked on, or not asked for yet.
Unfinished ==
  {"Unstarted", "CheckingEvidence", "WaitingOnDependencies", "Running"}

GoalState == Satisfied \cup Unsatisfied \cup Unfinished

CanProceed(s) == s \in Satisfied

\* markExecution: a successful execution always wins, a failed one leaves an
\* aborted goal aborted.
MarkExecution(s, success) ==
  CASE success                     -> "Success"
    [] ~success /\ s = "Aborted"   -> "Aborted"
    [] ~success /\ s # "Aborted"   -> "Failed"

MarkUnexpected == "Failed"
=============================================================================

--------------------------- MODULE EvidenceChecker ---------------------------
(* The actor that looks for one evidence of a goal in a future, so that the  *)
(* prover is not held up.  Its answer, or JobRunFailed if the check throws,  *)
(* goes to the prover whatever that is doing by then.                        *)
EXTENDS EngineState

CONSTANTS
  CheckOutcomes,  \* which of the outcomes below a check may have
  MaxResends      \* bound: CheckEvidence messages sent again, in all

ASSUME CheckOutcomesType == /\ CheckOutcomes \subseteq {"exists", "missing", "throws"}
                            /\ MaxResends \in Nat

CheckCompletes(g, id, outcome) ==
  /\ id \in probes[g]
  /\ probes' = [probes EXCEPT ![g] = @ \ {id}]
  /\ Quiet([mailbox EXCEPT ![g] =
              Append(@, IF outcome = "throws" THEN JobMsg("JobRunFailed")
                        ELSE EvidenceMsg(id, outcome = "exists"))])
  /\ UNCHANGED <<proverVars, evidenceActors, resends, runnerVars, retryVars,
                 clientVars>>

\* checkEvidenceMethod reschedules itself every 60 seconds while the state it
\* reads is CheckingEvidence.
CheckAgain(g, id) ==
  /\ resends < MaxResends
  /\ state[g] = "CheckingEvidence"
  /\ id \in checkers[g] \ probes[g]
  /\ probes' = [probes EXCEPT ![g] = @ \cup {id}]
  /\ resends' = resends + 1
  /\ UNCHANGED <<proverVars, boxVars, evidenceActors, runnerVars, retryVars,
                 clientVars>>

EvidenceCheckerStep(g) ==
  \/ \E id \in probes[g], o \in CheckOutcomes : CheckCompletes(g, id, o)
  \/ \E id \in checkers[g] : CheckAgain(g, id)
=============================================================================

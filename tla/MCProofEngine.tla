---------------------------- MODULE MCProofEngine ----------------------------
(* Small instances of ProofEngine for TLC: a goal with two dependencies, and  *)
(* two goals that share one.                                                 *)
EXTENDS ProofEngine

CONSTANTS p, a, b, w1, c1, c2

\* Entries that lead to goals of the instance only.
Within(es) == {e \in es : e[2] \in Goals}

PairDependencies ==
  [g \in Goals |-> Within(IF g = p THEN {<<w1, a>>, <<w1, b>>} ELSE {})]
SharedDependencies ==
  [g \in Goals |-> Within(IF g \in {p, b} THEN {<<w1, a>>} ELSE {})]

\* p and a have one evidence each; p alone; nobody.
SomeEvidence == [g \in Goals |-> IF g \in {p, a} THEN 1 ELSE 0]
TopEvidence == [g \in Goals |-> IF g = p THEN 1 ELSE 0]
NoEvidence == [g \in Goals |-> 0]
=============================================================================

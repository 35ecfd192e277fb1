--------------------------- MODULE MCHistoryAgent ---------------------------
EXTENDS HistoryAgent

CONSTANTS p, q, a

\* Both p and q depend on a.
SharedDependency == [g \in Goals |-> IF g \in {p, q} THEN {a} ELSE {}]
=============================================================================

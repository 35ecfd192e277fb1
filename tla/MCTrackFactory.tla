--------------------------- MODULE MCTrackFactory ---------------------------
EXTENDS TrackFactory

CONSTANTS prod, test

\* Every version of every track can be scheduled, under the one name.
OneName == [t \in Tracks |-> "name"]
AllValid == [t \in Tracks |-> [v \in Versions |-> "valid"]]
\* Quartz cannot read the schedule of test.
TestInvalid ==
  [t \in Tracks |-> [v \in Versions |-> IF t = test THEN "invalid" ELSE "valid"]]
\* The second version is not scheduled.
SecondNone == [t \in Tracks |-> [v \in Versions |-> IF v = 2 THEN "none" ELSE "valid"]]
=============================================================================

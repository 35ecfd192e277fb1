---------------------------- MODULE TrackHistory ----------------------------
(* The table of runs as JDBCSlickTrackHistory keeps it: a sequence of rows,  *)
(* whose ids are their places, of one track.  Times and users are left out.  *)
EXTENDS Naturals, Sequences

CONSTANT NoRun

Row(goal, parent) ==
  [goal |-> goal, parent |-> parent, state |-> "Running", ended |-> FALSE]

\* The id a new row gets; and, a bug, ids counted from nought.
NewIdFromZero(rows) == Len(rows)
NewId(rows) == Len(rows) + 1

\* startRun when there is no parent, startSubGoalRun when there is one.
StartRun(rows, goal, parent) == Append(rows, Row(goal, parent))

\* An update of no row when there is none of that id.
CompleteRun(rows, id, state) ==
  [i \in DOMAIN rows |->
     IF i = id THEN [rows[i] EXCEPT !.state = state, !.ended = TRUE] ELSE rows[i]]
=============================================================================

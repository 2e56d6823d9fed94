------------------------------- MODULE MCHost -------------------------------
(* A small instance of Host for TLC: two callers of the collector, a ring of  *)
(* up to three samples, a window of up to six.                                *)
EXTENDS Host, TLC

CONSTANTS run, broadcaster

TwoCallers == {run, broadcaster}

\* The callers do the same.
CallerSymmetry == Permutations(TwoCallers)

\* Windows longer and shorter than the retention, the second with a point count
\* that Range has to correct.
TwoQueries == {[dur |-> 6, points |-> 2], [dur |-> 2, points |-> 0]}

\* Everything in the window, in 1 to 4 points.
AllQueries == [dur : {WindowTime}, points : 1 .. 4]
=============================================================================

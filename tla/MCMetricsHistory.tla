-------------------------- MODULE MCMetricsHistory --------------------------
(* Small instances of MetricsHistory for TLC. *)
EXTENDS MetricsHistory

\* Everything in the ring, in 1 to 4 points.
AllWindow == [dur : {MaxTime}, points : 1..4]

\* Every ring, and nothing but Range calls on it.
FilledInit == Filled(MaxLen, MaxTime)

FilledNext == \/ \E q \in Queries : RangeBegins(q)
              \/ RangeReads

FilledSpec == FilledInit /\ [][FilledNext]_vars
=============================================================================

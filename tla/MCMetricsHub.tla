---------------------------- MODULE MCMetricsHub ----------------------------
(* Small instances of MetricsHub for TLC. *)
EXTENDS MetricsHub, TLC

CONSTANTS c1, c2

TwoClients == {c1, c2}
OneClient  == {c1}

\* The safety properties do not tell two connections apart.
ClientSymmetry == Permutations(TwoClients)
=============================================================================

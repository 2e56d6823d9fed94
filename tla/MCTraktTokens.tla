---------------------------- MODULE MCTraktTokens ----------------------------
(* Small instances of TraktTokens for TLC. *)
EXTENDS TraktTokens, TLC

CONSTANTS r1, r2, r3, u1, u2

ThreeRequests == {r1, r2, r3}
TwoUsers      == {u1, u2}

Symmetric == Permutations(Requests) \cup Permutations(Users)
=============================================================================

------------------------------- MODULE MCTrakt -------------------------------
(* A small instance of Trakt for TLC: the login with two browsers and a page, *)
(* the store with three concurrent requests.                                  *)
EXTENDS Trakt, MCTraktLogin, TLC

CONSTANTS r1, r2, r3

ThreeRequests == {r1, r2, r3}

\* The requests of the store do not tell each other apart.
StoreSymmetry == Permutations(StoreRequests)

\* The environment gives a client id and nothing else.
IdEnv == [id |-> 1, secret |-> 0, redirect |-> 0]
=============================================================================

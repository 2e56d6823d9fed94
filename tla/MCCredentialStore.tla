------------------------- MODULE MCCredentialStore -------------------------
(* A small instance of CredentialStore for TLC. *)
EXTENDS CredentialStore, TLC

CONSTANTS r1, r2

TwoRequests == {r1, r2}

RequestSymmetry == Permutations(Requests)

\* The environment gives a client id and nothing else.
SomeEnv == [id |-> 1, secret |-> 0, redirect |-> 0]
=============================================================================

---------------------------- MODULE MCTraktLogin ----------------------------
(* Small instances of TraktLogin for TLC. *)
EXTENDS TraktLogin

CONSTANTS b1, b2, p1, near, far

TwoBrowsers == {b1, b2}
OnePage     == {p1}
TwoHosts    == {near, far}

\* The two derived URIs, and a third one that leads to the second host.
MCHostOf  == [u \in 1..3 |-> IF u = 1 THEN near ELSE far]
MCDerived == [h \in TwoHosts |-> IF h = near THEN 1 ELSE 2]

\* The environment leaves the URI blank.
BlankEnv  == [id |-> 1, secret |-> 1, redirect |-> 0]
NoPage == {}
=============================================================================

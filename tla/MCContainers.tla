---------------------------- MODULE MCContainers ----------------------------
(* The modules about containers on small instances for TLC.                   *)
EXTENDS Containers

CONSTANTS x, y, p1, p2, s1, s2

TwoIds == {x, y}
TwoPolls == {p1, p2}
TwoStreams == {s1, s2}

\* What the containers x and y log; the logs that are cut into events.
LinesOf == [c \in {x, y} |-> IF c = x THEN 3 ELSE 1]
\* In base 3 with 2 for a newline, the headers of lines of 2 and 5 end in one, and
\* that of a line of 6 has one before a low byte.
ShortLogs == UNION {[1 .. n -> {1, 2, 3}] : n \in 1 .. 2} \cup {<<4>>, <<5>>, <<6>>}
=============================================================================

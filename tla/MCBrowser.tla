----------------------------- MODULE MCBrowser -----------------------------
(* A small instance of Browser for TLC. *)
EXTENDS Browser

CONSTANTS s1, s2, s3, s4, w1, w2, x, y, z, c

FourSockets == {s1, s2, s3, s4}

\* Ticks that the ranges of the charts are wide, and points they have.
TwoRanges == {"1m", "1h"}
Width == [r \in TwoRanges |-> IF r = "1m" THEN 2 ELSE 4]
Points == [r \in TwoRanges |-> IF r = "1m" THEN 4 ELSE 2]
OneBack == {-2}

\* Films on the two lists; 0 has no TMDB id, the second is on both.
ThreeFilms == 1 .. 3
Watchlist == <<1, 0, 2>>
Watched == <<2, 2, 3>>
BrokenFilms == {{}, {1}, {3}, {1, 2}}

\* Widgets with their widths, the themes, and what an older version stored.
TwoWindows == {w1, w2}
Widgets == <<x, y, z>>
Spans == [id \in {x, y, z} |-> IF id = y THEN 1 ELSE 2]
Themes == [t \in {"oled", "light"} |-> [k \in {"bg"} |-> IF t = "oled" THEN 1 ELSE 2]]
OneContainer == {c}
LegacyY == {{y}}
=============================================================================

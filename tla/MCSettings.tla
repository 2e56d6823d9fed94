----------------------------- MODULE MCSettings -----------------------------
(* A small instance of Settings for TLC. *)
EXTENDS Settings

CONSTANTS x, y, w1, c

OneWindow == {w1}
TwoWidgets == <<x, y>>
Spans == [id \in {x, y} |-> IF id = y THEN 1 ELSE 2]
OneTheme == [t \in {"oled"} |-> [k \in {"bg"} |-> 1]]
OneContainer == {c}

\* An older version stored y as the only widget that is on.
LegacyY == {{y}}
=============================================================================

----------------------------- MODULE MCMuseHub -----------------------------
(* Small instances of MuseHub for TLC: one session that two lanes hand over, *)
(* and one lane that moves between two sessions.                             *)
EXTENDS MuseHub

CONSTANTS s1, s2, l1, l2

McSessions == {s1, s2}
McOneSession == {s1}
McLanes == {l1, l2}
McOneLane == {l1}

McHints == {"held", "stale"}
McOneHint == {"other"}
=============================================================================

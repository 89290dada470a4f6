--------------------------- MODULE MCCodexChild ---------------------------
(* A small instance of CodexChild for TLC: two turns, and a detached read.  *)
(* The turns are alike, and no property of the run is a liveness property.  *)
EXTENDS CodexChild, TLC

CONSTANTS t1, t2, d1

MCTurns == {t1, t2}
MCDetached == {d1}
TurnsAreAlike == Permutations(MCTurns)
=============================================================================

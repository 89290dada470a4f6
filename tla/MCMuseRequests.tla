--------------------------- MODULE MCMuseRequests ---------------------------
(* Small instances of MuseRequests for TLC: one ordinary call and the request *)
(* of a gap-fill thread, which shutdown has to join.                          *)
EXTENDS MuseRequests

CONSTANTS a, g, none

McCalls == {a, g}
McFills == {g}
=============================================================================

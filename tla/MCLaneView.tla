----------------------------- MODULE MCLaneView -----------------------------
(* Small instances of LaneView for TLC. *)
EXTENDS LaneView

MCBoth == {"claude", "codex"}
=============================================================================

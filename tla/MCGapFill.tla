------------------------------ MODULE MCGapFill ------------------------------
(* GapFill for TLC: every constant is a small number, given in the .cfg files. *)
EXTENDS GapFill
=============================================================================

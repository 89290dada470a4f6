---------------------------- MODULE MCApprovals ----------------------------
(* Small instances of Approvals for TLC: r1 gates a command, r2 a file change. *)
EXTENDS Approvals

CONSTANTS r1, r2

MCBoth == {"claude", "codex"}
MCRequests == {r1, r2}
MCOneRequest == {r1}
=============================================================================

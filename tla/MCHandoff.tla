----------------------------- MODULE MCHandoff -----------------------------
(* A small instance of Handoff for TLC: a session in the window, one stored  *)
(* (a second source once it is reopened), and room for two new ones.         *)
EXTENDS Handoff, TLC

CONSTANTS a, o, n1, n2, muse, claude, codex

McSessions == {a, o, n1, n2}
McLanes == {muse, claude, codex}
McClosing == {codex}
McHere == {a}
McStored == {o}
McHome == (a :> claude) @@ (o :> codex)
=============================================================================

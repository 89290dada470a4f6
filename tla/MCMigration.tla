---------------------------- MODULE MCMigration ----------------------------
(* A small instance of Migration for TLC: one session with a transcript and  *)
(* its companion directory.                                                  *)
EXTENDS Migration, TLC

CONSTANTS s, transcript, companion

McSessions == {s}
McFiles == {transcript, companion}
McOwner == (transcript :> s) @@ (companion :> s)
=============================================================================

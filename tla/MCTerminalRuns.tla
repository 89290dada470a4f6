-------------------------- MODULE MCTerminalRuns --------------------------
(* Small instances of TerminalRuns for TLC: tab 1 is the person's first.    *)
EXTENDS TerminalRuns

CONSTANTS c1, c2

MCTwoCalls == {c1, c2}

Asks(tool, pick, tab, wait) == [tool |-> tool, pick |-> pick, tab |-> tab, wait |-> wait]

(* Every way to choose a tab and to wait, and every other tool on the       *)
(* person's tab or on the first one opened after it, the person's too.      *)
MCRequests ==
    {Asks("run", "auto", 0, "exit"), Asks("run", "auto", 0, "none"),
     Asks("run", "new", 0, "none"), Asks("run", "named", 1, "exit"),
     Asks("open", "new", 0, "none")}
    \cup {Asks("send", "named", tab, "none") : tab \in {1, 2}}
    \cup {Asks("close", "named", 2, "none")}

(* The tools that decide whose program the keys of terminal_send reach.     *)
MCRunAndSend == {Asks("run", "auto", 0, "exit"), Asks("send", "named", 1, "none")}
=============================================================================

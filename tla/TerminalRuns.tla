--------------------------- MODULE TerminalRuns ---------------------------
(* The agent's terminal tools: terminal/service.rs over terminal/host.rs.   *)
(*                                                                          *)
(* A socket thread reads one call of an agent, queues it and blocks on its  *)
(* reply channel (serve_conn). The UI thread passes over the queue (drain): *)
(* it executes every job taken, then polls the runs that wait for their     *)
(* block and the watches that still owe a block the agent's mark. A command *)
(* is only bytes for the tab's shell: the shell reads them when it likes,   *)
(* and only then is there a block, if the shell runs the line at all and no *)
(* ctrl-C flushed it before. Until then the tab reads as idle.              *)
(*                                                                          *)
(* The person types into the same tabs, and shares the UI thread with the   *)
(* pass, so what the person does falls between two passes, never inside.    *)
(*                                                                          *)
(* One project, every calling session registered. The tools that only read  *)
(* (terminal_list, _read, _screen) and the refusals of a malformed call     *)
(* answer at once and change nothing, and are left out.                     *)
EXTENDS Naturals, Sequences, FiniteSets, SequencesExt

CONSTANTS
    Calls,      \* the tool calls of the agents
    Person,     \* who types what no call pasted
    Requests,   \* what a call may ask: [tool, pick, tab, wait]
    MaxActs     \* bound: things the person does in the dock

ASSUME NotACall == Person \notin Calls
ASSUME ActsAreCounted == MaxActs \in Nat
ASSUME RequestsAreOfTools ==
    Requests \subseteq [tool : {"run", "open", "send", "close"}, pick : {"auto", "new", "named"},
                        tab : Nat, wait : {"none", "exit"}]

VARIABLES
    call,     \* each call: "unsent", "queued", "taken", "waiting" or "answered"
    asked,    \* the request its job carries, until the job is executed
    queue,    \* Shared.queue: jobs no pass has taken
    batch,    \* the jobs of this pass still to execute
    ui,       \* where the UI thread is in drain
    tabs,     \* TerminalHost.tabs by id: owner, open, input, blocks
    active,   \* the project's active tab, 0 for none
    pending,  \* Shared.pending: [of, tab, before]
    marks,    \* Shared.marks: [of, tab, before]
    due,      \* calls whose deadline has passed
    acts,     \* what the person has done so far
    answer,   \* history: whose block each reply to a call reports (its own, if none)
    quiet,    \* history: runs pasted at a prompt with nothing typed ahead
    lost,     \* history: calls whose line the shell discarded or a ctrl-C flushed
    calm,     \* history: tabs a pass left with nothing of the agent's under way
    reached   \* history: whose running program the agent's keys went to

vars == <<call, asked, queue, batch, ui, tabs, active, pending, marks, due,
          acts, answer, quiet, lost, calm, reached>>
callVars == <<call, asked, queue, batch, answer>>
historyVars == <<quiet, lost, calm, reached>>
waitVars == <<callVars, ui, pending, marks, due>>
serviceVars == <<waitVars, historyVars>>

NoRequest == [tool |-> "none", pick |-> "auto", tab |-> 0, wait |-> "none"]

TabIds == 1 .. Len(tabs)
Open(t) == t \in TabIds /\ tabs[t].open

Running(t) == {i \in DOMAIN tabs[t].blocks : tabs[t].blocks[i].running}
AtPrompt(t) == Open(t) /\ Running(t) = {}

(* A tab is busy while a block of it runs (or a full-screen program does,    *)
(* which is a running block to the shell). A pasted line that the shell has  *)
(* not read yet does not count.                                              *)
Busy(t) == Running(t) # {}

NewTab(owner) == [owner |-> owner, open |-> TRUE, input |-> <<>>, blocks |-> <<>>]

(* pick_tab: the active tab, when the project has one and it is idle.        *)
Idle(t) == Open(t) /\ ~Busy(t)

(* What `terminal_send` reads in the person's tab: the running block's mark. *)
AgentRunning(t) ==
    Busy(t) /\ tabs[t].blocks[Min(Running(t))].author = "agent"

Init ==
    /\ call = [c \in Calls |-> "unsent"]
    /\ asked = [c \in Calls |-> NoRequest]
    /\ queue = <<>>
    /\ batch = <<>>
    /\ ui = "idle"
    /\ tabs = <<NewTab("user")>>
    /\ active = 1
    /\ pending = {}
    /\ marks = {}
    /\ due = {}
    /\ acts = 0
    /\ answer = [c \in Calls |-> <<>>]
    /\ quiet = {}
    /\ lost = {}
    /\ calm = {1}
    /\ reached = {}

-----------------------------------------------------------------------------
(* The socket threads.                                                       *)

(* A call is read off its connection, queued, and the pump is woken.         *)
Ask(c, r) ==
    /\ call[c] = "unsent"
    /\ call' = [call EXCEPT ![c] = "queued"]
    /\ asked' = [asked EXCEPT ![c] = r]
    /\ queue' = Append(queue, c)
    /\ UNCHANGED <<batch, ui, tabs, active, pending, marks, due, acts, answer,
                   historyVars>>

-----------------------------------------------------------------------------
(* The UI thread: one pass of drain.                                         *)

(* The pump wakes while anything waits. The whole queue is taken at once.    *)
StartPass ==
    /\ ui = "idle"
    /\ queue # <<>> \/ pending # {} \/ marks # {}
    /\ ui' = "jobs"
    /\ batch' = queue
    /\ queue' = <<>>
    /\ call' = [c \in Calls |-> IF c \in Range(queue) THEN "taken" ELSE call[c]]
    /\ UNCHANGED <<asked, tabs, active, pending, marks, due, acts, answer,
                   historyVars>>

Reply(c) ==
    /\ call' = [call EXCEPT ![c] = "answered"]
    /\ answer' = [answer EXCEPT ![c] = Append(@, c)]

Refuse(c) ==
    /\ Reply(c)
    /\ UNCHANGED <<tabs, active, pending, marks, quiet, lost, calm, reached>>

(* Paste the command and Enter into tab t of ts. Which block will be the     *)
(* command's is decided here, by counting the blocks there are.              *)
PasteInto(c, ts, t) ==
    LET watch == [of |-> c, tab |-> t, before |-> Len(ts[t].blocks)] IN
    /\ tabs' = [ts EXCEPT ![t].input = Append(@, c)]
    /\ quiet' = IF ts[t].input = <<>> THEN quiet \cup {c} ELSE quiet
    /\ calm' = calm \ {t}
    /\ \/ /\ asked[c].wait = "none"
          /\ Reply(c)
          /\ marks' = marks \cup {watch}
          /\ UNCHANGED pending
       \/ /\ asked[c].wait = "exit"
          /\ call' = [call EXCEPT ![c] = "waiting"]
          /\ pending' = pending \cup {watch}
          /\ UNCHANGED <<answer, marks>>
    /\ UNCHANGED <<lost, reached>>

RunInNewTab(c) ==
    /\ PasteInto(c, Append(tabs, NewTab("agent")), Len(tabs) + 1)
    /\ active' = Len(tabs) + 1

(* terminal_run, its three ways to choose a tab.                             *)
Run(c) ==
    /\ asked[c].tool = "run"
    /\ \/ asked[c].pick = "new" /\ RunInNewTab(c)
       \/ asked[c].pick = "auto" /\ Idle(active) /\ PasteInto(c, tabs, active) /\ UNCHANGED active
       \/ asked[c].pick = "auto" /\ ~Idle(active) /\ RunInNewTab(c)
       \/ asked[c].pick = "named" /\ ~Idle(asked[c].tab) /\ Refuse(c)
       \/ /\ asked[c].pick = "named" /\ Idle(asked[c].tab)
          /\ PasteInto(c, tabs, asked[c].tab)
          /\ UNCHANGED active

(* terminal_open: a tab of the agent's, made active.                         *)
OpenTab(c) ==
    /\ asked[c].tool = "open"
    /\ tabs' = Append(tabs, NewTab("agent"))
    /\ active' = Len(tabs) + 1
    /\ Reply(c)
    /\ UNCHANGED <<pending, marks, quiet, lost, calm, reached>>

(* A ctrl-C written to a tab flushes what was entered and nobody has read. A *)
(* running block may end of it (BlockEnds).                                  *)
Interrupt(t) ==
    /\ tabs' = [tabs EXCEPT ![t].input = <<>>]
    /\ lost' = lost \cup (Range(tabs[t].input) \cap Calls)

(* terminal_send: keys for the agent's own tab at any time, for the person's *)
(* only while the block that runs there carries the agent's mark. The keys   *)
(* are a line or a ctrl-C.                                                   *)
Send(c) ==
    LET t == asked[c].tab IN
    /\ asked[c].tool = "send"
    /\ \/ ~Open(t) /\ Refuse(c)
       \/ Open(t) /\ tabs[t].owner = "user" /\ ~AgentRunning(t) /\ Refuse(c)
       \/ /\ Open(t)
          /\ tabs[t].owner = "user" => AgentRunning(t)
          /\ \/ tabs' = [tabs EXCEPT ![t].input = Append(@, c)] /\ UNCHANGED lost
             \/ Interrupt(t)
          /\ calm' = calm \ {t}
          /\ reached' = IF tabs[t].owner = "user"
                        THEN reached \cup {tabs[t].blocks[Min(Running(t))].by}
                        ELSE reached
          /\ Reply(c)
          /\ UNCHANGED <<active, pending, marks, quiet>>

(* host.close: the shell dies with the tab, and when it was the active one   *)
(* the youngest tab left becomes active.                                     *)
CloseTab(t) ==
    LET left == {u \in TabIds : tabs[u].open} \ {t} IN
    /\ tabs' = [tabs EXCEPT ![t] = [NewTab(@.owner) EXCEPT !.open = FALSE]]
    /\ active' = IF active # t THEN active
                 ELSE IF left = {} THEN 0 ELSE Max(left)
    /\ calm' = calm \ {t}

(* terminal_close: only a tab the agent opened.                              *)
Close(c) ==
    LET t == asked[c].tab IN
    /\ asked[c].tool = "close"
    /\ \/ ~Open(t) /\ Refuse(c)
       \/ Open(t) /\ tabs[t].owner = "user" /\ Refuse(c)
       \/ /\ Open(t)
          /\ tabs[t].owner = "agent"
          /\ CloseTab(t)
          /\ Reply(c)
          /\ UNCHANGED <<pending, marks, quiet, lost, reached>>

(* One job of the batch, whole.                                              *)
Execute ==
    /\ ui = "jobs"
    /\ batch # <<>>
    /\ LET c == Head(batch) IN Run(c) \/ OpenTab(c) \/ Send(c) \/ Close(c)
    /\ asked' = [asked EXCEPT ![Head(batch)] = NoRequest]
    /\ batch' = Tail(batch)
    /\ UNCHANGED <<queue, ui, due, acts>>

-----------------------------------------------------------------------------
(* stamp_agent for a set of watches: every block since each one's count.     *)
Stamped(watches) ==
    [t \in TabIds |->
        [tabs[t] EXCEPT !.blocks = [i \in DOMAIN @ |->
            IF \E w \in watches : w.tab = t /\ i > w.before
            THEN [@[i] EXCEPT !.author = "agent"] ELSE @[i]]]]

BlockFormed(w) == Len(tabs[w.tab].blocks) > w.before
(* Mutant: the tab's last block is taken for the run's.                      *)
LastBlock(w) == Last(tabs[w.tab].blocks)
BlockOf(w) == tabs[w.tab].blocks[w.before + 1]
Finished(w) == BlockFormed(w) /\ ~BlockOf(w).running

(* Mutant: a run whose tab is gone is passed over, not answered.             *)
OutcomeSkipsTheClosed(w) ==
    CASE ~Open(w.tab) -> "unfinished"
      [] Open(w.tab) /\ Finished(w) -> "exited"
      [] Open(w.tab) /\ ~Finished(w) /\ w.of \in due -> "timeout"
      [] OTHER -> "unfinished"

Outcome(w) ==
    CASE ~Open(w.tab) -> "closed"
      [] Open(w.tab) /\ Finished(w) -> "exited"
      [] Open(w.tab) /\ ~Finished(w) /\ w.of \in due -> "timeout"
      [] OTHER -> "unfinished"

(* A timeout leaves a watch, so that the block still earns the mark.         *)
NoWatchLeft(w) == FALSE  \* mutant
LeavesAWatch(w) == Outcome(w) = "timeout"

(* A watch retires when its block has closed or its tab is gone.             *)
RetiresWithTheTab(w) == ~Open(w.tab)  \* mutant
Retires(w) == ~Open(w.tab) \/ Finished(w)

(* Nothing of the agent's is under way: no line of its own is unread, and    *)
(* nothing runs.                                                             *)
Settled(t) == AtPrompt(t) /\ Range(tabs[t].input) \cap Calls = {}

(* The tabs where a watch is left of a line that was lost: no block of its   *)
(* own will ever retire it.                                                  *)
Owed(watches) == {w.tab : w \in {v \in watches : v.of \in lost}}

(* The pass ends with poll_runs and poll_marks. Every waiting run is         *)
(* stamped, then answered when its tab is gone, its block has closed, or its *)
(* deadline has passed; every watch stamps. What a shell prints between the  *)
(* two polls counts as printed after them.                                   *)
Poll ==
    LET answered == {w \in pending : Outcome(w) # "unfinished"}
        watching == marks \cup {w \in answered : LeavesAWatch(w)}
        of(c) == {w \in answered : w.of = c} IN
    /\ ui = "jobs"
    /\ batch = <<>>
    /\ ui' = "idle"
    /\ tabs' = Stamped(pending \cup marks)
    /\ answer' = [c \in Calls |->
           answer[c] \o SetToSeq({IF Open(w.tab) /\ BlockFormed(w) THEN BlockOf(w).by ELSE c
                                  : w \in of(c)})]
    /\ call' = [c \in Calls |-> IF of(c) # {} THEN "answered" ELSE call[c]]
    /\ pending' = pending \ answered
    /\ due' = due \ {w.of : w \in answered}
    /\ marks' = {w \in watching : ~Retires(w)}
    /\ calm' = {t \in TabIds : Settled(t)} \ Owed(pending' \cup marks')
    /\ UNCHANGED <<asked, queue, batch, active, acts, quiet, lost, reached>>

(* The clock reaches a waiting run's deadline.                               *)
DeadlinePasses(c) ==
    /\ call[c] = "waiting"
    /\ c \notin due
    /\ due' = due \cup {c}
    /\ UNCHANGED <<call, asked, queue, batch, ui, tabs, active, pending, marks,
                   acts, answer, historyVars>>

-----------------------------------------------------------------------------
(* The shell of a tab, and the programs it runs.                             *)

(* At its prompt the shell takes the next line and runs it: a block (the     *)
(* hooks announce it before the command). `calm` in the block is history.    *)
ShellReads(t) ==
    /\ AtPrompt(t)
    /\ tabs[t].input # <<>>
    /\ tabs' = [tabs EXCEPT
           ![t].input = Tail(@),
           ![t].blocks = Append(@, [by |-> Head(tabs[t].input), running |-> TRUE,
                                    author |-> "human", calm |-> t \in calm])]
    /\ UNCHANGED <<serviceVars, active, acts>>

(* A line it cannot run, one that does not parse or that it waits to see the *)
(* rest of, has no block.                                                    *)
ShellDiscards(t) ==
    /\ AtPrompt(t)
    /\ tabs[t].input # <<>>
    /\ tabs' = [tabs EXCEPT ![t].input = Tail(@)]
    /\ lost' = lost \cup ({Head(tabs[t].input)} \cap Calls)
    /\ UNCHANGED <<waitVars, quiet, calm, reached, active, acts>>

(* A running program may take a line meant for it, or for the shell.         *)
ProgramReads(t) ==
    /\ Open(t)
    /\ Running(t) # {}
    /\ tabs[t].input # <<>>
    /\ tabs' = [tabs EXCEPT ![t].input = Tail(@)]
    /\ UNCHANGED <<serviceVars, active, acts>>

BlockEnds(t) ==
    /\ Open(t)
    /\ \E i \in Running(t) :
           tabs' = [tabs EXCEPT ![t].blocks[i].running = FALSE]
    /\ UNCHANGED <<serviceVars, active, acts>>

-----------------------------------------------------------------------------
(* The person, on the UI thread, between two passes.                         *)

Acts ==
    /\ ui = "idle"
    /\ acts < MaxActs
    /\ acts' = acts + 1

Types(t) ==
    /\ tabs' = [tabs EXCEPT ![t].input = Append(@, Person)]
    /\ UNCHANGED active

OpensWith(lines) ==
    /\ tabs' = Append(tabs, [NewTab("user") EXCEPT !.input = lines])
    /\ active' = Len(tabs) + 1

(* A line entered in a tab. The person may type ahead of a running command.  *)
PersonTypes(t) == Acts /\ Open(t) /\ Types(t) /\ UNCHANGED serviceVars

(* A new tab of the person's, made active.                                   *)
PersonOpens == Acts /\ OpensWith(<<>>) /\ UNCHANGED serviceVars

(* Rerun a block: in its tab when that is idle, else in a new one.           *)
PersonReruns(t) ==
    /\ Acts
    /\ Open(t)
    /\ tabs[t].blocks # <<>>
    /\ \/ Idle(t) /\ Types(t)
       \/ ~Idle(t) /\ OpensWith(<<Person>>)
    /\ UNCHANGED serviceVars

(* Ctrl-C, from the dock's keyboard or a block's Stop: to the active tab.    *)
PersonInterrupts ==
    /\ Acts
    /\ active # 0
    /\ Interrupt(active)
    /\ UNCHANGED <<waitVars, quiet, calm, reached, active>>

PersonActivates(t) ==
    /\ Acts
    /\ Open(t)
    /\ active # t
    /\ active' = t
    /\ UNCHANGED <<serviceVars, tabs>>

PersonCloses(t) ==
    /\ Acts
    /\ Open(t)
    /\ CloseTab(t)
    /\ UNCHANGED <<waitVars, quiet, lost, reached>>

-----------------------------------------------------------------------------
Pass == StartPass \/ Execute \/ Poll

Next ==
    \/ \E c \in Calls, r \in Requests : Ask(c, r)
    \/ Pass
    \/ \E c \in Calls : DeadlinePasses(c)
    \/ \E t \in TabIds :
          ShellReads(t) \/ ShellDiscards(t) \/ ProgramReads(t) \/ BlockEnds(t)
          \/ PersonTypes(t) \/ PersonReruns(t) \/ PersonActivates(t) \/ PersonCloses(t)
    \/ PersonOpens \/ PersonInterrupts

Spec == Init /\ [][Next]_vars

(* The pump's timer fires again and again, and deadlines pass. Nothing is    *)
(* asked of the shells, of their programs or of the person.                  *)
FairSpec == Spec /\ WF_vars(Pass) /\ WF_vars(\E c \in Calls : DeadlinePasses(c))

-----------------------------------------------------------------------------
Lines == Calls \cup {Person}
Watches == [of : Calls, tab : Nat, before : Nat]

TypeOK ==
    /\ call \in [Calls -> {"unsent", "queued", "taken", "waiting", "answered"}]
    /\ asked \in [Calls -> Requests \cup {NoRequest}]
    /\ Range(queue) \cup Range(batch) \subseteq Calls
    /\ ui \in {"idle", "jobs"}
    /\ \A t \in TabIds :
          /\ Range(tabs[t].input) \subseteq Lines
          /\ Range(tabs[t].blocks) \subseteq
                [by : Lines, running : BOOLEAN, author : {"human", "agent"}, calm : BOOLEAN]
    /\ active = 0 \/ Open(active)
    /\ pending \subseteq Watches /\ marks \subseteq Watches
    /\ due \cup quiet \cup lost \subseteq Calls /\ calm \subseteq TabIds
    /\ reached \subseteq Lines

(* A call has exactly the one reply its socket thread reads: none while it   *)
(* is in the queue, in a pass or waiting, one ever after ("Every arm sends   *)
(* exactly one reply"). A second one would answer nobody, and a job answered *)
(* without one would hold its socket thread for good.                        *)
OneReply ==
    \A c \in Calls : Len(answer[c]) = IF call[c] = "answered" THEN 1 ELSE 0

(* A run pasted at a prompt with nothing typed ahead of it is answered with  *)
(* its own block, however late the shell reads it, whatever the person types *)
(* behind it and whichever runs share the tab. Two exceptions, in both of    *)
(* which the code answers with the first block there is since its count: a   *)
(* line that was lost (the shell could not run it, or a ctrl-C flushed it),  *)
(* and a run with lines ahead of it.                                         *)
AnswerIsItsOwn ==
    \A c \in quiet \ lost : Range(answer[c]) \subseteq {c}

(* The socket thread that waits for a call gets one answer, and that one's.  *)
OneAnswerOfItsOwn == OneReply /\ AnswerIsItsOwn

(* Such a run's block carries the agent's mark once nothing watches it any   *)
(* more: an early reply and a timeout both leave a watch behind.             *)
EarnsTheMark ==
    \A t \in TabIds : \A i \in 1 .. Len(tabs[t].blocks) :
        LET b == tabs[t].blocks[i] IN
        /\ b.by \in quiet
        /\ \A w \in pending \cup marks : w.of # b.by
        => b.author = "agent"

(* What the person starts in a tab that a pass has left settled, and that    *)
(* the agent has not touched since, stays the person's: no watch outlives    *)
(* the block it was for ("later blocks are someone else's"). Two exceptions: *)
(* a tab where the watch of a lost line is left is never settled (that watch *)
(* has no block, and takes the person's next one), and in a tab that is not  *)
(* settled a block of the person's that falls between a run's line and its   *)
(* end is stamped with it.                                                   *)
LaterBlocksStayThePersons ==
    \A t \in TabIds : \A i \in 1 .. Len(tabs[t].blocks) :
        LET b == tabs[t].blocks[i] IN b.by = Person /\ b.calm => b.author = "human"

(* What the two say without their first exception, and the code does not     *)
(* keep: a quiet run is never answered with another's block, and a watch     *)
(* that has no block yet has its line unread, so the block will be its own.  *)
QuietRunsAreAnsweredTheirOwn == \A c \in quiet : Range(answer[c]) \subseteq {c}
WatchesAreOwedABlock ==
    \A w \in pending \cup marks :
        Open(w.tab) /\ ~BlockFormed(w) => w.of \in Range(tabs[w.tab].input)

(* Every call is answered: in the end none is outstanding (each is asked     *)
(* once), though no shell need ever read a line and no command ever end. The *)
(* deadline and the tab's death are enough.                                  *)
EveryCallIsAnswered ==
    <>[](\A c \in Calls : call[c] \in {"unsent", "answered"})

(* What docs/14-terminal.md says of terminal_send: in the person's tab the   *)
(* agent's keys reach only the prompt of a command the agent ran.            *)
KeysReachOnlyTheAgentsCommands == Person \notin reached
=============================================================================

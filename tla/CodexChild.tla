---------------------------- MODULE CodexChild ----------------------------
(* One running `codex app-server` child: provider-codex/child.rs, and the   *)
(* adapter's turns and mode picks over it (lib.rs).                         *)
(*                                                                          *)
(* A request holds the adapter's child lock from its write to its answer,   *)
(* so turns go out one at a time; a detached request (the account and the   *)
(* catalog reads) leaves the lock as soon as it is written. A pump thread   *)
(* reads the child's lines in order, hands each answer to its waiter, and   *)
(* judges what the running turn asks by the modes the request side has      *)
(* noted. The approval mode travels with a turn: a pick is kept until the   *)
(* next turn/start takes it, and comes back if that start fails.            *)
(*                                                                          *)
(* The child is external: it answers each frame, late or never, runs one    *)
(* turn at a time, and takes a turn/start up once the turn before is over.  *)
EXTENDS Naturals, Sequences, FiniteSets

CONSTANTS
    Turns,      \* turn/start requests
    Detached,   \* requests nothing blocks on
    NoMode,     \* no approval mode given
    Nobody,     \* no request
    MaxOpen,    \* bound: requests under way at once
    MaxPicks,   \* bound: mode picks
    MaxAsks,    \* bound: MCP tool calls the turns ask for
    MaxFaults   \* bound: unreadable lines and exits of the child

Requests == Turns \cup Detached
Modes == {"ask", "readonly"}

ASSUME RequestsAreApart ==
    Turns \cap Detached = {} /\ Nobody \notin Requests /\ NoMode \notin Modes
ASSUME BoundsAreNat ==
    MaxOpen \in Nat /\ MaxPicks \in Nat /\ MaxAsks \in Nat /\ MaxFaults \in Nat

VARIABLES
    phase,      \* where each request is in submit_text and deliver
    fate,       \* how it ended
    carries,    \* the mode its frame carries
    holder,     \* who holds the adapter's child lock
    waiters,    \* Shared.waiters
    inbox,      \* the answer on its way to the request's receiver
    pending,    \* pending_turn_mode
    attempted, inForce,  \* Shared.modes
    chip,       \* the fold's permission_mode
    pump,       \* "reading" or "gone"
    child,      \* "running" or "exited"
    stdin,      \* frames the child has not taken up: [of, mode]
    thread,     \* external: the mode later turns run under
    turn,       \* external: the running turn, [of, mode]
    owed,       \* external: requests taken up and not answered
    stdout,     \* lines the pump has not read
    answered,   \* history: requests the child has answered
    late,       \* history: requests registered after the pump was gone
    carded,     \* history: the MCP asks that reached the person
    wanted,     \* history: the mode the person picked last
    ahead,      \* history: the older picks under way when a turn took its own
    crossed,    \* history: two sends at once, and the older pick came last
    picks, asks, faults

requestVars == <<phase, fate, carries, holder>>
modeVars == <<pending, attempted, inForce, chip, wanted>>
serverVars == <<child, stdin, thread, turn, owed, stdout, answered>>
orderVars == <<ahead, crossed>>
boundVars == <<picks, asks, faults>>
vars == <<requestVars, orderVars, waiters, inbox, modeVars, pump, serverVars, late,
          carded, boundVars>>

NoTurn == [of |-> Nobody, mode |-> NoMode]
Line(kind, of, mode) == [kind |-> kind, of |-> of, mode |-> mode]

(* After the open: thread/start was answered, and reported its mode. The     *)
(* person may have picked another one since.                                 *)
Init ==
    /\ phase = [r \in Requests |-> "idle"]
    /\ fate = [r \in Requests |-> "none"]
    /\ carries = [r \in Requests |-> NoMode]
    /\ holder = Nobody
    /\ waiters = {}
    /\ inbox = [r \in Requests |-> "empty"]
    /\ thread \in Modes
    /\ pending \in (Modes \ {thread}) \cup {NoMode}
    /\ attempted = thread
    /\ inForce = thread
    /\ chip = IF pending = NoMode THEN thread ELSE pending
    /\ wanted = chip
    /\ ahead = [t \in Turns |-> {}] /\ crossed = FALSE
    /\ pump = "reading"
    /\ child = "running"
    /\ stdin = <<>>
    /\ turn = NoTurn
    /\ owed = {}
    /\ stdout = <<>>
    /\ answered = {}
    /\ late = {}
    /\ carded = {}
    /\ picks = 0 /\ asks = 0 /\ faults = 0

-----------------------------------------------------------------------------
(* The person and the request side.                                          *)

UnderWay == {r \in Requests : phase[r] \notin {"idle", "done"}}
RoomForOne == Cardinality(UnderWay) < MaxOpen

(* SelectApprovalMode: kept for the next turn, shown at once.                *)
Pick(m) ==
    /\ picks < MaxPicks
    /\ picks' = picks + 1
    /\ pending' = m
    /\ chip' = m
    /\ wanted' = m
    /\ UNCHANGED <<requestVars, orderVars, waiters, inbox, attempted, inForce, pump, serverVars,
                   late, carded, asks, faults>>

Carriers == {t \in Turns \cap UnderWay : carries[t] # NoMode}

(* submit_text takes the kept pick along before it waits for the child lock. *)
Take(t) ==
    /\ t \in Turns
    /\ phase[t] = "idle" /\ RoomForOne
    /\ phase' = [phase EXCEPT ![t] = "taken"]
    /\ carries' = [carries EXCEPT ![t] = pending]
    /\ pending' = NoMode
    /\ ahead' = [ahead EXCEPT ![t] = IF pending = NoMode THEN {} ELSE Carriers]
    /\ UNCHANGED <<crossed, fate, holder, waiters, inbox, attempted, inForce, chip, wanted, pump,
                   serverVars, late, carded, boundVars>>

(* What the wire was last asked for is noted before the write: the turn may  *)
(* ask for something before its own start is answered.                       *)
Attempt(m) == IF m = NoMode THEN attempted ELSE m

(* deliver: lock the child, leave a waiter, note the mode.                   *)
Register(r) ==
    /\ \/ r \in Turns /\ phase[r] = "taken"
       \/ r \in Detached /\ phase[r] = "idle" /\ RoomForOne
    /\ holder = Nobody
    /\ holder' = r
    /\ phase' = [phase EXCEPT ![r] = "registered"]
    /\ waiters' = waiters \cup {r}
    /\ attempted' = Attempt(carries[r])
    /\ late' = IF pump = "gone" THEN late \cup {r} ELSE late
    /\ crossed' = (crossed \/ (r \in Turns /\ \E q \in ahead[r] : phase[q] = "taken"))
    /\ UNCHANGED <<ahead, fate, carries, inbox, pending, inForce, chip, wanted, pump,
                   serverVars, carded, boundVars>>

(* A request over, its result not yet with the caller: a turn that failed    *)
(* still has its pick to give back.                                          *)
EndWith(r, how) ==
    /\ fate' = [fate EXCEPT ![r] = how]
    /\ phase' = [phase EXCEPT ![r] =
           IF r \in Turns /\ how # "ok" THEN "failed" ELSE "done"]
    /\ holder' = IF holder = r THEN Nobody ELSE holder

(* The frame goes down the pipe. A detached request lets the lock go.        *)
Write(r) ==
    /\ phase[r] = "registered"
    /\ child = "running"
    /\ stdin' = Append(stdin, [of |-> r, mode |-> carries[r]])
    /\ phase' = [phase EXCEPT ![r] = "written"]
    /\ holder' = IF r \in Detached THEN Nobody ELSE holder
    /\ UNCHANGED <<orderVars, fate, carries, waiters, inbox, modeVars, pump, child, thread, turn,
                   owed, stdout, answered, late, carded, boundVars>>

(* The pipe is broken: the waiter is taken back.                             *)
WriteFails(r) ==
    /\ phase[r] = "registered"
    /\ child = "exited"
    /\ waiters' = waiters \ {r}
    /\ EndWith(r, "closed")
    /\ UNCHANGED <<orderVars, carries, inbox, modeVars, pump, serverVars, late, carded,
                   boundVars>>

(* recv_timeout returns an answer. A start that was answered puts the mode   *)
(* it carried in force in a step of its own, under the child lock still.     *)
Receive(r) ==
    /\ phase[r] = "written"
    /\ inbox[r] # "empty"
    /\ inbox' = [inbox EXCEPT ![r] = "empty"]
    /\ \/ /\ inbox[r] = "ok"
          /\ phase' = [phase EXCEPT ![r] = "settling"]
          /\ UNCHANGED <<fate, holder>>
       \/ /\ inbox[r] # "ok"
          /\ EndWith(r, inbox[r])
    /\ UNCHANGED <<orderVars, carries, waiters, modeVars, pump, serverVars, late, carded,
                   boundVars>>

Settle(r) ==
    /\ phase[r] = "settling"
    /\ inForce' = IF carries[r] = NoMode THEN inForce ELSE carries[r]
    /\ EndWith(r, "ok")
    /\ UNCHANGED <<orderVars, carries, waiters, inbox, pending, attempted, chip, wanted, pump,
                   serverVars, late, carded, boundVars>>

(* recv_timeout expires. A detached request leaves its waiter behind.        *)
TimeOut(r) ==
    /\ phase[r] = "written"
    /\ inbox[r] = "empty"
    /\ waiters' = waiters \ (Turns \cap {r})
    /\ EndWith(r, "timeout")
    /\ UNCHANGED <<orderVars, carries, inbox, modeVars, pump, serverVars, late, carded,
                   boundVars>>

(* keep_mode: the override reached no turn, the next start carries it unless *)
(* a newer pick is there. (A newer pick that another turn has taken is not.) *)
KeptOver(m) == IF m = NoMode THEN pending ELSE m  \* mutant
Kept(m) == IF pending = NoMode THEN m ELSE pending

KeepMode(t) ==
    /\ phase[t] = "failed"
    /\ phase' = [phase EXCEPT ![t] = "done"]
    /\ pending' = Kept(carries[t])
    /\ crossed' = (crossed \/ (pending = NoMode /\ \E q \in Turns : t \in ahead[q]))
    /\ UNCHANGED <<ahead, fate, carries, holder, waiters, inbox, attempted, inForce, chip,
                   wanted, pump, serverVars, late, carded, boundVars>>

-----------------------------------------------------------------------------
(* The pump: one line at a time, in the child's order.                       *)

NextLine == Head(stdout)

Reading(kind) ==
    /\ pump = "reading"
    /\ stdout # <<>>
    /\ NextLine.kind = kind
    /\ stdout' = Tail(stdout)
    /\ UNCHANGED <<child, stdin, thread, turn, owed, answered, pump, requestVars, orderVars,
                   attempted, inForce, pending, wanted, late, boundVars>>

(* An answer goes to its waiter, when one is left.                           *)
OldestWaiter(line) == IF waiters = {} THEN {} ELSE {CHOOSE w \in waiters : TRUE}  \* mutant
WaiterOf(line) == waiters \cap {line.of}
PumpAnswers ==
    \E kind \in {"ok", "rpc"} :
        /\ Reading(kind)
        /\ waiters' = waiters \ WaiterOf(NextLine)
        /\ inbox' = [r \in Requests |-> IF r \in WaiterOf(NextLine) THEN kind ELSE inbox[r]]
        /\ UNCHANGED <<chip, carded>>

(* mcp_gate_mode: Read-only if it is in force, asked for, or shown.          *)
GateByChip == chip  \* mutant
Gate == IF "readonly" \in {inForce, attempted, chip} THEN "readonly" ELSE inForce

(* An MCP tool call is declined under Read-only, and carded otherwise.       *)
PumpJudges ==
    /\ Reading("ask")
    /\ carded' = IF Gate = "readonly" THEN carded
                 ELSE carded \cup {[of |-> NextLine.of, mode |-> NextLine.mode]}
    /\ UNCHANGED <<waiters, inbox, chip>>

(* thread/settings/updated is the chip's truth.                              *)
PumpRestates ==
    /\ Reading("settings")
    /\ chip' = NextLine.mode
    /\ UNCHANGED <<waiters, inbox, carded>>

(* The end of the child's output, or a line that cannot be read: every       *)
(* waiter left is failed, and nobody reads on.                               *)
DrainsNobody == {}  \* mutant
Drained == waiters

PumpEnds ==
    /\ pump = "reading"
    /\ \/ child = "exited" /\ stdout = <<>> /\ UNCHANGED faults
       \/ stdout # <<>> /\ faults < MaxFaults /\ faults' = faults + 1
    /\ pump' = "gone"
    /\ waiters' = waiters \ Drained
    /\ inbox' = [r \in Requests |-> IF r \in Drained THEN "closed" ELSE inbox[r]]
    /\ UNCHANGED <<requestVars, orderVars, modeVars, serverVars, late, carded, picks, asks>>

-----------------------------------------------------------------------------
(* The child.                                                                *)

Says(line) == stdout' = Append(stdout, line)

clientVars == <<requestVars, orderVars, waiters, inbox, modeVars, pump, late, carded, picks>>

(* It takes up the next frame: a turn starts, under the mode its frame       *)
(* carries or the thread's, and a thread whose mode moved says so.           *)
StartsTurn ==
    /\ stdin # <<>>
    /\ Head(stdin).of \in Turns
    /\ turn = NoTurn
    /\ LET m == IF Head(stdin).mode = NoMode THEN thread ELSE Head(stdin).mode IN
       /\ turn' = [of |-> Head(stdin).of, mode |-> m]
       /\ thread' = m
       /\ IF m = thread THEN UNCHANGED stdout ELSE Says(Line("settings", Nobody, m))
    /\ stdin' = Tail(stdin)
    /\ owed' = owed \cup {Head(stdin).of}
    /\ UNCHANGED <<clientVars, child, answered, asks, faults>>

(* A read is answered as it is taken up.                                     *)
AnswersRead ==
    /\ stdin # <<>>
    /\ Head(stdin).of \in Detached
    /\ stdin' = Tail(stdin)
    /\ Says(Line("ok", Head(stdin).of, NoMode))
    /\ answered' = answered \cup {Head(stdin).of}
    /\ UNCHANGED <<clientVars, child, thread, turn, owed, asks, faults>>

Refuses ==
    /\ stdin # <<>>
    /\ stdin' = Tail(stdin)
    /\ Says(Line("rpc", Head(stdin).of, NoMode))
    /\ answered' = answered \cup {Head(stdin).of}
    /\ UNCHANGED <<clientVars, child, thread, turn, owed, asks, faults>>

Answers(r) ==
    /\ r \in owed
    /\ owed' = owed \ {r}
    /\ Says(Line("ok", r, NoMode))
    /\ answered' = answered \cup {r}
    /\ UNCHANGED <<clientVars, child, stdin, thread, turn, asks, faults>>

AsksForTool ==
    /\ turn # NoTurn
    /\ asks < MaxAsks
    /\ asks' = asks + 1
    /\ Says(Line("ask", turn.of, turn.mode))
    /\ UNCHANGED <<clientVars, child, stdin, thread, turn, owed, answered, faults>>

EndsTurn ==
    /\ turn # NoTurn
    /\ turn' = NoTurn
    /\ UNCHANGED <<clientVars, child, stdin, thread, owed, stdout, answered, asks, faults>>

Exits ==
    /\ child = "running"
    /\ faults < MaxFaults
    /\ faults' = faults + 1
    /\ child' = "exited"
    /\ stdin' = <<>>
    /\ turn' = NoTurn
    /\ owed' = {}
    /\ UNCHANGED <<clientVars, thread, stdout, answered, asks>>

-----------------------------------------------------------------------------
Caller(r) ==
    \/ Register(r) \/ Write(r) \/ WriteFails(r) \/ Receive(r) \/ Settle(r)
    \/ TimeOut(r) \/ KeepMode(r)

Pump == PumpAnswers \/ PumpJudges \/ PumpRestates \/ PumpEnds

Server ==
    \/ StartsTurn \/ AnswersRead \/ Refuses \/ AsksForTool \/ EndsTurn
    \/ Exits
    \/ \E r \in Requests : Answers(r)

Next ==
    \/ \E m \in Modes : Pick(m)
    \/ \E r \in Requests : Take(r) \/ Caller(r)
    \/ Pump
    \/ Server

Spec == Init /\ [][Next]_vars

-----------------------------------------------------------------------------
Frames == [of : Requests, mode : Modes \cup {NoMode}]
Lines ==
    [kind : {"ok", "rpc"}, of : Requests, mode : {NoMode}]
    \cup [kind : {"settings"}, of : {Nobody}, mode : Modes]
    \cup [kind : {"ask"}, of : Turns, mode : Modes]
Running == [of : Turns, mode : Modes]

TypeOK ==
    /\ phase \in [Requests -> {"idle", "taken", "registered", "written", "settling",
                               "failed", "done"}]
    /\ fate \in [Requests -> {"none", "ok", "rpc", "closed", "timeout"}]
    /\ carries \in [Requests -> Modes \cup {NoMode}]
    /\ holder \in Requests \cup {Nobody}
    /\ waiters \subseteq Requests
    /\ inbox \in [Requests -> {"empty", "ok", "rpc", "closed"}]
    /\ pending \in Modes \cup {NoMode}
    /\ {attempted, inForce, chip, thread, wanted} \subseteq Modes
    /\ pump \in {"reading", "gone"} /\ child \in {"running", "exited"}
    /\ ahead \in [Turns -> SUBSET Turns] /\ crossed \in BOOLEAN
    /\ stdin \in Seq(Frames) /\ stdout \in Seq(Lines)
    /\ turn \in Running \cup {NoTurn}
    /\ owed \cup answered \cup late \subseteq Requests
    /\ carded \subseteq Running
    /\ picks \in Nat /\ asks \in Nat /\ faults \in Nat

(* No MCP call of a turn that runs Read-only reaches an Allow button,        *)
(* whatever is picked while it runs and however late its start is answered:  *)
(* "a turn started Read-only stays refused after a pick away it has not      *)
(* taken". The one way out is a start the caller has given up on, which the  *)
(* child takes up all the same: that turn's calls, and those of a later turn *)
(* that names no mode and runs under the one the late start left behind.     *)
LateStart == \E t \in Turns : fate[t] = "timeout" /\ carries[t] = "readonly"

ReadOnlyTurnsAskNothing ==
    \A ask \in carded :
        ask.mode = "readonly" =>
            \/ fate[ask.of] = "timeout"
            \/ carries[ask.of] = NoMode /\ LateStart

AtRest ==
    /\ pending = NoMode
    /\ \A r \in Requests : phase[r] \in {"idle", "done"}
    /\ stdin = <<>> /\ owed = {} /\ stdout = <<>>

(* Once nothing is outstanding and no pick waits, what the gate goes by and  *)
(* what the thread runs under are one mode, and it is the one the chip shows *)
(* and the person picked last, after any mix of picks and of refused, lost   *)
(* and late starts: a failed start gives its pick back, but never over a     *)
(* newer one that waits. (Of two sends at once the older may get the child   *)
(* last, or give its pick back last: then the older pick wins.)              *)
LastPickStands ==
    AtRest => /\ {inForce, attempted} = {thread}
              /\ ~crossed => {chip, wanted} = {thread}

(* Nobody who was waiting when the child's output ended is left to sit out   *)
(* the two minutes: an answer, or the failure, is at hand, whether its frame *)
(* had been written yet or not. (One who registers later does sit them out.) *)
EndFreesEveryWaiter ==
    pump = "gone" =>
        \A r \in Requests \ late :
            phase[r] \in {"registered", "written"} => inbox[r] # "empty"

(* The same promise muse-client's request plane keeps, by another protocol:  *)
(* a request reports once, and an answer only if the child answered it, and  *)
(* a lost connection only if it is lost.                                     *)
outcome ==
    [r \in Requests |-> IF phase[r] = "done" THEN fate[r]
                        ELSE IF phase[r] = "idle" THEN "idle" ELSE "open"]

Contract ==
    INSTANCE RequestContract WITH
        Calls <- Requests,
        outcome <- outcome,
        answered <- answered,
        down <- child = "exited" \/ pump = "gone"

KeepsTheContract == Contract!CSpec
=============================================================================

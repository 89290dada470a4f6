--------------------------- MODULE ReadOnlyLayer ---------------------------
(***************************************************************************)
(* The approval mode of a Claude Code child and the deny layer that makes  *)
(* Read-only read-only (crates/provider-claude-code/src/lib.rs dispatch,   *)
(* controls.rs ControlHub).  One thread dispatches, under the lane's       *)
(* mutex; the child's pump folds its lines and answers meanwhile; a        *)
(* relaunch replaces the child.                                            *)
(*                                                                         *)
(* A list of MCP denies is a value of Lists, `Wild` denies every MCP tool. *)
(* Full access and Auto, which add relaunches of the same kind, and the    *)
(* model and effort switches are left out.                                 *)
(***************************************************************************)
EXTENDS Naturals, Sequences, FiniteSets

CONSTANTS Lists,                          \* what mcp_status may call for
          OwnModes,                       \* the mode a child is in that was given none
          MaxPicks, MaxTurns, MaxFaults   \* bounds; a change of the servers counts as a fault

ASSUME LayerAssumption ==
    /\ Lists # {} /\ Lists \cap {"none", "wild", "base"} = {}
    /\ OwnModes \subseteq {"ask", "readonly"}
    /\ {MaxPicks, MaxTurns, MaxFaults} \subseteq Nat

Modes == {"ask", "readonly"}
Wild == "wild"       \* MCP_WILDCARD_DENY
Denies == Lists \cup {Wild}

VARIABLES
    ownerMcp,          \* the child may serve the owner's own MCP servers
    child,             \* the process: alive, its mode, its layers, its servers
    inbox, outbox,     \* its stdin and stdout
    settling,          \* the denies of an answer the pump took out of pending and still holds
    late,              \* what the pump of a retired child still hands over
    mcp,               \* McpLayer
    pending, nextId,   \* ControlHub.pending; the ids
    lost,              \* child_lost
    relaunchDue,       \* effort_relaunch_due
    modeDue,           \* mode_relaunch_due
    reported,          \* the fold's permission mode: what the chip shows
    requested,         \* requested_mode
    layer,             \* read_only_layer
    disp,              \* the dispatching thread
    uncovered, story,  \* a Read-only turn ran without the layer; what went wrong
    picks, turns, faults

process == <<child, inbox, outbox, settling, late>>
hub == <<mcp, pending, nextId, lost, relaunchDue>>
adapter == <<modeDue, reported, requested, layer>>
bounds == <<picks, turns, faults>>
ghosts == <<uncovered, story>>
vars == <<ownerMcp, process, hub, adapter, disp, ghosts, bounds>>

NoLine == [kind |-> "none"]
Idle == [pc |-> "idle", op |-> "none", mode |-> "none", shown |-> "none", next |-> "none"]
NoLayer == [on |-> FALSE, known |-> "none", flying |-> 0, denies |-> "none", confirmed |-> "none"]

\* Only a child with the owner's servers has tools to deny.
Served == IF ownerMcp THEN Lists \cup {"base"} ELSE {"base"}
Fresh(mode, launched, list) ==
    [alive |-> TRUE, mode |-> mode, launched |-> launched, layer |-> "none", serves |-> list,
     answered |-> "none"]

\* A session is being opened, in a mode or in the owner's own.
Init ==
    /\ ownerMcp \in BOOLEAN
    /\ child = NoLine /\ outbox = <<>>
    /\ disp \in {[Idle EXCEPT !.pc = "spawn", !.op = "open", !.mode = m] : m \in Modes \cup {"none"}}
    /\ inbox = <<>> /\ settling = "none" /\ late = NoLine
    /\ mcp = NoLayer /\ pending = {} /\ nextId = 1 /\ lost = FALSE /\ relaunchDue = FALSE
    /\ modeDue = "none" /\ reported = "none" /\ requested = "none" /\ layer = "off"
    /\ uncovered = FALSE /\ story = {}
    /\ picks = 0 /\ turns = 0 /\ faults = 0

-----------------------------------------------------------------------------
(* The hub *)

Request(kind, value) == [id |-> nextId, kind |-> kind, value |-> value]
Attached == child # NoLine
Target(m) == IF m.known # "none" THEN m.known ELSE IF ownerMcp THEN Wild ELSE "base"
Outstanding == IF mcp.flying # 0 THEN mcp.denies ELSE mcp.confirmed
Asking(reqs) == \E p \in reqs : p.kind = "status"

\* A line goes to the child that is there; without one it is only tracked.
Deliver(request) ==
    /\ pending' = pending \cup {request}
    /\ nextId' = nextId + 1
    /\ inbox' = IF Attached THEN Append(inbox, request) ELSE inbox
Alive == ~Attached \/ child.alive   \* the write does not fail

\* query_mcp_status: a write that fails is refused, which is only logged.
QueryMcpStatus ==
    IF Asking(pending) \/ ~Alive THEN UNCHANGED <<pending, nextId, inbox>>
    ELSE Deliver(Request("status", "none"))

\* send_read_only_layer, the wait for its write, and read_only_layer_unsent.
SendLayer(on) ==
    IF Alive
    THEN /\ Deliver(Request("layer", IF on THEN Target(mcp) ELSE "none"))
         /\ mcp' = [mcp EXCEPT !.on = on, !.confirmed = "none",
                               !.flying = IF on THEN nextId ELSE 0,
                               !.denies = IF on THEN Target(mcp) ELSE "none"]
    ELSE /\ mcp' = [mcp EXCEPT !.on = ~on, !.confirmed = "none", !.flying = 0, !.denies = "none"]
         /\ UNCHANGED <<pending, nextId, inbox>>

\* forget_pending
Forgotten(m) == [m EXCEPT !.flying = 0, !.denies = "none"]

\* refuse: a layer that is not confirmed falls back to a relaunch.
Refuse(gone, m) ==
    /\ mcp' = IF \E p \in gone : p.id = m.flying THEN Forgotten(m) ELSE m
    /\ relaunchDue' = (relaunchDue \/ \E p \in gone : p.kind = "layer")

Told(gone) == IF \E p \in gone : p.kind \in {"layer", "status"} THEN story \cup {"refused"} ELSE story

-----------------------------------------------------------------------------
(* The dispatching thread *)

Then(pc) == disp' = [disp EXCEPT !.pc = pc]
Return == disp' = Idle

\* drain_confirmations: what has waited too long is refused.
Expired == {S \in SUBSET pending : Cardinality(S) <= MaxFaults - faults}

Begin(op, mode) ==
    /\ disp.pc = "idle"
    /\ disp' = [Idle EXCEPT !.pc = "ensure", !.op = op, !.mode = mode]
    /\ \E S \in Expired :
         /\ pending' = pending \ S
         /\ faults' = faults + Cardinality(S)
         /\ Refuse(S, mcp)
         /\ story' = Told(S)
    /\ UNCHANGED <<ownerMcp, process, nextId, lost, adapter, uncovered>>

BeginPick(mode) ==
    /\ picks < MaxPicks /\ picks' = picks + 1
    /\ Begin("pick", mode) /\ UNCHANGED turns

BeginTurn ==
    /\ turns < MaxTurns /\ turns' = turns + 1
    /\ Begin("turn", "none") /\ UNCHANGED picks

\* An apply that was written is followed by a query, in a step of its own.
AndQuery(asks, pc) ==
    disp' = [disp EXCEPT !.pc = IF asks THEN "query" ELSE pc, !.next = IF asks THEN pc ELSE "none",
                         !.shown = IF disp.pc = "ensure" THEN reported ELSE disp.shown]

Query ==
    /\ disp.pc = "query"
    /\ disp' = [disp EXCEPT !.pc = disp.next, !.next = "none"]
    /\ QueryMcpStatus
    /\ UNCHANGED <<ownerMcp, child, outbox, settling, late, mcp, lost, relaunchDue, adapter, ghosts, bounds>>

\* ensure_read_only_layer
AfterEnsure == IF disp.op = "pick" THEN "layer" ELSE "refused"

EnsureNothing ==
    /\ disp.pc = "ensure"
    /\ AndQuery(FALSE, AfterEnsure)
    /\ UNCHANGED <<ownerMcp, process, hub, adapter, ghosts, bounds>>

EnsureReadOnlyLayer ==
    /\ disp.pc = "ensure"
    /\ IF reported = "readonly" /\ layer = "off"
       THEN /\ SendLayer(TRUE)
            /\ layer' = IF Alive THEN "live" ELSE "off"
            /\ AndQuery(Alive, AfterEnsure)
       ELSE AndQuery(reported = "readonly", AfterEnsure) /\ UNCHANGED <<pending, nextId, inbox, mcp, layer>>
    /\ UNCHANGED <<ownerMcp, child, outbox, settling, late, lost, relaunchDue, modeDue, reported,
                   requested, ghosts, bounds>>

\* SelectApprovalMode: the layer first.  A launched one is shed by a relaunch,
\* shown now.
PickLayer ==
    /\ disp.pc = "layer"
    /\ requested' = disp.mode
    /\ IF (disp.mode = "readonly") = (layer = "off")
       THEN /\ IF layer = "launched"
               THEN /\ modeDue' = disp.mode /\ reported' = disp.mode
                    /\ Return
                    /\ UNCHANGED <<pending, nextId, inbox, mcp, layer>>
               ELSE /\ SendLayer(disp.mode = "readonly")
                    /\ layer' = IF ~Alive THEN layer
                                ELSE IF disp.mode = "readonly" THEN "live" ELSE "off"
                    /\ IF Alive THEN AndQuery(disp.mode = "readonly", "mode") ELSE Return
                    /\ UNCHANGED <<modeDue, reported>>
       ELSE Then("mode") /\ UNCHANGED <<pending, nextId, inbox, mcp, layer, modeDue, reported>>
    /\ UNCHANGED <<ownerMcp, child, outbox, settling, late, lost, relaunchDue, ghosts, bounds>>

PickModeShowingIt ==
    /\ disp.pc = "mode"
    /\ modeDue' = "none" /\ reported' = disp.mode
    /\ IF Alive THEN Deliver(Request("mode", disp.mode)) ELSE UNCHANGED <<pending, nextId, inbox>>
    /\ Return
    /\ UNCHANGED <<ownerMcp, child, outbox, settling, late, mcp, lost, relaunchDue, requested, layer, ghosts,
                   bounds>>

\* send_set_permission_mode: the chip does not move here.
PickMode ==
    /\ disp.pc = "mode"
    /\ modeDue' = "none"
    /\ IF Alive THEN Deliver(Request("mode", disp.mode)) ELSE UNCHANGED <<pending, nextId, inbox>>
    /\ Return
    /\ UNCHANGED <<ownerMcp, child, outbox, settling, late, mcp, lost, relaunchDue, reported, requested,
                   layer, ghosts, bounds>>

\* SubmitInput: the relaunches it may owe, in this order.
NeedsRelaunch ==
    CASE disp.pc = "refused" -> relaunchDue
      [] disp.pc = "revive" -> lost \/ (Attached /\ ~child.alive)
      [] disp.pc = "due" -> modeDue # "none"
      [] OTHER -> FALSE
Following == [refused |-> "revive", revive |-> "due", due |-> "await"]

NoRelaunch ==
    /\ disp.pc \in {"refused", "revive", "due"} /\ ~NeedsRelaunch
    /\ Then(Following[disp.pc])
    /\ UNCHANGED <<ownerMcp, process, hub, adapter, ghosts, bounds>>

\* relaunch: the old child is hung up and its requests forgotten.  Its pump may
\* hold an answer, or be past the check of its epoch with one more line or its end.
PastTheEpochCheck ==
    {outbox[i] : i \in DOMAIN outbox \cap {1}}
    \cup {l \in {[kind |-> "end"]} : Attached /\ ~child.alive /\ ~lost /\ outbox = <<>>}

Retire ==
    /\ NeedsRelaunch
    /\ disp' = [disp EXCEPT !.pc = "spawn", !.op = disp.pc,
                            !.mode = IF disp.pc = "due" THEN modeDue ELSE "none"]
    /\ late' \in IF settling # "none" THEN {[kind |-> "list", list |-> settling]}
                 ELSE {NoLine} \cup PastTheEpochCheck
    /\ child' = NoLine /\ inbox' = <<>> /\ outbox' = <<>> /\ settling' = "none"
    /\ pending' = {} /\ mcp' = Forgotten(mcp)
    /\ relaunchDue' = (relaunchDue /\ disp.pc # "refused")
    /\ modeDue' = IF disp.pc = "due" THEN "none" ELSE modeDue
    /\ UNCHANGED <<ownerMcp, nextId, lost, reported, requested, layer, ghosts, bounds>>

\* with_session_mode: the mode the launch names, else the reported one, else
\* the one last asked for.
LaunchMode ==
    IF disp.mode # "none" THEN disp.mode
    ELSE IF reported # "none" THEN reported ELSE requested

\* RunningChild::spawn (begin_child, attach_stdin) and note_launch_mode.
Spawn ==
    /\ disp.pc = "spawn"
    /\ LET mode == LaunchMode
           launched == mode = "readonly"
       IN /\ \E own \in OwnModes, list \in Served :
               child' = Fresh(IF mode = "none" THEN own ELSE mode, launched, list)
          /\ lost' = FALSE
          /\ mcp' = [NoLayer EXCEPT !.on = launched,
                                    !.confirmed = IF launched /\ ~ownerMcp THEN "base" ELSE "none"]
          /\ layer' = IF launched THEN "launched" ELSE "off"
          /\ requested' = IF mode = "none" THEN requested ELSE mode
          /\ reported' = IF mode = "none" THEN reported ELSE mode
          /\ disp' = [disp EXCEPT !.pc = "cover", !.mode = "none", !.shown = mode]
    /\ UNCHANGED <<ownerMcp, inbox, outbox, settling, late, pending, nextId, relaunchDue, modeDue,
                   ghosts, bounds>>

SpawnFails ==
    /\ disp.pc = "spawn" /\ disp.op # "open"
    /\ faults < MaxFaults /\ faults' = faults + 1
    /\ Return
    /\ UNCHANGED <<ownerMcp, process, hub, adapter, ghosts, picks, turns>>

\* cover_launched_mcp
Cover ==
    /\ disp.pc = "cover"
    /\ IF mcp.on /\ ownerMcp THEN SendLayer(TRUE) ELSE UNCHANGED <<pending, nextId, inbox, mcp>>
    /\ AndQuery(mcp.on /\ ownerMcp /\ Alive, "initialize")
    /\ UNCHANGED <<ownerMcp, child, outbox, settling, late, lost, relaunchDue, adapter, ghosts, bounds>>

\* send_initialize: its answer names the child's mode; then query_mcp_status.
Initialize ==
    /\ disp.pc = "initialize"
    /\ IF Alive THEN Deliver(Request("initialize", "none")) ELSE UNCHANGED <<pending, nextId, inbox>>
    /\ IF disp.op = "open" THEN disp' = [Idle EXCEPT !.pc = "query", !.next = "idle"]
       ELSE disp' = [disp EXCEPT !.pc = "query", !.next = Following[disp.op], !.op = "turn"]
    /\ UNCHANGED <<ownerMcp, child, outbox, settling, late, mcp, lost, relaunchDue, adapter, ghosts, bounds>>

\* await_mcp_layer
NothingToHoldFor == ~mcp.on \/ ~ownerMcp \/ ~Attached
Settled == ~Asking(pending) /\ mcp.flying = 0 /\ mcp.confirmed = Target(mcp)

\* The answer is no longer pending, and the denies it calls for not yet sent.
Between == settling \notin {"none", Outstanding}

AwaitMcpLayer ==
    /\ disp.pc = "await"
    /\ \/ /\ NothingToHoldFor \/ (~lost /\ Settled)
          /\ Then("send")
          /\ story' = IF ~NothingToHoldFor /\ Between THEN story \cup {"between"} ELSE story
       \/ ~NothingToHoldFor /\ lost /\ Return /\ UNCHANGED story
    /\ UNCHANGED <<ownerMcp, process, hub, adapter, uncovered, bounds>>

\* The hold times out: a layer confirmed earlier still lets the turn go.
AwaitTimesOut ==
    /\ disp.pc = "await" /\ ~NothingToHoldFor /\ ~lost /\ ~Settled
    /\ IF mcp.confirmed = "none" THEN Return /\ UNCHANGED story
       ELSE Then("send") /\ story' = story \cup {"unsettled"}
    /\ UNCHANGED <<ownerMcp, process, hub, adapter, uncovered, bounds>>

\* submit_parts: with no child, or a dead one, the turn is refused.
SendTurn ==
    /\ disp.pc = "send"
    /\ inbox' = IF Attached /\ child.alive
                THEN Append(inbox, [id |-> 0, kind |-> "turn", value |-> disp.shown]) ELSE inbox
    /\ Return
    /\ UNCHANGED <<ownerMcp, child, outbox, settling, late, hub, adapter, ghosts, bounds>>

-----------------------------------------------------------------------------
(* The child *)

Answer(verdict, mode, list) ==
    outbox' = Append(outbox, [kind |-> Head(inbox).kind, id |-> Head(inbox).id,
                              verdict |-> verdict, mode |-> mode, list |-> list])
Running == Attached /\ child.alive
Taking(kind) == Running /\ inbox # <<>> /\ Head(inbox).kind = kind /\ inbox' = Tail(inbox)

ChildSwitches ==
    /\ Taking("mode")
    /\ child' = [child EXCEPT !.mode = Head(inbox).value]
    /\ Answer("success", child'.mode, "none")
    /\ UNCHANGED <<ownerMcp, settling, late, hub, adapter, disp, ghosts, bounds>>

ChildInitializes ==
    /\ Taking("initialize")
    /\ Answer("success", child.mode, "none")
    /\ UNCHANGED <<ownerMcp, child, settling, late, hub, adapter, disp, ghosts, bounds>>

ChildTakesLayer ==
    /\ Taking("layer")
    /\ child' = [child EXCEPT !.layer = Head(inbox).value]
    /\ Answer("success", "none", "none")
    /\ UNCHANGED <<ownerMcp, settling, late, hub, adapter, disp, ghosts, bounds>>

ChildRefuses ==
    /\ faults < MaxFaults /\ faults' = faults + 1
    /\ \/ Taking("layer") /\ story' = story \cup {"refused"}
       \/ /\ Taking("mode")
          /\ story' = IF Head(inbox).value = child.mode THEN story \cup {"refusedItsOwn"} ELSE story
    /\ Answer("error", "none", "none")
    /\ UNCHANGED <<ownerMcp, child, settling, late, hub, adapter, disp, uncovered, picks, turns>>

ChildNamesItsServers ==
    /\ Taking("status")
    /\ child' = [child EXCEPT !.answered = child.serves]
    /\ Answer("success", "none", child.serves)
    /\ UNCHANGED <<ownerMcp, settling, late, hub, adapter, disp, ghosts, bounds>>

\* Without the owner's servers a launched layer is enough; with them the denies
\* must be those the child's last answer called for, or every MCP tool.
Covered ==
    IF ownerMcp THEN child.layer \in {child.answered, Wild} \ {"none"}
    ELSE child.launched \/ child.layer # "none"

\* What the turn's property excepts: see TurnsUnderTheShownLayer.
Excuses == {"refused", "unsettled", "between", "overtaken"}
Excused == story \cap Excuses # {}

ChildRuns ==
    /\ Taking("turn")
    /\ uncovered' = (uncovered \/ (/\ Head(inbox).value = "readonly" /\ ~Covered /\ ~Excused))
    /\ UNCHANGED <<ownerMcp, child, outbox, settling, late, hub, adapter, disp, story, bounds>>

ServersChange ==
    /\ Running /\ faults < MaxFaults /\ faults' = faults + 1
    /\ \E list \in Served \ {child.serves} : child' = [child EXCEPT !.serves = list]
    /\ UNCHANGED <<ownerMcp, inbox, outbox, settling, late, hub, adapter, disp, ghosts, picks, turns>>

ChildDies ==
    /\ Running /\ faults < MaxFaults /\ faults' = faults + 1
    /\ child' = [child EXCEPT !.alive = FALSE]
    /\ inbox' = <<>>
    /\ UNCHANGED <<ownerMcp, outbox, settling, late, hub, adapter, disp, ghosts, picks, turns>>

-----------------------------------------------------------------------------
(* The pump *)

\* confirm_outcome, a layer answered: only the apply in flight counts as held.
ConfirmsAny(p) == [mcp EXCEPT !.flying = 0, !.denies = "none", !.confirmed = p.value]
Confirms(p) ==
    IF p.id = mcp.flying
    THEN [mcp EXCEPT !.flying = 0, !.denies = "none", !.confirmed = p.value] ELSE mcp

\* refresh_mcp_denies: the layer goes out again when its denies changed.
RefreshMcpDenies(list) ==
    LET known == [mcp EXCEPT !.known = list]
    IN IF ~mcp.on \/ Outstanding = list
       THEN mcp' = known /\ UNCHANGED <<pending, nextId, inbox, relaunchDue>>
       ELSE IF Alive
       THEN /\ mcp' = [known EXCEPT !.flying = nextId, !.denies = list]
            /\ Deliver(Request("layer", list))
            /\ UNCHANGED relaunchDue
       ELSE mcp' = known /\ relaunchDue' = TRUE /\ UNCHANGED <<pending, nextId, inbox>>

\* confirm_outcome, of one answered request: it is taken out of pending under
\* one lock; what the servers' answer calls for waits for another (Settle).
Confirm(p, answer) ==
    /\ pending' = pending \ {p}
    /\ settling' = IF answer.verdict = "success" /\ p.kind = "status" THEN answer.list ELSE "none"
    /\ CASE answer.verdict = "error" -> Refuse({p}, mcp)
         [] answer.verdict = "success" /\ p.kind = "layer" -> mcp' = Confirms(p) /\ UNCHANGED relaunchDue
         [] OTHER -> UNCHANGED <<mcp, relaunchDue>>

\* ingest_line_of: the line's mode is what the chip shows.
Ingest ==
    /\ Attached /\ outbox # <<>> /\ settling = "none" /\ outbox' = Tail(outbox)
    /\ LET line == Head(outbox)
       IN /\ reported' = IF line.mode # "none" THEN line.mode ELSE reported
          /\ IF \E p \in pending : p.id = line.id
             THEN \E p \in pending : p.id = line.id /\ Confirm(p, line)
             ELSE UNCHANGED <<pending, settling, mcp, relaunchDue>>
    /\ UNCHANGED <<ownerMcp, child, inbox, late, nextId, lost, modeDue, requested, layer, disp,
                   ghosts, bounds>>

Settle ==
    /\ settling # "none" /\ settling' = "none"
    /\ RefreshMcpDenies(settling)
    /\ UNCHANGED <<ownerMcp, child, outbox, late, lost, adapter, disp, ghosts, bounds>>

\* ingest_end_of_stream
PumpEnds ==
    /\ Attached /\ ~child.alive /\ outbox = <<>> /\ settling = "none" /\ ~lost
    /\ lost' = TRUE /\ pending' = {} /\ mcp' = Forgotten(mcp)
    /\ UNCHANGED <<ownerMcp, process, nextId, relaunchDue, adapter, disp, ghosts, bounds>>

\* The retired child's line, or its end, taken after its epoch was checked, or
\* the answer its pump held.
FoldLate ==
    /\ late # NoLine /\ late' = NoLine
    /\ \/ /\ late.kind = "end"
          /\ lost' = TRUE /\ pending' = {} /\ mcp' = Forgotten(mcp)
          /\ UNCHANGED <<reported, nextId, inbox, relaunchDue>>
          /\ story' = story \cup {"overtaken"}
       \/ /\ late.kind = "list"
          /\ RefreshMcpDenies(late.list)
          /\ UNCHANGED <<lost, reported>>
          /\ story' = story \cup {"overtaken"}
       \/ /\ late.kind \notin {"end", "list"}
          /\ reported' = IF late.mode # "none" THEN late.mode ELSE reported
          /\ UNCHANGED <<lost, pending, mcp, nextId, inbox, relaunchDue>>
          /\ story' = IF late.mode # "none" THEN story \cup {"stray"} ELSE story
    /\ UNCHANGED <<ownerMcp, child, outbox, settling, modeDue, requested, layer, disp, uncovered, bounds>>

Done ==
    /\ disp.pc = "idle" /\ picks = MaxPicks /\ turns = MaxTurns
    /\ UNCHANGED vars

Next ==
    \/ \E mode \in Modes : BeginPick(mode)
    \/ BeginTurn \/ EnsureReadOnlyLayer \/ Query \/ PickLayer \/ PickMode
    \/ NoRelaunch \/ Retire \/ Spawn \/ SpawnFails \/ Cover \/ Initialize
    \/ AwaitMcpLayer \/ AwaitTimesOut \/ SendTurn
    \/ ChildInitializes \/ ChildSwitches \/ ChildTakesLayer \/ ChildRefuses \/ ChildNamesItsServers \/ ChildRuns
    \/ ServersChange \/ ChildDies
    \/ Ingest \/ Settle \/ PumpEnds \/ FoldLate
    \/ Done

Spec == Init /\ [][Next]_vars

-----------------------------------------------------------------------------
(* Properties *)

Ids == 0 .. (nextId - 1)
OrNone(S) == S \cup {"none"}

\* What the hub tracks, what it believes of the layer and where the dispatch
\* stands are always values the code can hold.
TypeOK ==
    /\ ownerMcp \in BOOLEAN /\ lost \in BOOLEAN /\ relaunchDue \in BOOLEAN
    /\ child = NoLine \/ (child.mode \in Modes /\ child.layer \in OrNone(Denies \cup {"base"}))
    /\ mcp \in [on : BOOLEAN, known : OrNone(Lists \cup {"base"}), flying : Ids,
                denies : OrNone(Denies \cup {"base"}), confirmed : OrNone(Denies \cup {"base"})]
    /\ pending \subseteq [id : Ids \ {0}, kind : {"initialize", "layer", "mode", "status"},
                          value : OrNone(Denies \cup Modes \cup {"base"})]
    /\ mcp.flying = 0 <=> mcp.denies = "none"
    /\ settling \in OrNone(Lists \cup {"base"})
    /\ {modeDue, reported, requested} \subseteq OrNone(Modes)
    /\ layer \in {"off", "live", "launched"}

\* A turn sent while the chip read Read-only runs under the deny layer: with the
\* owner's servers, under the denies the child's own last answer called for.
\* Excepted are the runs in which the child refused, or left unanswered, a layer
\* or a question for its servers (lib.rs tells and relaunches), a hold timed out
\* on an earlier layer (controls.rs await_mcp_layer says so), a hold ended while
\* the pump held an answer it had not acted on (AnswersAreActedOnFirst), or the
\* end or an answer of a replaced child was still taken in (the epoch check of
\* ingest_end_of_stream, ingest_line_of).  (lib.rs SubmitInput, controls.rs
\* await_mcp_layer.)
TurnsUnderTheShownLayer == ~uncovered

\* Not so: no hold ends while an answer that calls for other denies waits to be
\* acted on ("the confirmed denies the ones the last answer called for",
\* controls.rs await_mcp_layer; its request is taken out under another lock).
AnswersAreActedOnFirst == "between" \notin story

\* What the hub believes confirmed, the child holds: an answer to an apply that
\* was superseded never counts.  (controls.rs confirm_outcome.)
ConfirmedIsHeld ==
    (mcp.confirmed # "none" /\ mcp.flying = 0 /\ ~relaunchDue /\ ~lost /\ Running)
        => \/ child.layer = mcp.confirmed
           \/ mcp.confirmed = "base" /\ child.layer = "none" /\ child.launched

Quiet == disp.pc = "idle" /\ inbox = <<>> /\ outbox = <<>> /\ late = NoLine /\ Running

\* Once every line is folded the chip shows the mode the child is in, whatever
\* was relaunched, and refused but for the mode it was in, unless a relaunch into
\* another mode is owed.  Excepted are the runs in which the child refused the
\* very mode it was in (RefusalsLeaveTheChipRight), and those in which a line of
\* a replaced child that names a mode was folded (RetiredLinesAreNotFolded).
\* (lib.rs send_set_permission_mode, note_launch_mode.)
ChipIsTheChildsMode ==
    (Quiet /\ modeDue = "none" /\ story \cap {"refusedItsOwn", "stray"} = {}) => reported = child.mode

\* Not so: a refusal reports no mode, so the chip needs no resync after it
\* (controls.rs CONTROL_MODE_REJECTED_CARD); the chip had moved ahead of a
\* relaunch that a newer pick then called off.
RefusalsLeaveTheChipRight ==
    (Quiet /\ modeDue = "none" /\ "stray" \notin story) => reported = child.mode

\* Not so: the late lines of a replaced child never reach the fold (controls.rs
\* ingest_line_of, which looks at the epoch once, before it).
RetiredLinesAreNotFolded == "stray" \notin story

\* A pick away from Read-only takes a live layer back off: once every line is
\* folded a child in another mode holds none.  (lib.rs SelectApprovalMode.)
LeavingShedsTheLayer ==
    (Quiet /\ pending = {} /\ story = {} /\ child.mode = "ask" /\ requested = "ask"
           /\ modeDue = "none" /\ ~relaunchDue)
        => child.layer = "none" /\ ~child.launched
=============================================================================

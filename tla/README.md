# Baaz in TLA+

Baaz is a macOS app (`crates/baaz`, Rust on gpui) that drives coding agents. It talks to `muse serve`,
to Claude Code and to Codex as child processes, each behind a *provider lane*, and shows their sessions
in one window. This directory holds TLA+ models of the parts of Baaz whose correctness depends on the
order in which threads, children and the window act, the TLC runs that check them on small instances,
and TLAPS proofs of the safety properties that matter most.

Source paths below are relative to `src/`. `PROJECT.json` ties each definition to its source lines, each
property to the runs that check it, and each run to a seeded fault that makes it fail.

Contents: [inventory](#1-inventory), [the modules](#2-the-modules), [runs and bounds](#3-runs-bounds-and-what-they-show),
[fairness](#4-fairness), [proofs](#5-proofs), [disagreements found](#6-where-the-code-and-its-comments-disagree),
[observations](#7-what-the-models-also-showed), [not modelled](#8-what-is-not-modelled), [plan](#9-plan).

## 1. Inventory

How the parts meet: a `SessionView` in the window sends `Command`s to its lane (the `Provider` trait) and
polls the lane's channel of `ProviderEvent`s. A Muse lane is a thin handle on one shared hub, which owns
one `MuseClient` and therefore one child for all sessions; a Claude Code or Codex lane owns a child of its
own. The window (`Harness`) owns the views, the lists and stores, and everything that outlives a lane:
reconnects, handoffs, drafts, migrations. Work that blocks runs on a background executor and its result
comes back to the window as a callback, later, in an order nobody chose.

| Component | State it keeps | Operations | What is hard | What makes it correct |
|---|---|---|---|---|
| **muse-client request plane** (`crates/muse-client/src/client.rs`) | `closed`, id counter, table of waiters, writer's inbox, child behind a mutex | call, write, read and match an answer, time out, fail all on exit, shut down | five threads; a lock per field; answers late, twice or never; shutdown while the reader waits for the child | each caller gets its own answer or a true reason; no waiter leaks; the reader never blocks; shutdown returns |
| **muse-client event plane** (same file) | per session: parked events, abandoned mark; a thread per gap | dispatch, park, page, splice, overflow, give up | pages overlap what is parked; a lock released before the send; a buffer at its limit | nothing lost unreported, nothing twice, splices in order, parking ends |
| **provider-muse hub** (`crates/provider-muse/src/hub.rs`), reconnect (`crates/baaz/src/app.rs`) | link, generation, cursors, routes, orphans, lanes' bindings; the wire's state | attach, route, bind, unbind, take over, reconnect with resume from a cursor | a reader per child, readers of old children still forwarding, two reconnects at once | each event to one lane once, in order; no followed session left behind; reconnect settles |
| **handoff** (`crates/baaz/src/handoff.rs`, `app/lifecycle.rs`, `session/handoff.rs`) | runs, the pending slot, chain links in two stores, the open epoch, the views | request, start, cancel, land, submit, acknowledge, fail, clear links | opens answer late and are fenced by one epoch; the person keeps navigating; the pack can fail at each stage | a run that is over stays over and leaves no half link; the pack goes to the right lane; it ends |
| provider seam (`crates/provider`) | none | traits, event and command types | – | alphabet of the lanes |
| provider-muse modes and translation (`modes.rs`, `translate.rs`) | mode shown | two-call mode pick with roll-back | either call, or the roll-back, may fail | the mode shown is the mode set |
| **provider-claude-code control plane** (`controls.rs`, `lib.rs`) | Read-only layer, control requests, child epoch, approvals | pick a mode, deny MCP servers, await confirmation, relaunch, claim an approval | confirmations late or missing; a refused older request; child replaced | no turn runs under a weaker layer than shown; an approval is answered once |
| **provider-claude-code fold and history** (`fold.rs`) | transcript, cards | fold frames | what it says of a card or a turn races the window's own calls | cards and bubbles end true |
| **provider-codex child** (`child.rs`, `lib.rs`) | waiters, pending server requests, the kept mode, the gate's modes | request, time out, deliver an answer, judge an ask, give a pick back | the pump's exit drains waiters while one registers; modes move at four different times | no answer lost, none given twice; Read-only stays Read-only; the last pick stands |
| **provider-codex fold** (`fold.rs`) | transcript, approvals | fold notifications | as Claude Code's | as Claude Code's |
| muse-adapter (`fold.rs`, `slots.rs`) | transcript, slots | fold view events | order of blocks | slots keep the reference order |
| **session view: lane and optimistic bubbles** (`session/lane.rs`, `session/commands.rs`) | optimistic turns, running turn, pending stop | send, stop, reconcile, settle | acks return apart from events; a child dies in between | each message drawn once, above its reply; the view ends idle |
| **approvals and questions** (`session/approvals.rs`) | cards, parked taps, decisions in flight | press, claim, deliver, put back, drop | a press races the pump, the other press, and the child's end | a child is told once; cards end true; an open ask stays decidable |
| **session migration** (`session_migration.rs`) | journal, consent, files in two homes | move, prune, resume, pin | a crash between any two steps; a copy across devices; the owner still writing | nothing lost, torn or overwritten; a resume finds its session |
| list cache and stores (`list_cache.rs`, `store.rs`, `session-store`) | merged session list, files | list, merge, write atomically | deletes beside a delta | a deleted session does not come back |
| tier, billing, provider status (`tier.rs`, `billing.rs`) | tier and its source | probe, observe, cache | late probe over a newer reading | confirmed readings win |
| login (`login.rs`) | dialog's phase | start, poll, cancel | answers after a cancel | a cancelled flow does not reopen |
| **terminal service, MCP bridge** (`terminal/*`, `crates/mcp-bridge`) | tabs, queue of calls, waits, watches, marks | run, send, open, close, poll, time out | a command is bytes until the shell reads them; the person types into the same tabs | each call gets one answer, its own; marks are earned and not overearned |
| window: activation, drafts, provider switch (`app.rs`, `app/lifecycle.rs`) | views, drafts, switch epochs | activate, park, evict, switch | a switch beside other opens | a draft's text is not lost |
| pages, search, rendering, settings, browser pane, wire schema, design files | – | – | – | no protocol of their own |

The parts in bold have a module. `PROJECT.json` "hazards" lists, at their lines, the places in this code
where a test would hardly reach what can go wrong, and for each the properties that watch it or why none
does yet.

## 2. The modules

| Module | What it is |
|---|---|
| `RequestContract` | what a caller of a request plane may rely on: a call is open until it is answered, refused, closed or timed out, and `closed` only of a connection that is down |
| `MuseRequests` | the request plane of `muse-client` in detail: callers, reader, writer, shutdown, the child; implements `RequestContract` |
| `Positions` | the items of a sequence at some positions, in order: what stays of a buffer that is divided |
| `GapFill` | the event plane for one session |
| `MuseClientProofs` | the safety of both planes and the refinement of the first, for any calls, events, pages and bounds |
| `MuseHub` | the hub, its lanes, and the window's side of a reconnect |
| `MuseHubProofs` | its safety, for any sessions, lanes, children, reconnects and bounds |
| `Handoff` | the runs of a handoff and the window that drives them |
| `HandoffProofs` | its safety, for any sessions, lanes and bounds |
| `Migration` | the move of the owner's sessions, the resumes that may do it lazily, and crashes |
| `MigrationProofs` | its safety, for any files, sessions, crashes and faults |
| `ReadOnlyLayer` | the approval mode of a Claude Code child, and the deny layer behind Read-only |
| `ReadOnlyLayerProofs` | its safety, for any lists of denies, picks, turns and faults |
| `CodexChild` | one Codex child: its request lane, mode picks and MCP gate; implements `RequestContract` |
| `CodexChildProofs` | its waiters and the refinement, its MCP gate and its mode picks, for any requests and bounds |
| `LaneView` | the messages of a session's view against acks, events and the child's end |
| `Approvals` | asks, cards and taps, presses, the adapter's queue and the child |
| `ApprovalsProofs` | its safety, for any asks, presses, children and faults |
| `TerminalRuns` | the agents' terminal tools against the shell and the person |
| `TerminalRunsProofs` | its safety, for any calls, requests and tabs |
| `MC*` | the instances TLC checks |

### `MuseRequests`

One action per lock acquisition or blocking call, so that every interleaving the threads can produce is a
behaviour. `request_value` is `Enter`, `CheckClosed`, `Register`, `WriteLine`, then `Receive` or `Expire`,
and `GiveUp` when the write is refused. The reader is `ReadFrame` (through `HandleResponse`,
`HandleErrorResponse`, `HandleNoise`), and at the end of the stream `EndOfStream`, `MarkClosed`,
`LockChild`, `Reap`, `Drain`, `Deliver`, `AnnounceClosed`. `shutdown` is `BeginShutdown`, `DropWrites`,
`KillChild`, `TakeFills`, `JoinFills`, `JoinThreads`. The locks of `pending` and `writes` are held for one
step, so they are the atomicity of an action; the child mutex is held across `wait` and is a variable.
The child is an environment: it answers what it read in any order (`ServerAnswer`), may repeat an answer,
send garbage or a line that is not UTF-8 (`ServerFault`, at most `MaxFaults`), and may exit at any time.
Payloads are the call they answer. Lines and frames in flight are sets: no property of this plane depends
on their order, and a set has every order.

### `GapFill`

An event is its view cursor. The server produces events, leaves some out and says so (`Skip`: a `view/gap`),
and serves pages; the reader dispatches (`ReadEvent`), parks while a fill runs, releases an overflowing
buffer behind an abort notice, starts fills (`ReadGap`), and hands pages to the fill that asked; the fill pages on
until there is no more, a page fails or `MaxPages` is reached, then releases pages and parked events with
the overlap removed (`Release`). The lock on the gap state is an action; sending into the channel is one
step per event, after the unlock, as in the code. `ahead` is history: the live events that were sent (`PassOn`) while
a fill that had unlocked still had some to send.

### `MuseHub`

`child`, `feed`, `attached` and `log` are muse: children, what each streams, and the session logs it keeps
across children. What a child had stored but not written when it died is in the log and in no stream (`Dies`). A reader per child takes an event, checks its generation (`Take`) and forwards under the
route lock (`Forward`). Orphans wait for a lane up to `OrphanLimit`; the oldest is dropped. A lane takes a
session, attaches, binds (drains the orphans), moves to another, or shuts down. A reconnect worker spawns,
installs the new link under a new generation, starts its reader, lists the followed sessions, and for each
reads its cursor and resumes from it; the window's `on_hub_event` starts workers and applies their results, and
so does the dialog a failure opens (`Retry`). Nothing keeps a worker from being started beside another one:
`overlapped` is history, and says that it happened.

What becomes of a refusal is part of the model. A refusal carries a hint: held by another client (`held`), a history
too old to resume (`stale`), or none that the window knows (`other`). A lane's own attach tells its view, fails the start, or says
nothing for a stale history (`AttachRefused`); the worker keeps what a session was refused for (`refusal`) and `Apply`
shows it as a lease notice or a banner, on the view it finds, and takes the notice of a session that was not refused
down (`Said`). The view of a new session is found only once its open has landed (`Land`). `notice` is what the views
of a session say; `unshown` is history: the sessions that were refused and of which nothing is shown (`Untold`).

### `Handoff`

The window runs on one thread, so an action is a whole handler: everything it calls that changes state is
part of it. `StartHandoff` captures the source as a pack and asks for an open on the other lane;
`OpenLands` and `OpenFails` are the open's answer, which counts only if its epoch is the current one;
`Land` decides whether the landing belongs to the pending handoff, persists the two halves of the link and
submits the pack; `PackAccepted`, `PackRefused`, `PackTurnEnds`, `LaneLost` are what the destination does;
`Visit`, `Reopen`, `NewSession`, `Evict` are what the person does meanwhile. `handoffs`, `pending`,
`openEpoch`, `draft`, `switching` are fields of `Harness`; `session[q]` gathers what the view and the
stores know of `q`. Handlers that call each other are operators over the values they pass on: `h` the
runs, `x` the sessions.

### `Migration`

A file is a version number in each place it can be (`source`, `target`, the staging copy): 0 is no file, and
`Partial` a torn one, which a copy is between `CrossDevice` and `Copied`. Two workers run the executor: the
prompt's Move, and a resume, whose gate (`Gate`) decides from the consent, the journal and the cached plan
whether it waits, moves, or reads the owner's home behind a pin. A journal update is a read
(`ReadJournal`) and a write of what was read, changed (`BeginMove`, `MarkCompleted`, `DropRecord`,
`PruneJournal`), because `prune_journal` runs outside the executor's mutex. Each step of `execute_plan` is an
action: `Rename` on one device; across devices `Snapshot`, `Copied`, `Verify`, `Commit`, `Compare`,
`RemoveSource`. Meanwhile the owner may write a file or move it back, time makes entries old enough to prune,
and `Crash` at any step leaves only files, journal and consent.

### `ReadOnlyLayer`

One thread dispatches under the lane's mutex: `BeginPick` and `BeginTurn` go through `Query`,
`EnsureReadOnlyLayer`, the pick's own messages (`PickLayer`, `PickMode`), the relaunch if one is owed
(`Retire`, `Spawn`, `Cover`, `Initialize`), and a turn waits in `AwaitMcpLayer` until the layer is confirmed
or its deadline passes. `pending`, `mcp`, `layer`, `modeDue` and `reported` are the fields of `ControlHub`; `child` is the
process, with what it really holds; `inbox` and `outbox` its two pipes. The pump's `Ingest` takes a line in
only after the epoch check, and a line of the retired child may already be past it (`PastTheEpochCheck`,
`FoldLate`). An answer is taken out of `pending` under one lock and what it calls for is sent under another, so the
pump holds the list of an `mcp_status` answer between the two (`settling`, `Settle`), and a hold may end in
between (`Between`); so may the child that answered. The child may refuse any layer and any mode. `story` is history: a
layer or query refused or left unanswered (`refused`), a hold that timed out on an earlier layer (`unsettled`) or ended while an
answer was held (`between`), the end or an answer of a replaced child taken in (`overtaken`), a mode named by a line of
one (`stray`), a child that refused the mode it was in (`refusedItsOwn`).

### `CodexChild`

`submit_text` takes the kept pick along (`Take`) before it waits for the child's lock; `deliver` registers
a waiter and notes the mode (`Register`), writes (`Write`, `WriteFails`), and holds the lock until the answer
(`Receive`, `Settle`) or its deadline (`TimeOut`); a failed start gives the pick back (`KeepMode`). A
detached request lets the lock go once written. The pump reads one line at a time: an answer to its waiter
(`PumpAnswers`), an MCP ask through `mcp_gate_mode` (`PumpJudges`), the chip's truth (`PumpRestates`); at the
end of the stream, or at a line that cannot be read, it fails every waiter and is gone (`PumpEnds`). The child
is external: it takes frames up in order, one turn at a time, and answers late or never. `wanted`,
`late`, `ahead`, `crossed` and `carded` are history for the properties.

### `LaneView`

Message m is turn m. `Send`, `Stop`, the acks (`OnAccepted`, `OnRefused`, `OnStop`) and the events (`OnDeltas`,
`OnConnectionLost`) are the window's handlers, each on the value `view` (turns, bubbles, running turn,
submitting). Calls run on the background executor and meet at the lane's mutex (`Holding`):
`ReviveAndDraw`, `WriteLine` for Claude Code, `SendTurnStart` for Codex. The child's steps say when each
provider opens the reply, echoes and ends. `story` is history: which of the code's odd turns was taken.

### `Approvals`

An ask reaches the window as a card and as a tap, for either provider in its own order (`AskClaude`;
`CardCodex`, `ParkCodex`). A press is a call: `Look`, `Claim`, `Deliver`, `Requeue`, then `Acked` in the
window. `Replace`, `Die`, `Abandon`, `SaysLost`, `EndOfStream` are the ends of a child; `Finish` and
`Cut` what the child makes of the asked call. `told` is what each asking child was told, `table` the adapter's queue.

### `TerminalRuns`

A socket thread queues its call and blocks on a reply; the UI thread's pass is `StartPass`, `Execute` once per
job, then `Poll` over the waits and watches, as `drain` and `poll_runs` do. A tab is its input, not yet read, and
its blocks; `ShellReads` makes a block of the next line, so until then the tab reads as idle. What the
person does (`PersonTypes`, `PersonReruns`, `PersonOpens`, `PersonActivates`, `PersonCloses`, `PersonInterrupts`) falls between two
passes, since both are on the UI thread. A watch outlives its call: it still owes a block the agent's mark. Not every
line has a block: one that does not parse, or that the shell waits to see the rest of, never reaches the hook that
announces it (`ShellDiscards`), and a ctrl-C, the person's or one that `terminal_send` sends, flushes what nobody has
read (`Interrupt`). `lost` is history: the calls whose line went that way. `calm` is history too: the tabs that were
settled at the last pass, with no watch left of a lost line (`Owed`).

## 3. Runs, bounds and what they show

| Run | Instance | Distinct states | Shows |
|---|---|---|---|
| `requests` | an ordinary call and a gap-fill's call, 1 fault, fairness | 284,634 | the reader never blocks; `RequestContract` is implemented; every call returns; shutdown completes; calls in flight fail promptly at exit |
| `gap` | 4 events, 2 gaps, pages of 1, at most 2 pages, buffer of 2, fairness | 296,333 | once and in order; complete or reported; heard in order but for live events that overtake a splice; parking ends |
| `hub_safety` | 1 session, 2 lanes, 2 children, 2 reconnects, 3 events, 2 orphans, refusals with no hint | 3,451,932 | every event once, in order, while reconnects do not overlap; routes are current |
| `hub_live` | 2 sessions, 1 lane, 2 children, 2 reconnects, 1 event of each, 1 orphan, refusals of every kind, fairness | 1,077,512 | no session left behind, but in the three named cases; a reconnect settles |
| `handoff` | 4 sessions (1 in the window, 1 stored, 2 to come), 3 lanes, 2 handoffs, 3 navigations, fairness | 465,010 | links, lanes and outcomes; undisturbed handoffs settle |
| `migration` | 1 session of 2 files, the Move and a resume, 1 write of the owner, 1 crash, 1 refused file, 2 launches | 713,775 | nothing lost, torn or overwritten; a clean run moved everything; a resume finds its session |
| `layer` | 2 picks, 1 turn, 1 fault, a server list that changes | 14,277,736 | a turn shown Read-only runs under the layer; what is believed confirmed is held; the chip ends at the child's mode; the first and the last with the exceptions section 2 lists |
| `codex` | 2 turns and a read, 2 under way at once, 1 pick after the open, 1 MCP ask, 1 fault | 6,589,305 | a Read-only turn asks nothing; the last pick stands; the end frees every waiter; `RequestContract` is implemented |
| `lane` | 2 sends and a stop on either provider, 2 faults | 389,400 | one bubble each; messages above replies; quiet means idle; the stop button names the turn unless an early stop's ack cleared it |
| `approvals` | 2 asks, 2 presses, 2 children, 2 faults, either provider, fairness | 331,236 | answered once; completed cards are true, but those a lost child redraws; open asks stay decidable; told asks settle |
| `terminal` | 2 calls of 8 tool and tab choices, 2 acts of the person, lines the shell may discard, fairness | 2,581,728 | one answer to each call, its own unless its line was lost; the mark is earned, and later blocks stay the person's where no lost line's watch is left; no call hangs |
| `terminal_keys` | a run and a send, 1 act of the person | (violation) | `terminal_send` can reach a command the person started (section 6) |

`TypeOK` of each module was an invariant of its runs while it was written, and is proved where there is a
`*Proofs` module; it is in no run now. The hub, the handoff, the migration, the layer, the lane view, the
approvals, the requests and the gap fill are checked for deadlock: a system that has stopped stutters
explicitly (`Done`, `Finished`), under the condition that nothing is in progress. `TerminalRuns` and `CodexChild`
may stop anywhere, when the person and the agents have no acts left, so their runs do not check it.

Why the bounds are enough to meet the cases that matter:

* *Requests*: two calls meet every pair of positions in the table, the reader's hand and the pipes, and one
  of them is a fill, which shutdown joins. A fault repeats an answer or sends garbage. The
  proofs lift the safety part to any number of calls. The counter of ids is unbounded in the model and
  64 bits wide in the code; it is not a concern at one request per id.
* *Gap fill*: two gaps give a gap during a fill and a second fill after it; 4 events with pages of 1 give
  an overlap of pages and parked events, a paging that stops at `MaxPages` with events left, and a buffer
  that overflows during a fill. Properties kept to one gap say so: see section 7. The proofs lift the safety properties to
  any instance.
* *Hub*: two children are one reconnect with the old reader still forwarding; two reconnects let workers
  overlap; two lanes hand a session over while it streams; an orphan limit of 1 or 2 overflows. With one
  lane and two sessions a lane moves while the reconnect lists what is followed; one event a session is what
  it takes to have a session with a cursor beside one without. A lost child refuses with no hint in either run; the live
  one has the two hints the window treats apart. The proofs lift the safety properties to any instance.
* *Handoff*: two requests let a second one supersede, or run beside, the first; two fresh sessions are the
  two destinations; three lanes let the person open one the handoff did not ask for; three navigations
  reopen, come back and evict. Codex is the lane that closes its session when its child is lost. The
  proofs lift the safety properties to any instance.
* *Migration*: two files of one session, so that one may be moved and the other not; a worker of each kind
  on the same session; one crash lands between any two steps, and a second launch recovers from it.
* *Read-only layer*: two picks leave Read-only and come back, or the reverse, around the one turn; the
  fault is a refusal, a missing answer, a death or a failed spawn; `OwnModes` lets the child start in either
  mode, and the server list moves between none and one that calls for denies.
* *Codex*: two turns are what it takes for a start that times out, or is refused, beside another that carries a
  newer or an older pick; the open may leave a pick waiting, so that there are two picks. Random walks over a
  larger instance (4 turns, 3 under way, 3 picks, 2 asks) found nothing beyond the exceptions the properties name.
  The proofs lift `EndFreesEveryWaiter` and the refinement to any instance.
* *Lane view*: two sends cross each other's acks and echoes; two faults let a child die and its successor
  refuse, or a resume fail after a death. No theorem covers this module, so larger instances were checked as well, to the
  end and without an error: three sends on Codex with a stop and a fault (3.9 million states), and three on Claude Code
  with two faults (3.7 million).
* *Approvals*: two presses of one card, or of its card and its tap; two children, so that an ask of the
  first meets the second; one ask of a command and one of a file change, which Codex cards differently.
* *Terminal*: two calls share a pass, a tab or a watch; two acts let the person type ahead of a run and
  rerun, interrupt or close after it. A call that closes names the second tab; the first
  is closed by the person.

## 4. Fairness

* `MuseRequests`: every thread keeps running (weak fairness per thread; no lock other than the child mutex
  is held across steps, and that one is released by the step that holds it). `muse serve` exits once its
  stdin is closed; nothing else is assumed of it. The `REQUEST_TIMEOUT` timers are a separate assumption,
  `TimersFire`, so that `InFlightCallsFailPromptly` holds without waiting for a timer while
  `EveryCallReturns` and `ShutdownCompletes` say they need them.
* `GapFill`: the reader and each fill keep running, and a page that is not served times out: that is
  `EveryCallReturns` of the request plane, assumed here.
* `MuseHub`: a worker that was started goes on, since it is a thread of its own and muse's answer or the request's
  timeout ends each of its calls; its last step is the result that the window's loop applies. `ReconnectSettles` needs nothing of
  readers, lanes, muse or the person.
* `Handoff`: an open is answered one way or the other, so is a pack, and queued swaps run: Muse and
  Codex open and submit through requests with a timeout, and an open that fails reports it. The person is
  not fair, and a turn may run for ever.
* `Approvals`: the pump and the window's loop run, a press that holds the lane's mutex goes on, and one that
  waits for it gets it in the end (strong fairness of `Look`: the mutex is free again and again, and a
  platform mutex starves nobody for ever). A child that was told goes on with the call. No fairness for the
  person, nor for a child to ask, die or be replaced.
* `TerminalRuns`: the UI thread's pass runs again and again (the service has a timer beside its wake-ups) and
  deadlines pass. No fairness for the shell, the programs or the person: every call is answered without them.
* `Migration`, `ReadOnlyLayer`, `LaneView`, `CodexChild`: safety only, so no fairness.

Liveness is checked by TLC only.

## 5. Proofs

`MuseClientProofs`, `MuseHubProofs`, `HandoffProofs`, `CodexChildProofs`, `MigrationProofs`,
`ApprovalsProofs`, `TerminalRunsProofs` and `ReadOnlyLayerProofs` are checked by TLAPS to the last leaf.

**`MuseRequests`, for every set of calls.** Assumptions: the fills are among the calls and `NoCall` is not
(`CallsAssumption`), and the bound on faults is a number (`FaultsAssumption`). The properties are not
inductive by themselves. That a caller gets its own answer depends on what is in flight: a line carries the
id of its call (`LinesCarryTheirId`), an id belongs to one call (`CallsKeepTheirId`), an entry of the table
is its waiter's and that waiter's channel is empty (`WaitersOwnTheirEntry`), and a sender the reader took
out of the table is no longer in it (`ClaimsAreSound`). That `Closed` is honest needs to know how each
thread learns of a loss (`OutcomesAreJustified`, `DownIsRecorded`). `IInv` is their conjunction, and the
theorems are `TypeCorrect`, `ReaderNeverBlocksAlways`, `AnswersAreOwn`, `NoWaiterLeaks`, `ClosedIsHonest`
and `Refinement`: every step is a step of `RequestContract` or a stutter. `AnswersAreOwn` and `NoWaiterLeaks`
state `AnswerIsOwn` and `ReturnedCallsLeaveNoWaiter`, which no run repeats.

**`GapFill`, for any number of events, gaps and pages and every limit.** Assumption: `BoundsAssumption` (the limits are
positive numbers, the gaps a number). None of the three properties is inductive: each says what has come out, and
depends on what is still on the wire, in the buffer, and with the fill. The invariant gives every running fill a base,
the cursor of its gap (`RunsFrom`): what it has fetched is the cursors just above the base, without a hole
(`FillsRun`), and the page it waits for is the one that continues them (`PagesAreDue`). `WireInOrder`: what the child
still has to send is in cursor order and newer than what was read. `SentInOrder`: so are the buffer and whatever a
thread still has to send. These hold for any number of gaps, and give the first half of `OnceAndInOrder`: a fill and
an overflow send each event once, in order.

The rest is said of one gap, as the properties are: after a second gap, a late fill and a live event may cross. With
one gap (`OneGap`) there is one fill, which parks the session from its gap on. `OneFill`: nothing parked is left without a
fill that will release it. What is parked is newer than the base, and what was sent is at most the base unless the buffer overflowed, in which
case the fill's pages are dropped. `Sorted`: what is out is in order but for the events in `ahead`, and everything
still to be sent, by the fill, from the buffer or from the wire, is newer than what is out, the events in `ahead` set aside: that is
`InOrderUnlessOvertakenAlways`. `NoRepeats`: an event that was sent is not sent
again and is not waiting to be; parked events that the pages cover are the ones `NotSeen` removes. `Complete`: the events
the app has, or will have from what is on its way to it (`Held`), with what the fill has still to fetch, are all those
produced, or an abort notice is out or on its way (`Reported`). `Held` never shrinks in any step (`NothingIsLost`), and
a report is never taken back. Theorems: `GapTypeCorrect`, `OnceAndInOrderAlways`, `CompleteOrReportedAlways`,
`InOrderUnlessOvertakenAlways`. TLC checked the invariant on the instance of the run before it was proved.

The deduplication is a selection by positions (`Rows` of `Positions`) and not a `SelectSeq`: the library defines that one by
recursion, and what a recursion computes is out of the prover's reach. `Ranked` is the one lemma about counting that this needs.

**`MuseHub`, for every set of sessions and lanes, any number of children and of reconnects, and every bound.**
Assumption: `HubAssumption` (no lane is `NoLane`, no session `NoSession`, the bounds are positive numbers, the hints are of the three kinds). Three
theorems need nothing about reconnects. `RoutesAreCurrentAlways`: an event waits only while its session has no route,
since the one step that makes a route takes the waiting events along. `NoSessionLeftBehindAlways`: `Accounted` says of
each followed session that the child of the link has it open, or its views say why not, or it is one of the three
exceptions (`unshown`), or someone is on the way to it (`Coming`): a lane about to attach or to land, or a worker that
has it on its list, has yet to list, or brings the window its refusal. A session a lane takes between a worker's list
and its last resume is accounted for by that lane, and the argument holds for workers that overlap.

`OnceAndInOrderAlways` is about one reconnect after the other (`Delivery` is void once `overlapped`). The chain of the
argument: `Control` — one worker at a time, one loss under way at a time, and only the reader of the link can still
forward what it takes, so the readers of replaced children cannot interfere. `Chain` — a child that is not the link's
yet has streamed nothing. `Stream` — what the reader of the link holds, and then what is still in its feed, takes up
the cursor of each session without a gap, in order (`Runs`), and reaches the end of the log while the child lives; that a
resume from the cursor read earlier continues it needs that a cursor does not move between `ReadCursor` and `Resume`.
`Places` — an event is with one lane, or waits, or was left to the pages or dropped, exactly once the cursor is past it.
`Ordered` — each lane and the orphans have a session's events in order, and what waits is newer. Nothing is assumed of
where a dying child's stream is cut.

**`Handoff`, for every set of sessions and lanes and every bound.** Assumption: `HandoffAssumption` (the
initial sessions are sessions, Muse is a lane that does not close its sessions, the bounds are numbers).
`IInv` adds three facts to the checked invariants: a run has no destination before something landed
(`NothingOpenedYet`), the slot, the runs and the packs only name epochs that were given out
(`EpochsWereGiven`), and a session keeps the lane it was made on (`LanesAreFixed`). The last is what carries
"the pack goes to the requested lane" from the request to a landing many steps later. Many handlers share
the steps that fail a run and close a view; what such a step keeps is the relation `Follows` over runs and
sessions, proved once for each shared operator, and each action has one lemma from it. Theorems: `TypeCorrect`,
`SlotIsCurrent` (`PendingAwaitsACheckpoint`, which no run repeats), `NoHalfLinks`, `PackLane`, and
`OutcomesAreFinal`, the action property `OutcomesStand`.

**`CodexChild`, for every set of turns and reads and every bound.** Assumptions: turns and reads are apart, and
`Nobody` and `NoMode` are none of them (`RequestsAreApart`), and the bounds are numbers (`BoundsAreNat`). The
invariant has a part for each direction. Of what went out: a frame in the pipe, or taken up, is of a request that
was sent (`FramesAreSent`). Of what comes back: an answer in the pipe, in an inbox, being settled or reported is of
a request the child answered, and a failure of a connection that is down (`LinesAreTrue`, `ResultsAreTrue`). And
of those who wait: while the pump reads, whoever has no answer has a waiter it will find; once it is gone,
they came too late (`NobodyIsForgotten`). Theorems: `TypeCorrect`, `EndFreesThemAlways`, and `Refinement` of
`RequestContract`.

The second part is about the gate: `ReadOnlyHoldsAlways` states `ReadOnlyTurnsAskNothing`. The pump judges a
turn's call by modes the request side notes, so `GInv` says why one of them is Read-only at every moment a
Read-only turn can be heard. Before the start is answered it is the attempted mode, because the turn has the child
lock and nobody else can note another (`LockIsHeld`, `AttemptIsNoted`). Afterwards it is the mode in force, because
the child answers a start after all that earlier turns asked, and no other start can be answered while the turn is
heard (`AnswersComeLast`, `NothingAfter`, `InForceIsOurs`). A turn that names no mode runs under what an earlier
start left, and that is in force too, unless its caller gave up on it (`ThreadIsKnown`, `InheritedIsKnown`). And a
start that failed for another reason never runs (`RefusedNeverStart`).

The third part states `LastPickStands` (`LastPickStandsAlways`). `LastPickStands` speaks of a child at rest;
`PInv` says where the last pick is before that: it waits, or a turn carries it that no younger turn has overtaken, or
it is the thread's mode (`LastPickIsSomewhere`), the older of two turns being served first unless the sends have
crossed (`OlderGoFirst`). With no pick waiting or carried no frame on its way names a mode, so a start that was given
up on can no longer move the thread (`OneModeOnly`). The chip follows because the last line to come that restates a
mode restates the thread's (`ChipFollows`).

**`Migration`, for every set of files, sessions and every bound.** Assumption: `MigrationAssumption` (every file
is of a session, the prompt is none, the bounds are numbers). That nothing is lost hangs on one comparison: the
source only grows, so a source that still equals the snapshot is what landed (`WholeCopies`), and it is removed only
then. The comparison is worth nothing if two workers move one file, which the executor's mutex excludes
(`OneExecutor`), through crashes and whatever the journal says. That a clean run moved all is `PlansAreWorkedOff`: a
file of the plan is still to do, under way, or settled. A resume decides by a gate it read earlier; `GatesAreKept`
says what of that reading still holds when it spawns, `ResumesAreServed` that a lazy resume has what it needs.
Theorems: `TypeCorrect`, `NothingIsLostAlways`, `CleanRunsMovedAllAlways`, `ResumesFindTheirSessionAlways`, and
`NeverOverwrittenAlways`, an action property.

**`Approvals`, for every set of asks and every number of presses, children and faults.** Assumption:
`ApprovalsAssumption`. Taking an ask out of the adapter's queue is the claim to answer it, and a claim, an answer and
a place in the queue exclude one another (`ClaimsAreExclusive`): so `AnsweredOnce`. `CompletedCardsAreTrue` is about a
quiet lane, so it holds because what a card will say is settled while the event that says it is still on the wire
(`EndedCardsAreFinal`); Claude Code's result line only says that the call failed, so there it needs that the note of a
denial is exact (`DenialsAreNoted`). The cards in `rewritten` are excepted: calls that were allowed and failed, which
the loss of the child before their turn's end redraws as denied. `OpenAsksStayDecidable` needs where an ask may be between the child's line and
the queue (`WaitingAsksAreDecidable`). Theorems: `TypeCorrect`, `AnsweredOnceAlways`, `CompletedCardsAreTrueAlways`,
`OpenAsksStayDecidableAlways`.

**`TerminalRuns`, for every set of calls and requests, any number of tabs and any bound.** Assumptions: the person is
no call, a request is of one of the four tools, the bound is a number. A run knows its block only by the number of
blocks the tab had when it was pasted. So the invariant, `Dock`, is about what lies between that count and the block:
until a watched block has formed nothing runs in the tab and the run's own line is lost or still unread, in front of all
others if the run is quiet (`WatchesAreSound`, `Sound`, `QuietLinesLead`); from then on the block has the mark or a watch that
will set it (`QuietBlocksAreClaimed`), and no watch reaches what the person started in a tab that was calm
(`PersonsBlocksAreFree`, `CalmTabsAreUnwatched`). A watch whose line was lost has neither line nor block: what it then
takes is excepted from what the theorems say, and a tab where one is left is not calm. `Dock` speaks of values, so each way a tab can change is a lemma
about data, and an action's proof says which of them it is. Theorems: `TypeCorrect`, `OneAnswerOfItsOwnAlways`,
`EarnsTheMarkAlways`, `LaterBlocksStayThePersonsAlways`.

**`ReadOnlyLayer`, for every set of deny lists, with or without the owner's servers, and every bound.** Assumption:
`LayerAssumption` (there is a list, the lists are apart from the markers the model uses, a child's own mode is a
mode, the bounds are numbers). The promises are about a child the hub only knows through two pipes, so the invariant
says what is in them. `HubInv`: an id names one request from its writing to its answer, so an answer is matched with
what it answers (`IdsAreOnce`); an apply in flight is the last one, and once the child has answered it, it holds those
denies and no other apply is on its way (`FlyingIsLast`). That is `ConfirmedIsHeld`. `CoverInv`: while the layer is on,
the last apply in the pipe has denies, or the child holds some (`LayerComes`); a turn that `await_mcp_layer` let
through, and every turn still in the pipe, has no apply and no query ahead of it, so the child that reads it is the
child that was confirmed (`ReadyToSend`, `TurnsAreCovered`). This needs that the hub knows the child's last answer
to a query, or that the pump holds it (`AnswersAreKnown`), which is so until a request is refused or the end or an answer of a
retired child is taken in. While a turn is on its way the answer the pump holds, if any, calls for what is confirmed, so that acting on it
(`Settle`) sends no other apply ahead of the turn; a hold that ends before another answer was acted on does not
have this. These are the `Excuses` in `story` under which a turn is not counted as uncovered. `ChipInv`: the last line on its way that names a mode names the child's
(`LastLineIsMode`), and with none left the chip is right, or a request is out whose answer will say it
(`ChipFollows`). A child launched under the layer stays Read-only until it is replaced
(`LaunchedIsReadOnly`), and only such a child, or one being replaced, is owed a relaunch (`DueIsLaunched`). Theorems: `TypeCorrect`,
`ConfirmedIsHeldAlways`, `TurnsUnderTheShownLayerAlways`, `ChipIsTheChildsModeAlways`.

Only model-checked: all liveness (fairness and ENABLED are out of the prover's reach), and every property of
`LaneView`: its transcript is rebuilt by folds and `SelectSeq`, whose results are defined by recursion over the
messages, so each of its proofs would be an induction over data. What a comment or a doc says and the code does not do
is shown by TLC alone (section 6).

## 6. Where the code and its comments disagree

One disagreement is a run that TLC finds violated, `terminal_keys`; `PROJECT.json` "findings" quotes the
lines. `docs/14-terminal.md:27` says that "Person-owned tabs take only answers to a prompt of a command the
agent ran there", but `poll_runs` stamps the first block that appears after the paste as the agent's
(`terminal/service.rs:1055`, `1670-1679`), and that can be the line the person typed just before it.

The others have no run. Where a definition is named, adding it to the cfg of its module as an INVARIANT shows
the counterexample; the rest were met while translating or with an earlier property, and the properties
above are stated so that they hold beside them.

* `LaterResumesAreOurs` (`Migration`): "so no later resume keeps reading the owner's home after the move was
  admitted" (`provider-claude-code/src/home.rs:173`, and `session_migration.rs:1074`). A resume whose gate
  answered before the consent pins its session after the pins were drained (`app/lifecycle.rs:3466`).
* `LeavingShedsTheLayer` (`ReadOnlyLayer`): "a live clear sheds it" (`provider-claude-code/src/lib.rs:231`). A
  pick away from Read-only whose dispatch re-applies the layer first can leave it on the child (`lib.rs:1098`).
* `DeniedMeansNotAllowed` (`Approvals`): "only the server's resolution moves it, never this send"
  (`session/approvals.rs:304`). The second of two presses is told "unknown approval" and draws the card denied,
  while the child runs what the first one allowed (`approvals.rs:337`).
* `AllowedStaysAllowed` (`Approvals`): a tool that ran and answered "was allowed, full stop", a failed one provisionally, until the turn's
  result names the denials (`provider-claude-code/src/fold.rs:1851-1857`).
  When the child is lost before the turn ends, the card of such a call is redrawn as denied (`fold.rs:1691`).
* `HeardInWireOrder` (`GapFill`): "The event stream, in wire order" (`client.rs:550`). A fill stops parking under the lock
  and sends after it, so a live event can overtake the splice (`client.rs:1065`), with one gap and one fill.
* `EveryRefusalIsTold` (`MuseHub`): a reconnect returns each refused session "for the caller to show"
  (`provider-muse/src/hub.rs:293`), and one not held elsewhere "says what went wrong" (`app.rs:2482`). Three ways to silence: a stale
  history is only logged (`app.rs:2502`, and `lifecycle.rs:2134` for an open); no view is found for a new session whose open
  has not landed (`app.rs:2495`); and the result of another reconnect than the one refused a session takes its lease
  notice down (`app.rs:2485`).
* `StopNamesTheTurn` (`LaneView`): a turn that opened while a stop was in flight "runs and settles normally, untouched
  here" (`session/commands.rs:442-449`). The ack "nothing to stop" clears the mark the stop button needs, also of a
  turn that has started since (`commands.rs:422-427`).
* `AnswersAreActedOnFirst` (`ReadOnlyLayer`): a turn is held until there is "no layer apply in flight, and the confirmed denies the
  ones the last answer called for" (`provider-claude-code/src/controls.rs:500-502`). The answer's request is taken out (`controls.rs:661`) before the
  answer is acted on under another lock (`controls.rs:453`), and the hold ends in between (`controls.rs:522`): the turn goes ahead
  of the new denies.
* `RefusalsLeaveTheChipRight` (`ReadOnlyLayer`): "The chip needs no resync", since "a refusal reports none"
  (`controls.rs:63-64`). A child launched Read-only, with the
  chip moved ahead of a relaunch into Ask, that refuses the Read-only picked again, leaves the chip at Ask.
* `RetiredLinesAreNotFolded` (`ReadOnlyLayer`): a replaced child's late lines "never reach the fold" (`controls.rs:591-594`). The
  epoch is looked at once, and the child may be replaced between that look and the fold (`controls.rs:596`).
* `QuietRunsAreAnsweredTheirOwn` and `WatchesAreOwedABlock` (`TerminalRuns`): a run's result is the first block past the
  count it read when it pasted (`terminal/service.rs:982`, `1056`), and a watch is dropped once its block is stamped,
  since "later blocks are someone else's" (`service.rs:1119`, `1134`). A line that never becomes a block leaves the count where it was: the
  run is answered with the person's next block, and its watch marks that block as the agent's.
* Codex picks: the kept mode goes to the next turn "unless a newer pick replaced it"
  (`provider-codex/src/lib.rs:727`). The newer pick may already be with another send that waits for the child;
  the older one is then put back and wins over it (`lib.rs:728-733`).
* Dead pipe: "so nothing waits on a dead pipe" (`docs/01-transport.md:118`). A call that read `closed` before
  the reader set it, and registered after the drain, waits its full 180 s timeout (`client.rs:316`).
* Ready wire: "Only a failed respawn takes the wire down" (`app.rs:2458`). The late success of an older
  reconnect puts it back up after a newer one failed (`app.rs:2479`).
* Stolen pack: "an ordinary open racing the handoff keeps its session" (`lifecycle.rs:5087`). The landing
  compares only the lane, so a session reopened on that lane gets the pack (`lifecycle.rs:5093`).
* Retired source: "the source stays usable (a Failed card sends again)" (`lifecycle.rs:5299`,
  `docs/22-handoff.md:31`). A pack turn that fails after the acknowledgement leaves the source retired
  (`session/handoff.rs:89`).
* `MessageAboveItsReply` (`LaneView`): the empty reply "is moved after the echo so the transcript keeps
  user-before-assistant order" (`session/lane.rs:1001-1004`). With another bubble sent between the reply's opening
  and the echo, the reply is not the last turn any more and is not moved (`lane.rs:1023`).
* Dead UI: "A dead UI (quit mid-request) drops the sender and unblocks this" (`terminal/service.rs:805-806`). The
  job, and with it the sender, stays in the shared queue, which the waiting thread itself keeps alive.

## 7. What the models also showed

These were met as counterexamples or while translating.

* Request plane: an answer that arrives between the timer and the removal of the waiter is dropped in
  silence (`client.rs:329`); a line that is not UTF-8 ends the reader of a live child (`client.rs:893`); a
  gap fill spawned after shutdown took the handles is never joined (`client.rs:600`, `1089`).
* Event plane: the abandoned mark belongs to the session and not to the fill, so with two gaps and a buffer of
  one a fill can consume the mark meant for another, and pages follow live events or an event comes twice; a
  second gap announced while a fill runs is only parked, so with two gaps and a buffer of five something is
  missing unreported. `NoEventTwice`, `InOrderUnlessOvertaken` and `CompleteOrReported` are therefore claimed for
  one gap, whatever the run's bounds. The abort notice goes out before the parked row of its own gap.
* Hub: nothing excludes two reconnects at once (a child that dies during one starts another, `app.rs:2303`). With
  three children a worker then resumes from a cursor it read before the other installed a newer child
  (`hub.rs:306`), and a lane hears events twice: `EveryEventOnce` fails. `OnceAndInOrder` therefore excepts
  `overlapped`, and is proved for any number of children and reconnects otherwise.
* Handoff: an open that is overtaken by a navigation leaves its run `Checkpointed` until it is cancelled
  (`lifecycle.rs:4038`, `2495`), which is why `UndisturbedHandoffsSettle` speaks of undisturbed ones; a
  handoff to Muse that meets an unsent Muse draft reuses it and nothing lands (`1609-1622`); a refused
  confirmation overwrites a run in flight (`4827`); a cancel does not retire the open it waited for; the
  failure of any current open fails the pending handoff and unsubscribes every view (`3228`, `3244`); two
  runs can hold one destination; an evicted destination leaves its run `Prepared` (`4193`); the fence
  `run.acknowledge(run.epoch)` compares a value with itself (`5204`).
* Migration: a child pinned to the owner's home goes on writing there after the Move, and its turns stay
  behind; journal writes outside the executor's mutex can drop each other's entries, which the files make
  good; two Baaz processes would share the staging directory (one process is modelled); a file refused after the
  consent leaves its session where neither home has all of it, until the next launch.
* Read-only layer: a relaunch whose spawn fails leaves no child and does not say it is lost, so it is never
  revived; a late line of the retired child can mark the new one lost, or move the chip; without MCP servers of the
  owner's own a Read-only turn is not held for a confirmation.
* Codex: a start that timed out may still be taken up, and runs under its mode: `ReadOnlyTurnsAskNothing`
  excepts it, and a later turn that inherits what it left; the child's lock is held up to 120 s, so a
  stop, a decision and shutdown wait behind an unanswered start; a line that is not UTF-8 ends the pump of
  a live child, and every later request waits out its deadline; a request that registers after the drain does
  too; of two sends at once the older pick can win, and the chip then shows the newer one
  (`LastPickStands` excepts `crossed`).
* Lane view: a second send revives a Claude Code child before the window has handled the loss of the first, and
  the window then shuts the new one; an echo drops the Working mark (`lane.rs:866`); after Codex died, a late
  ack opens the turn again; a refusal that crosses an echo removes the other message's bubble; a stop on Claude Code
  is always refused; two sends may reach the provider in the other order; a lost connection drops bubbles without giving
  the words back.
* Approvals: Codex cards stay pending, and keep the keys, after their child died (`lane.rs:640`); a cut Codex turn
  leaves file cards pending and entries stale, and a failed one marks an undecided command allowed; a relaunch
  or a shutdown orphans asks whose decision then goes to the new child; a Codex card is shown before it can be decided.
* Terminal: two runs queued in one pass can share a tab and the count of blocks before them, and both are answered
  with the first one's block; a command pasted after a half-typed line is run as one line with it.

## 8. What is not modelled

Of the modelled components: the contents of packs, prompts, events and errors; request ids beyond identity;
logging and the file watcher. In the hub: `shutdown`, watchers, private bindings and the composer's state.
In the handoff: the summary the source writes (its timeout counts as a refused start), titles, deletion of
a session, the provider switch of an unsent draft except where it claims an open, and more than one project.
In the migration: two Baaz processes, and what is inside a session file. In the layer: Full access and Auto, and
the model and effort switches. In the Codex child: the opening handshake, steering, the effort that sticks,
a start that is answered
without a turn id (`lib.rs:741`: a protocol error, on which the pick is given back as on a refusal), and server requests
other than an MCP ask (the approvals among them are in `Approvals`). In the lane view: steering, the shell, plan mode,
handoff packs and Muse's queued acks. In the approvals: feedback, Codex's choices beyond yes and no, its
MCP gates, questions, Claude Code's unknown control requests, and a tool result of it for an ask nobody answered. In the terminal: the tools that only read, malformed
calls, the browser's tools, more than one project; keys other than a line and a ctrl-C.

The components of the inventory without a module are listed in `PROJECT.json` as `not_modelled`, with the
reason: planned below, a fold of data in one thread, or no protocol of its own (the embedded browser,
the wire schema, rendering).

## 9. Plan

What is left, most important first.

1. `ModePick` (`provider-muse/src/modes.rs`): the two calls and the roll-back. *What is shown is what is set,
   or is marked unknown.*
2. `TierGuard`, `Login`, `ListCache`: late results over newer state.
3. `ProviderSwitch`, the browser's tools and hub shutdown, as extensions of `Handoff`, `TerminalRuns` and `MuseHub`.
4. `Slots` (`muse-adapter/src/slots.rs`): a pure algorithm against a reference order over bounded inputs.

Theorems to come: those of `LaneView`, once its transcript is stated by positions, as the buffer of `GapFill` and the
orphans of `MuseHub` are. Every other safety property that a run finds to hold is a theorem.

Composition: `MuseRequests` and `CodexChild` implement one contract, and `GapFill` assumes of the request plane
only what that contract promises. `MuseHub` assumes of the event plane a stream without duplicates. `Handoff` and
`LaneView` assume of the adapters what `CodexChild` shows: a call returns, answered or failed.

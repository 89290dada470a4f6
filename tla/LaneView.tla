------------------------------ MODULE LaneView ------------------------------
(***************************************************************************)
(* What a session's view shows of the messages sent on a provider lane     *)
(* (crates/baaz/src/session/commands.rs, lane.rs).  Each send is a call of *)
(* its own on the background executor; the calls meet at the lane's mutex. *)
(* Its acknowledgement returns to the window apart from the lane's events, *)
(* which are in order.                                                     *)
(*                                                                         *)
(* The lane is Claude Code's, which draws the message itself and acks its  *)
(* line as written, or Codex's, which opens the reply before it echoes and *)
(* acks with the server's answer.  Message m is turn m.  Steering, the     *)
(* shell, plan mode, handoff packs and Muse's queued acks are left out.    *)
(***************************************************************************)
EXTENDS Integers, Sequences, SequencesExt, FiniteSets

CONSTANTS Kinds,                         \* the providers, of "claude" and "codex"
          MaxSends, MaxStops, MaxFaults  \* bounds

ASSUME LaneAssumption ==
    /\ Kinds \subseteq {"claude", "codex"}
    /\ MaxSends \in Nat \ {0} /\ MaxStops \in 0 .. 1 /\ MaxFaults \in Nat

Msgs == 1 .. MaxSends

VARIABLES
    kind,            \* the lane's provider
    start, waiting,  \* StartState, and the sends it holds
    view,            \* the transcript, submitting, running, completed_turns, pending_optimistic
    calls, stop,     \* the sends and the stop on the background executor
    events,          \* the lane's events, on their way to the window
    fold,            \* what the provider's fold keeps of submissions and turns
    child,           \* the provider's process
    sent, faults,    \* bounded
    ran, story       \* the messages the child took; what went wrong

ui == <<start, waiting, view>>
executor == <<calls, stop>>
provider == <<fold, child>>
ghosts == <<ran, story>>
vars == <<kind, ui, executor, events, provider, sent, faults, ghosts>>

NoStop == [pc |-> "none", early |-> FALSE, turn |-> 0]
Fresh == [alive |-> TRUE, held |-> TRUE, lost |-> FALSE, inbox |-> <<>>, accepted |-> <<>>, turn |-> 0, phase |-> "idle"]

Init ==
    /\ kind \in Kinds
    /\ start = "starting" /\ waiting = <<>>
    /\ view = [turns |-> <<>>, submitting |-> FALSE, running |-> 0, completed |-> {}, bubbles |-> <<>>]
    /\ calls = [m \in Msgs |-> "none"] /\ stop = NoStop
    /\ events = <<>>
    /\ fold = [waiting |-> <<>>, open |-> 0, echoed |-> {}, current |-> 0]
    /\ child = Fresh
    /\ sent = 0 /\ faults = 0 /\ ran = {} /\ story = {}

-----------------------------------------------------------------------------
(* The transcript *)

Entry(role, m) == [role |-> role, of |-> m, spoke |-> FALSE]
Has(v, role, m) == \E i \in DOMAIN v.turns : v.turns[i].role = role /\ v.turns[i].of = m
\* remove_optimistic_turn
Without(v, role, m) ==
    [v EXCEPT !.turns = SelectSeq(@, LAMBDA t : ~(t.role = role /\ t.of = m))]

Unbubbled(v, m) ==
    [Without(v, "optimistic", m) EXCEPT !.bubbles = SelectSeq(@, LAMBDA b : b # m)]

\* note_provider_deltas, of one delta that landed.
NoteAssistant(v, m) ==
    IF m \in v.completed THEN v ELSE [v EXCEPT !.running = m, !.submitting = FALSE]
NoteAnyRemoved(v, m) == [v EXCEPT !.running = 0, !.submitting = FALSE]
NoteRemoved(v, m) ==
    [v EXCEPT !.running = IF @ = m THEN 0 ELSE @, !.submitting = FALSE]

WithAssistant(v, m) == NoteAssistant([v EXCEPT !.turns = Append(@, Entry("assistant", m))], m)
WithUser(v, m) == [v EXCEPT !.turns = Append(@, Entry("user", m))]

\* reconcile_optimistic: an echo takes the place of the earliest bubble, and an
\* empty reply opened before it moves after it.
EmptyReply(v) ==
    IF v.turns = <<>> THEN 0
    ELSE LET t == v.turns[Len(v.turns)]
         IN IF t.role = "assistant" /\ ~t.spoke /\ t.of \notin v.completed THEN t.of ELSE 0

Consumed(v) ==
    IF v.bubbles = <<>> THEN v
    ELSE LET b == Head(v.bubbles)
             less == [v EXCEPT !.bubbles = Tail(@)]
         IN IF Has(v, "optimistic", b) THEN NoteRemoved(Without(less, "optimistic", b), -1) ELSE less

EchoInPlace(v, m) == WithUser(Consumed(v), m)
Echo(v, m) ==
    LET reply == EmptyReply(v)
        taken == Consumed(v)
    IN IF reply = 0 THEN WithUser(taken, m)
       ELSE WithAssistant(WithUser(NoteRemoved(Without(taken, "assistant", reply), reply), m), reply)

\* adopt_open_provider_turn
Adopted(v) ==
    LET last == v.turns[Len(v.turns)]
    IN IF v.running # 0 \/ v.turns = <<>> THEN v
       ELSE IF last.role = "assistant" /\ last.of \notin v.completed THEN [v EXCEPT !.running = last.of]
       ELSE v

Busy(v) == v.running # 0 \/ v.submitting

-----------------------------------------------------------------------------
(* The window *)

\* submit_on_provider
Submitted(v, m) ==
    [v EXCEPT !.submitting = TRUE, !.bubbles = Append(@, m), !.turns = Append(@, Entry("optimistic", m))]

Send ==
    /\ sent < MaxSends /\ sent' = sent + 1
    /\ \/ /\ start = "starting"
          /\ waiting' = Append(waiting, sent')
          /\ view' = [view EXCEPT !.submitting = TRUE]
          /\ UNCHANGED calls
       \/ /\ start = "started"
          /\ view' = Submitted(view, sent')
          /\ calls' = [calls EXCEPT ![sent'] = "going"]
          /\ UNCHANGED waiting
    /\ story' = IF \E m \in Msgs : Has(view, "assistant", m) /\ ~Has(view, "user", m)
                THEN story \cup {"between"} ELSE story
    /\ UNCHANGED <<kind, start, stop, events, provider, faults, ran>>

\* start_landed: what waited is sent, in order.
StartLands ==
    /\ start = "starting" /\ start' = "started"
    /\ view' = FoldLeft(Submitted, IF waiting = <<>> THEN view ELSE [view EXCEPT !.submitting = FALSE], waiting)
    /\ calls' = [m \in Msgs |-> IF m \in ToSet(waiting) THEN "going" ELSE calls[m]]
    /\ waiting' = <<>>
    /\ UNCHANGED <<kind, stop, events, provider, sent, faults, ghosts>>

StartFails ==
    /\ start = "starting" /\ start' = "failed" /\ waiting' = <<>>
    /\ view' = IF waiting = <<>> THEN view ELSE [view EXCEPT !.submitting = FALSE]
    /\ UNCHANGED <<kind, executor, events, provider, sent, faults, ghosts>>

\* interrupt
Stop ==
    /\ Busy(view) /\ stop.pc = "none" /\ MaxStops > 0
    /\ IF start = "starting"
       THEN /\ waiting' = <<>> /\ view' = [view EXCEPT !.submitting = FALSE]
            /\ UNCHANGED stop
       ELSE /\ stop' = [pc |-> "going", early |-> view.running = 0, turn |-> view.running]
            /\ UNCHANGED <<waiting, view>>
    /\ UNCHANGED <<kind, start, calls, events, provider, sent, faults, ghosts>>

\* submitted_provider
OnAccepted(m) ==
    /\ calls[m] = "ok" /\ calls' = [calls EXCEPT ![m] = "done"]
    /\ view' = Adopted(view)
    /\ UNCHANGED <<kind, start, waiting, stop, events, provider, sent, faults, ghosts>>

RefusedKeepingBubble(m) ==
    /\ calls[m] = "refused" /\ calls' = [calls EXCEPT ![m] = "done"]
    /\ view' = [view EXCEPT !.submitting = FALSE]
    /\ UNCHANGED <<kind, start, waiting, stop, events, provider, sent, faults, ghosts>>
OnRefused(m) ==
    /\ calls[m] = "refused" /\ calls' = [calls EXCEPT ![m] = "done"]
    /\ view' = [Unbubbled(view, m) EXCEPT !.submitting = FALSE]
    /\ story' = IF m \in ToSet(view.bubbles) THEN story ELSE story \cup {"crossed"}
    /\ UNCHANGED <<kind, start, waiting, stop, events, provider, sent, faults, ran>>

\* settle_early_stop, then a refusal that says there is nothing to stop.
SettledEarly(v) ==
    IF v.running # 0 THEN v ELSE [FoldLeft(Unbubbled, v, v.bubbles) EXCEPT !.submitting = FALSE]

OnStop ==
    /\ stop.pc \in {"ok", "refused", "nothing"}
    /\ stop' = [stop EXCEPT !.pc = "done"]
    /\ LET settled == IF stop.early THEN SettledEarly(view) ELSE view
       IN IF stop.pc = "nothing"
          THEN /\ view' = [settled EXCEPT !.running = 0, !.submitting = FALSE]
               /\ story' = IF settled.running # 0 THEN story \cup {"cleared"} ELSE story
          ELSE view' = settled /\ UNCHANGED story
    /\ UNCHANGED <<kind, start, waiting, calls, events, provider, sent, faults, ran>>

\* on_provider_event: deltas reconciled, folded and noted.
Folded(v, e) ==
    CASE e.op = "user" -> Echo(v, e.of)
      [] e.op = "assistant" -> WithAssistant(v, e.of)
      [] e.op = "retract" /\ Has(v, "user", e.of) -> NoteRemoved(Without(v, "user", e.of), -1)
      [] e.op = "block" /\ Has(v, "assistant", e.of) ->
           [v EXCEPT !.submitting = FALSE,
                     !.turns = [i \in DOMAIN @ |-> IF @[i] = Entry("assistant", e.of)
                                                   THEN [@[i] EXCEPT !.spoke = TRUE] ELSE @[i]]]
      [] e.op = "finish" /\ Has(v, "assistant", e.of) ->
           [v EXCEPT !.submitting = FALSE, !.completed = @ \cup {e.of},
                     !.running = IF @ = e.of THEN 0 ELSE @]
      [] OTHER -> v

OnDeltas ==
    /\ events # <<>> /\ Head(events).op # "lost" /\ events' = Tail(events)
    /\ view' = Folded(view, Head(events))
    /\ UNCHANGED <<kind, start, waiting, executor, provider, sent, faults, ghosts>>

\* The lane is hung up under its mutex, and the send state settled.
Holding == stop.pc = "held" \/ \E m \in Msgs : calls[m] = "held"

Unsettled(v) == FoldLeft(Unbubbled, v, v.bubbles)
Settled(v) == [FoldLeft(Unbubbled, v, v.bubbles) EXCEPT !.submitting = FALSE, !.running = 0]

OnConnectionLost ==
    /\ events # <<>> /\ Head(events).op = "lost" /\ events' = Tail(events)
    /\ ~Holding
    /\ view' = Settled(view)
    /\ child' = [child EXCEPT !.alive = FALSE, !.held = FALSE]
    /\ story' = IF child.held /\ ~child.lost THEN story \cup {"killed"} ELSE story
    /\ UNCHANGED <<kind, start, waiting, executor, fold, sent, faults, ran>>

-----------------------------------------------------------------------------
(* The background executor: one call at a time holds the mutex *)

Event(op, m) == <<[op |-> op, of |-> m]>>
Line(op, m) == [op |-> op, of |-> m]
CallAt(m, pc) == calls[m] = pc /\ (pc = "going" => ~Holding)
Ends(m, verdict) == calls' = [calls EXCEPT ![m] = verdict]

\* revive_launch: the stream ended, or the process did.
Gone == child.lost \/ (child.held /\ ~child.alive)
Unreported == IF child.lost THEN story ELSE story \cup {"replaced"}

\* Claude Code: SubmitInput resumes a child that is gone, then draws the message
\* unless something is open or waiting.
ReviveAndDraw(m) ==
    /\ kind = "claude" /\ CallAt(m, "going") /\ Ends(m, "held")
    /\ child' = IF Gone THEN Fresh ELSE child
    /\ LET kept == IF Gone THEN <<>> ELSE fold.waiting
           draws == kept = <<>> /\ fold.open = 0
       IN /\ fold' = [fold EXCEPT !.waiting = Append(kept, m),
                                  !.echoed = IF draws THEN @ \cup {m} ELSE @]
          /\ events' = IF draws THEN events \o Event("user", m) ELSE events
    /\ story' = IF Gone THEN Unreported ELSE story
    /\ UNCHANGED <<kind, ui, stop, sent, faults, ran>>

ReviveFails(m) ==
    /\ kind = "claude" /\ CallAt(m, "going") /\ Gone
    /\ faults < MaxFaults /\ faults' = faults + 1
    /\ Ends(m, "refused")
    /\ child' = [child EXCEPT !.held = FALSE]
    /\ fold' = [fold EXCEPT !.waiting = <<>>]
    /\ story' = Unreported
    /\ UNCHANGED <<kind, ui, stop, events, sent, ran>>

\* submit_parts: the line goes out, or what was drawn is retracted.
WriteLine(m) ==
    /\ kind = "claude" /\ CallAt(m, "held")
    /\ IF child.alive
       THEN /\ child' = [child EXCEPT !.inbox = Append(@, Line("turn", m))]
            /\ Ends(m, "ok")
            /\ UNCHANGED <<fold, events>>
       ELSE /\ Ends(m, "refused")
            /\ fold' = [fold EXCEPT !.waiting = SelectSeq(@, LAMBDA w : w # m), !.echoed = @ \ {m}]
            /\ events' = IF m \in fold.echoed THEN events \o Event("retract", m) ELSE events
            /\ UNCHANGED child
    /\ UNCHANGED <<kind, ui, stop, sent, faults, ghosts>>

\* Codex: submit_text sends turn/start and waits for its answer.
SendTurnStart(m) ==
    /\ kind = "codex" /\ CallAt(m, "going")
    /\ IF child.alive
       THEN child' = [child EXCEPT !.inbox = Append(@, Line("turn", m))] /\ Ends(m, "held")
       ELSE Ends(m, "refused") /\ UNCHANGED child
    /\ UNCHANGED <<kind, ui, stop, events, fold, sent, faults, ghosts>>

\* InterruptTurn: Claude Code refuses it; Codex stops the turn named, or the last
\* it saw start.
SendStop ==
    /\ stop.pc = "going" /\ ~Holding
    /\ LET turn == IF stop.turn # 0 THEN stop.turn ELSE fold.current
           fails == kind = "claude" \/ (turn # 0 /\ ~child.alive)
       IN /\ stop' = [stop EXCEPT !.pc = IF fails THEN "refused" ELSE IF turn = 0 THEN "nothing" ELSE "held"]
          /\ child' = IF fails \/ turn = 0 THEN child
                      ELSE [child EXCEPT !.inbox = Append(@, Line("stop", turn))]
    /\ UNCHANGED <<kind, ui, calls, events, fold, sent, faults, ghosts>>

-----------------------------------------------------------------------------
(* The child, with the pump that folds what it writes *)

Works(op) == child.alive /\ child.inbox # <<>> /\ Head(child.inbox).op = op
Taking == [child EXCEPT !.inbox = Tail(@)]

\* Claude Code takes a line and echoes it, unless its bubble was drawn; an echo
\* ends the turn a replaced child left open.
ClaudeTakes ==
    /\ kind = "claude" /\ Works("turn") /\ child.turn = 0
    /\ LET m == Head(child.inbox).of
           ended == IF fold.open = 0 THEN <<>> ELSE Event("finish", fold.open)
       IN /\ child' = [Taking EXCEPT !.turn = m, !.phase = "echoed"]
          /\ IF m \in fold.echoed THEN UNCHANGED <<fold, events>>
             ELSE /\ fold' = [fold EXCEPT !.echoed = @ \cup {m}, !.open = 0]
                  /\ events' = events \o ended \o Event("user", m)
          /\ ran' = ran \cup {m}
    /\ UNCHANGED <<kind, ui, executor, sent, faults, story>>

ClaudeStarts ==
    /\ kind = "claude" /\ child.alive /\ child.phase = "echoed"
    /\ child' = [child EXCEPT !.phase = "open"]
    /\ fold' = [fold EXCEPT !.open = child.turn]
    /\ events' = events \o Event("assistant", child.turn)
    /\ UNCHANGED <<kind, ui, executor, sent, faults, ghosts>>

\* A result before any message closes nothing the window hears of.
ClaudeEnds ==
    /\ kind = "claude" /\ child.alive /\ child.turn # 0
    /\ \/ /\ child.phase \in {"open", "spoke"}
          /\ events' = events \o Event("finish", child.turn) /\ UNCHANGED <<faults, story>>
       \/ /\ child.phase = "echoed" /\ faults < MaxFaults /\ faults' = faults + 1
          /\ story' = story \cup {"silent"} /\ UNCHANGED events
    /\ fold' = [fold EXCEPT !.waiting = SelectSeq(@, LAMBDA w : w # child.turn), !.open = 0]
    /\ child' = [child EXCEPT !.turn = 0, !.phase = "idle"]
    /\ UNCHANGED <<kind, ui, executor, sent, ran>>

Speaks ==
    /\ child.alive /\ child.phase = "open"
    /\ child' = [child EXCEPT !.phase = "spoke"]
    /\ events' = events \o Event("block", child.turn)
    /\ UNCHANGED <<kind, ui, executor, fold, sent, faults, ghosts>>

\* Codex answers turn/start, or refuses it; a turn it takes while one runs is next.
CodexAnswers ==
    /\ kind = "codex" /\ Works("turn")
    /\ LET m == Head(child.inbox).of
       IN /\ child' = [Taking EXCEPT !.accepted = Append(@, m)]
          /\ ran' = ran \cup {m} /\ Ends(m, "ok")
    /\ UNCHANGED <<kind, ui, stop, events, fold, sent, faults, story>>

CodexRefuses ==
    /\ kind = "codex" /\ Works("turn")
    /\ faults < MaxFaults /\ faults' = faults + 1
    /\ child' = Taking /\ Ends(Head(child.inbox).of, "refused")
    /\ UNCHANGED <<kind, ui, stop, events, fold, sent, ghosts>>

CodexStarts ==
    /\ kind = "codex" /\ child.alive /\ child.turn = 0 /\ child.accepted # <<>>
    /\ child' = [child EXCEPT !.turn = Head(child.accepted), !.accepted = Tail(@), !.phase = "started"]
    /\ fold' = [fold EXCEPT !.current = child'.turn]
    /\ events' = events \o Event("assistant", child'.turn)
    /\ UNCHANGED <<kind, ui, executor, sent, faults, ghosts>>

CodexEchoes ==
    /\ kind = "codex" /\ child.alive /\ child.phase = "started"
    /\ child' = [child EXCEPT !.phase = "open"]
    /\ events' = events \o Event("user", child.turn)
    /\ UNCHANGED <<kind, ui, executor, fold, sent, faults, ghosts>>

CodexEnds ==
    /\ kind = "codex" /\ child.alive /\ child.phase \in {"open", "spoke"}
    /\ child' = [child EXCEPT !.turn = 0, !.phase = "idle"]
    /\ events' = events \o Event("finish", child.turn)
    /\ UNCHANGED <<kind, ui, executor, fold, sent, faults, ghosts>>

\* A stop of a turn that does not run is an error.
CodexStops ==
    /\ Works("stop") /\ child.phase # "started"
    /\ IF Head(child.inbox).of = child.turn
       THEN /\ child' = [Taking EXCEPT !.turn = 0, !.phase = "idle"]
            /\ events' = events \o Event("finish", child.turn)
            /\ stop' = [stop EXCEPT !.pc = "ok"]
       ELSE /\ child' = Taking /\ stop' = [stop EXCEPT !.pc = "refused"] /\ UNCHANGED events
    /\ UNCHANGED <<kind, ui, calls, fold, sent, faults, ghosts>>

ChildDies ==
    /\ child.alive /\ faults < MaxFaults /\ faults' = faults + 1
    /\ child' = [Fresh EXCEPT !.alive = FALSE]
    /\ story' = story \cup {"lost"}
    /\ UNCHANGED <<kind, ui, executor, events, fold, sent, ran>>

\* Codex fails the callers that wait; Claude Code ends the open turn.
PumpEnds ==
    /\ ~child.alive /\ child.held /\ ~child.lost /\ child' = [child EXCEPT !.lost = TRUE]
    /\ IF kind = "codex"
       THEN /\ calls' = [m \in Msgs |-> IF calls[m] = "held" THEN "refused" ELSE calls[m]]
            /\ stop' = IF stop.pc = "held" THEN [stop EXCEPT !.pc = "refused"] ELSE stop
            /\ events' = events \o Event("lost", 0)
            /\ UNCHANGED fold
       ELSE /\ events' = (IF fold.open # 0 THEN events \o Event("finish", fold.open) ELSE events) \o Event("lost", 0)
            /\ fold' = [fold EXCEPT !.waiting = <<>>, !.open = 0]
            /\ UNCHANGED executor
    /\ UNCHANGED <<kind, ui, sent, faults, ghosts>>

-----------------------------------------------------------------------------

Returned == stop.pc \in {"none", "done"} /\ \A m \in Msgs : calls[m] \in {"none", "done"}
Resting == IF child.alive THEN child.inbox = <<>> /\ child.accepted = <<>> /\ child.turn = 0 ELSE child.lost \/ ~child.held
Quiet == start # "starting" /\ Returned /\ Resting /\ events = <<>>

Done == Quiet /\ UNCHANGED vars

Next ==
    \/ Send \/ StartLands \/ StartFails \/ Stop
    \/ \E m \in Msgs : OnAccepted(m) \/ OnRefused(m)
    \/ OnStop \/ OnDeltas \/ OnConnectionLost
    \/ \E m \in Msgs : ReviveAndDraw(m) \/ ReviveFails(m) \/ WriteLine(m) \/ SendTurnStart(m)
    \/ SendStop
    \/ ClaudeTakes \/ ClaudeStarts \/ ClaudeEnds \/ Speaks
    \/ CodexAnswers \/ CodexRefuses \/ CodexStarts \/ CodexEchoes \/ CodexEnds \/ CodexStops
    \/ ChildDies \/ PumpEnds
    \/ Done

Spec == Init /\ [][Next]_vars

-----------------------------------------------------------------------------
(* Properties *)

Roles == {"optimistic", "user", "assistant"}

\* A bubble waiting for its echo is one the transcript shows, in the same order.
TypeOK ==
    /\ start \in {"starting", "started", "failed"}
    /\ view.submitting \in BOOLEAN /\ view.running \in {0} \cup Msgs /\ view.completed \subseteq Msgs
    /\ \A i \in DOMAIN view.turns : view.turns[i].role \in Roles /\ view.turns[i].of \in Msgs
    /\ \A m \in Msgs : calls[m] \in {"none", "going", "held", "ok", "refused", "done"}
    /\ stop.pc \in {"none", "going", "held", "ok", "refused", "nothing", "done"}
    /\ \A m \in Msgs : m \in ToSet(view.bubbles) <=> Has(view, "optimistic", m)

Entries(roles, m) == {i \in DOMAIN view.turns : view.turns[i].role \in roles /\ view.turns[i].of = m}

\* When all is quiet no bubble waits for an echo that will not come, and each
\* message the provider took is drawn once, each it did not take is not.  Two cases
\* excepted: a child replaced before its end was reported, and a refusal that comes
\* after another message's echo took its bubble's place.
\* (lane.rs reconcile_optimistic, commands.rs submitted_provider.)
OneBubbleEach ==
    (Quiet /\ story \cap {"replaced", "crossed"} = {}) =>
        /\ view.bubbles = <<>>
        /\ \A m \in Msgs : /\ Entries({"optimistic"}, m) = {}
                           /\ Cardinality(Entries({"user"}, m)) <= 1
                           /\ (m \in ran /\ "lost" \notin story) => Entries({"user"}, m) # {}

\* A message stands above its own reply, whichever the provider opened first.
\* (lane.rs reconcile_optimistic.)
MessageAboveItsReply ==
    Quiet => \A m \in Msgs : \A i \in Entries({"user"}, m), j \in Entries({"assistant"}, m) : i < j

\* So it does when no other message is sent between the reply's opening and the echo.
\* (lane.rs reconcile_optimistic.)
OrderedUnlessBetween == "between" \in story \/ MessageAboveItsReply

\* When all is quiet the view is idle.  Not after Codex died, nor when Claude Code
\* answered a line with no message, had the child it resumed killed, or one replaced
\* before its end was reported.
\* (lane.rs note_provider_deltas, commands.rs settle_early_stop.)
QuietIsIdle ==
    (Quiet /\ story \cap {"silent", "killed", "replaced"} = {} /\ (kind = "claude" \/ "lost" \notin story)) => ~Busy(view)

\* A turn whose start the window has folded is the one the stop button names,
\* until its end is: "the turn runs and settles normally, untouched here"
\* (commands.rs:442-449, of a turn that opened while a stop was in flight).
\* A stop that came early, or too late for its turn, breaks it: the ack "nothing to
\* stop" clears the mark of a turn that has started since (commands.rs:422-427).
StopNamesTheTurn ==
    (/\ events = <<>> /\ Returned /\ child.alive
     /\ child.phase \in {"started", "open", "spoke"}) => view.running = child.turn

\* So it is as long as no such ack has cleared a mark: neither a folded start or
\* end, an echo, a refusal nor a stop that was served takes it from the turn.
\* (lane.rs note_provider_deltas, commands.rs settle_early_stop.)
NamedUnlessCleared == "cleared" \in story \/ StopNamesTheTurn
=============================================================================

------------------------------ MODULE Approvals ------------------------------
(***************************************************************************)
(* The approvals of one session: what the agent's child asks, what the     *)
(* adapter and its fold keep of it, what the window draws and what the     *)
(* child is told (crates/baaz/src/session/approvals.rs and lane.rs,        *)
(* provider-claude-code/src/lib.rs and fold.rs, provider-codex/src/lib.rs, *)
(* child.rs and fold.rs).                                                  *)
(*                                                                         *)
(* An ask reaches the window twice: a card, folded into the transcript,    *)
(* and a tap, parked beside it.  A press is a call of its own; the calls   *)
(* meet at the lane's mutex but race the pump that folds the child's       *)
(* lines.  Only the child's own progress settles a card, except when the   *)
(* adapter says it holds no such approval.                                 *)
(*                                                                         *)
(* Left out: feedback, Codex's choices beyond yes and no, its MCP gates    *)
(* and Claude Code's unknown control requests.                             *)
(***************************************************************************)
EXTENDS Integers, Sequences, SequencesExt, FiniteSets

CONSTANTS Kinds,      \* the providers, of "claude" and "codex"
          Requests,   \* the asks the children may make
          Commands,   \* those that gate a command card already drawn
          NoRequest,
          MaxPresses, MaxChildren, MaxFaults   \* bounds

ASSUME ApprovalsAssumption ==
    /\ Kinds \subseteq {"claude", "codex"}
    /\ Commands \subseteq Requests /\ NoRequest \notin Requests
    /\ MaxPresses \in Nat /\ MaxChildren \in Nat \ {0} /\ MaxFaults \in Nat

VARIABLES
    kind,                          \* the lane's provider
    child,                         \* the process, and the adapter's word on it
    asker, told, over,             \* per ask: the child, its answers, its end
    table, shelf, sites, denied,   \* the adapter's queue and the fold's shelf, sites and denials
    parking,                       \* Codex: carded, not yet in the table
    calls, pressed,                \* the decisions on the background executor
    wire,                          \* the lane's events, on their way to the window
    card, tap,                     \* what the window draws, and parks
    faults,                        \* bounded
    orphans, early,                \* asks of a child hung up on; refused while parking
    rewritten                      \* allowed, failed, then redrawn as denied by a lost child

asks == <<asker, told, over>>
adapter == <<table, shelf, sites, denied, parking>>
window == <<card, tap>>
story == <<orphans, early, rewritten>>
vars == <<kind, child, asks, adapter, calls, pressed, wire, window, faults, story>>

Presses == 1 .. MaxPresses
NoCall == [of |-> NoRequest, choice |-> "none", via |-> "none", pc |-> "none", result |-> "none"]

Init ==
    /\ kind \in Kinds
    /\ child = [no |-> 1, life |-> "up", lost |-> FALSE]
    /\ asker = [r \in Requests |-> 0] /\ told = [r \in Requests |-> <<>>]
    /\ over = [r \in Requests |-> "no"]
    /\ table = {} /\ shelf = {} /\ sites = {} /\ denied = {} /\ parking = NoRequest
    /\ calls = [p \in Presses |-> NoCall] /\ pressed = 0
    /\ wire = <<>>
    /\ card = [r \in Requests |-> "none"] /\ tap = [r \in Requests |-> "none"]
    /\ faults = 0 /\ orphans = {} /\ early = {} /\ rewritten = {}

Card(r, state) == [type |-> "card", of |-> r, state |-> state]
Tap(r) == [type |-> "tap", of |-> r, state |-> "none"]
Lost == [type |-> "lost", of |-> NoRequest, state |-> "none"]

\* The asks the running child still waits on.
Open(r) == asker[r] = child.no /\ over[r] = "no"

-----------------------------------------------------------------------------
(* The pump: the child's lines, folded one at a time *)

\* Claude Code: step_line folds the card and sends the tap in one lock hold.
AskClaude(r) ==
    /\ kind = "claude" /\ child.life = "up" /\ asker[r] = 0
    /\ asker' = [asker EXCEPT ![r] = child.no]
    /\ table' = table \cup {r} /\ sites' = sites \cup {r}
    /\ wire' = wire \o <<Card(r, "pending"), Tap(r)>>
    /\ UNCHANGED <<kind, child, told, over, shelf, denied, parking, calls, pressed, window, faults, story>>

\* Codex: the card first, then the answerable record and the tap.
CardCodex(r) ==
    /\ kind = "codex" /\ child.life = "up" /\ asker[r] = 0 /\ parking = NoRequest
    /\ asker' = [asker EXCEPT ![r] = child.no]
    /\ sites' = sites \cup {r} /\ parking' = r
    /\ wire' = Append(wire, Card(r, "pending"))
    /\ UNCHANGED <<kind, child, told, over, table, shelf, denied, calls, pressed, window, faults, story>>

ParkCodex ==
    /\ parking # NoRequest
    /\ table' = table \cup {parking} /\ parking' = NoRequest
    /\ wire' = Append(wire, Tap(parking))
    /\ UNCHANGED <<kind, child, asks, shelf, sites, denied, calls, pressed, window, faults, story>>

\* Claude Code redraws a card from the request it kept, queued or on the shelf;
\* Codex kept the card itself.
Kept == IF kind = "claude" THEN table \cup shelf ELSE Requests
Redraws(r, state) == wire' = IF r \in Kept THEN Append(wire, Card(r, state)) ELSE wire

\* resolve_approval_card, and Codex's resolve_approval
ResolvedAll(r, state) ==
    /\ sites' = sites \ {r} /\ table' = {} /\ shelf' = shelf \ {r}
    /\ Redraws(r, state)
Resolved(r, state) ==
    /\ sites' = sites \ {r}
    /\ IF kind = "claude" THEN table' = table \ {r} /\ shelf' = shelf \ {r} ELSE UNCHANGED <<table, shelf>>
    /\ Redraws(r, state)

\* update_approval_state: the site stays, for a denial the turn's end may name.
Refaced(r, state) ==
    /\ table' = table \ {r}
    /\ shelf' = IF r \in Kept THEN shelf \cup {r} ELSE shelf
    /\ Redraws(r, state)
    /\ UNCHANGED sites

ResultClaude(r, failed) ==
    IF ~failed THEN Resolved(r, "allowed")
    ELSE IF r \in denied THEN Resolved(r, "denied")
    ELSE Refaced(r, "allowed")

AnswerOf(r) == told[r][1].choice

\* The gated call ends, as it was told: an answer of deny is an error result.
Finish(r) ==
    /\ child.life = "up" /\ parking = NoRequest
    /\ Open(r) /\ told[r] # <<>> /\ told[r][1].to = child.no
    /\ over' = [over EXCEPT ![r] = "ran"]
    /\ IF kind = "claude"
       THEN \E failed \in {AnswerOf(r) = "deny", TRUE} : ResultClaude(r, failed)
       ELSE Resolved(r, IF AnswerOf(r) = "deny" THEN "denied" ELSE "allowed")
    /\ UNCHANGED <<kind, child, asker, told, denied, parking, calls, pressed, window, faults, story>>

\* settle_running_commands: Codex's turn ends with asks open.  Only a command
\* already drawn settles; any other card, and the table, stay as they are.
Cut(state) ==
    /\ kind = "codex" /\ child.life = "up" /\ parking = NoRequest /\ faults < MaxFaults
    /\ \E r \in Requests : Open(r)
    /\ LET settled == {r \in Commands \cap sites : Open(r)}
       IN /\ sites' = sites \ settled
          /\ wire' = wire \o SetToSeq({Card(r, state) : r \in settled})
    /\ over' = [r \in Requests |-> IF Open(r) THEN "cut" ELSE over[r]]
    /\ faults' = faults + 1
    /\ UNCHANGED <<kind, child, asker, told, table, shelf, denied, parking, calls, pressed, window, story>>

Die ==
    /\ child.life = "up" /\ faults < MaxFaults
    /\ child' = [child EXCEPT !.life = "dead"] /\ faults' = faults + 1
    /\ UNCHANGED <<kind, asks, adapter, calls, pressed, wire, window, story>>

\* abandon_live_turns: every site's card goes denied, if a turn is open.
Abandon ==
    /\ wire' = wire \o SetToSeq({Card(r, "denied") : r \in sites \cap Kept}) \o <<Lost>>
    /\ shelf' = shelf \ sites /\ sites' = {} /\ table' = {}
    /\ rewritten' = rewritten \cup {r \in sites : over[r] = "ran"}

SaysLost ==
    /\ wire' = Append(wire, Lost)
    /\ UNCHANGED <<table, shelf, sites, rewritten>>

EndOfStream ==
    /\ child.life = "dead" /\ parking = NoRequest
    /\ child' = [child EXCEPT !.life = "lost", !.lost = TRUE]
    /\ \/ kind = "claude" /\ Abandon
       \/ kind = "claude" /\ ~(\E r \in sites : Open(r)) /\ SaysLost
       \/ kind = "codex" /\ SaysLost
    /\ UNCHANGED <<kind, asks, denied, parking, calls, pressed, window, faults, orphans, early>>

-----------------------------------------------------------------------------
(* The adapter's answer to a decision, behind the lane's mutex *)

Deciding(p) == calls[p].pc \in {"found", "claimed", "unsent"}
Unlocked == \A p \in Presses : ~Deciding(p)

Moves(p, pc) == calls' = [calls EXCEPT ![p].pc = pc]
Answers(p, result) == calls' = [calls EXCEPT ![p].pc = "done", ![p].result = result]

\* Before the claim: Claude Code asks its queue, Codex its child first.
Look(p) ==
    LET r == calls[p].of
        gone == kind = "codex" /\ child.life = "none"
    IN /\ calls[p].pc = "sent" /\ Unlocked
       /\ CASE gone -> Answers(p, "refused")
            [] ~gone /\ r \notin table -> Answers(p, "unknown")
            [] OTHER -> Moves(p, "found")
       /\ early' = IF r = parking THEN early \cup {r} ELSE early
    /\ UNCHANGED <<kind, child, asks, adapter, pressed, wire, window, faults, orphans, rewritten>>

\* What leaving the queue records: Claude Code shelves the request and notes a denial.
ShelvedUnnoted(r, choice) ==
    /\ shelf' = IF kind = "claude" THEN shelf \cup {r} ELSE shelf
    /\ UNCHANGED denied
Noted(r, choice) ==
    /\ denied' = IF kind = "claude" /\ choice = "deny" THEN denied \cup {r} ELSE denied
    /\ UNCHANGED shelf
Shelved(r, choice) ==
    /\ shelf' = IF kind = "claude" THEN shelf \cup {r} ELSE shelf
    /\ denied' = IF kind = "claude" /\ choice = "deny" THEN denied \cup {r} ELSE denied

StillQueued(r) == UNCHANGED table
OffQueue(r) == table' = table \ {r}

\* claim_approval, and answer_result's removal: leaving the queue is the claim.
Claim(p) ==
    LET r == calls[p].of
        wrongChoice == kind = "claude" /\ calls[p].via = "tap"
    IN /\ calls[p].pc = "found"
       /\ IF r \notin table THEN Answers(p, "unknown") /\ UNCHANGED adapter
          ELSE IF wrongChoice THEN Answers(p, "refused") /\ UNCHANGED adapter
          ELSE /\ OffQueue(r) /\ Moves(p, "claimed")
               /\ Shelved(r, calls[p].choice)
               /\ UNCHANGED <<sites, parking>>
    /\ UNCHANGED <<kind, child, asks, pressed, wire, window, faults, story>>

\* The line is written to whichever child runs now.
Deliver(p) ==
    LET r == calls[p].of
    IN /\ calls[p].pc = "claimed"
       /\ IF child.life = "up"
          THEN /\ told' = [told EXCEPT ![r] = Append(@, [to |-> child.no, choice |-> calls[p].choice])]
               /\ Answers(p, "ok")
          ELSE /\ IF kind = "claude" THEN Moves(p, "unsent") ELSE Answers(p, "refused")
               /\ UNCHANGED told
    /\ UNCHANGED <<kind, child, asker, over, adapter, pressed, wire, window, faults, story>>

\* requeue_approval: Codex has none, its record is gone.
Requeue(p) ==
    /\ calls[p].pc = "unsent"
    /\ table' = table \cup {calls[p].of} /\ shelf' = shelf \ {calls[p].of}
    /\ Answers(p, "refused")
    /\ UNCHANGED <<kind, child, asks, sites, denied, parking, pressed, wire, window, faults, story>>

Orphaned == {r \in Requests : Open(r) /\ child.life \in {"up", "dead"}}

\* A message to Claude Code relaunches a child that owes it, or revives a lost one.
Replace ==
    /\ kind = "claude" /\ Unlocked /\ child.no < MaxChildren
    /\ \/ child.life = "up" /\ faults < MaxFaults /\ faults' = faults + 1
       \/ (child.life = "dead" \/ child.lost) /\ child.life # "up" /\ UNCHANGED faults
    /\ child' = [no |-> child.no + 1, life |-> "up", lost |-> FALSE]
    /\ orphans' = orphans \cup Orphaned
    /\ UNCHANGED <<kind, asks, adapter, calls, pressed, wire, window, early, rewritten>>

-----------------------------------------------------------------------------
(* The window *)

CardsPending == {r \in Requests : card[r] = "pending"}

Press(r, choice, via) ==
    /\ pressed < MaxPresses /\ pressed' = pressed + 1
    /\ calls' = [calls EXCEPT ![pressed'] =
                [of |-> r, choice |-> choice, via |-> via, pc |-> "sent", result |-> "none"]]
    /\ UNCHANGED <<kind, child, asks, adapter, wire, card, faults, story>>

\* decide_provider_approval: a pending card takes any number of presses.
PressCard(r, choice) ==
    card[r] = "pending" /\ Press(r, choice, "card") /\ UNCHANGED tap

\* decide_external_approval, which only the keys reach, when no card is pending.
PressTap(r, choice) ==
    /\ CardsPending = {} /\ tap[r] = "open"
    /\ tap' = [tap EXCEPT ![r] = "sent"]
    /\ Press(r, choice, "tap")

\* drop_gone_approval
Dropped(r) ==
    /\ tap' = [tap EXCEPT ![r] = "none"]
    /\ card' = [card EXCEPT ![r] = IF @ = "pending" THEN "denied" ELSE @]

Acked(p) ==
    LET c == calls[p]
    IN /\ c.pc = "done" /\ calls' = [calls EXCEPT ![p] = [NoCall EXCEPT !.pc = "over"]]
       /\ CASE c.result = "unknown" -> Dropped(c.of)
            [] c.result = "refused" /\ c.via = "tap" ->
                 /\ tap' = [tap EXCEPT ![c.of] = IF @ = "none" THEN @ ELSE "open"]
                 /\ UNCHANGED card
            [] OTHER -> UNCHANGED window
    /\ UNCHANGED <<kind, child, asks, adapter, pressed, wire, faults, story>>

\* The lane's events: a card that leaves pending takes its tap along.
Shows ==
    LET e == Head(wire)
    IN /\ wire # <<>> /\ e.type # "lost" /\ wire' = Tail(wire)
       /\ card' = IF e.type = "card" THEN [card EXCEPT ![e.of] = e.state] ELSE card
       /\ tap' = IF e.type = "tap" THEN [tap EXCEPT ![e.of] = "open"]
                 ELSE IF e.state # "pending" THEN [tap EXCEPT ![e.of] = "none"] ELSE tap
    /\ UNCHANGED <<kind, child, asks, adapter, calls, pressed, faults, story>>

\* ConnectionLost: hang up, and forget what the dead child asked.
ShowsLost ==
    /\ wire # <<>> /\ Head(wire).type = "lost" /\ wire' = Tail(wire) /\ Unlocked
    /\ child' = [child EXCEPT !.life = "none"]
    /\ tap' = [r \in Requests |-> "none"]
    /\ orphans' = orphans \cup Orphaned
    /\ UNCHANGED <<kind, asks, adapter, calls, pressed, card, faults, early, rewritten>>

-----------------------------------------------------------------------------

Pump ==
    \/ \E r \in Requests : AskClaude(r) \/ CardCodex(r) \/ Finish(r)
    \/ ParkCodex
    \/ \E state \in {"denied", "allowed"} : Cut(state)
    \/ Die
    \/ EndOfStream

Dispatch ==
    \/ \E p \in Presses : Look(p) \/ Claim(p) \/ Deliver(p) \/ Requeue(p)
    \/ Replace

Window ==
    \/ \E r \in Requests, choice \in {"allow", "deny"} : PressCard(r, choice) \/ PressTap(r, choice)
    \/ \E p \in Presses : Acked(p)
    \/ Shows
    \/ ShowsLost

Quiet ==
    /\ wire = <<>> /\ parking = NoRequest
    /\ \A p \in Presses : calls[p].pc \in {"none", "over"}

Finished == Quiet /\ UNCHANGED vars

Next == Pump \/ Dispatch \/ Window \/ Finished

Spec == Init /\ [][Next]_vars

\* Threads run, and a child that is told goes on.
Fairness ==
    /\ WF_vars(ParkCodex) /\ WF_vars(EndOfStream) /\ WF_vars(Shows) /\ WF_vars(ShowsLost)
    /\ \A r \in Requests : WF_vars(Finish(r))
    /\ \A p \in Presses :
         /\ SF_vars(Look(p))
         /\ WF_vars(Claim(p)) /\ WF_vars(Deliver(p)) /\ WF_vars(Requeue(p)) /\ WF_vars(Acked(p))

FairSpec == Spec /\ Fairness

-----------------------------------------------------------------------------
(* Properties *)

TypeOK ==
    /\ kind \in Kinds
    /\ child \in [no : 1 .. MaxChildren, life : {"up", "dead", "lost", "none"}, lost : BOOLEAN]
    /\ asker \in [Requests -> 0 .. MaxChildren]
    /\ over \in [Requests -> {"no", "ran", "cut"}]
    /\ table \subseteq Requests /\ shelf \subseteq Requests /\ denied \subseteq Requests
    /\ sites \subseteq Requests /\ parking \in Requests \cup {NoRequest}
    /\ card \in [Requests -> {"none", "pending", "allowed", "denied"}]
    /\ tap \in [Requests -> {"none", "open", "sent"}]
    /\ pressed \in 0 .. MaxPresses /\ faults \in 0 .. MaxFaults

\* A child is told once what was decided of an ask, however many presses of it
\* are on their way (take-then-send: lib.rs decide_approval, child.rs answer_result).
AnsweredOnce == \A r \in Requests : Len(told[r]) <= 1

\* Once the lane is quiet, the card of a call that ended says what the child was
\* told of it, and its tap is gone.  Excepted are Claude Code's calls that were
\* allowed and failed, when the child is lost before their turn ends: the loss
\* redraws them as denied (fold.rs:1691), see AllowedStaysAllowed.
CompletedCardsAreTrue ==
    Quiet => \A r \in Requests :
        over[r] = "ran" /\ r \notin rewritten =>
            /\ card[r] = (IF AnswerOf(r) = "deny" THEN "denied" ELSE "allowed")
            /\ tap[r] = "none"

\* While its child waits, an ask nobody answered is still on the adapter's queue
\* and still a pending card: no refused or lost press leaves the child waiting on
\* a card that is gone.  (A Codex ask pressed before it is parked may.)
OpenAsksStayDecidable ==
    Quiet => \A r \in Requests :
        Open(r) /\ child.life = "up" /\ told[r] = <<>> =>
            /\ r \in table
            /\ card[r] = "pending" \/ r \in early

\* An answer that reached the child that asked settles its card, unless the child
\* is hung up on, its turn is cut, or Codex's child dies.
ToldAsksSettle ==
    \A r \in Requests :
        told[r] # <<>> ~>
            \/ card[r] \in {"allowed", "denied"}
            \/ r \in orphans
            \/ over[r] = "cut"
            \/ kind = "codex" /\ child.life # "up"

\* What the comments say of a press: only the server's resolution moves the card,
\* and a card is denied because nothing was decided.  Two presses of one card
\* break it: the second is told "unknown approval" and drops the card as denied
\* while the child runs what the first allowed.
DeniedMeansNotAllowed ==
    \A r \in Requests :
        card[r] = "denied" => \A i \in DOMAIN told[r] : told[r][i].choice # "allow"

\* What fold.rs:1852 says: a tool that ran and answered was allowed, full stop,
\* also when it failed.  The loss of the child breaks it.
AllowedStaysAllowed ==
    Quiet => \A r \in Requests :
        over[r] = "ran" /\ AnswerOf(r) = "allow" => card[r] = "allowed"
=============================================================================

------------------------------ MODULE Handoff ------------------------------
(***************************************************************************)
(* The handoff of a session to another provider: the runs of               *)
(* crates/baaz/src/handoff.rs and the window that drives them              *)
(* (crates/baaz/src/app/lifecycle.rs), with what else the person opens     *)
(* meanwhile.  A run captures the source as a pack, asks for a fresh       *)
(* session on the other lane, submits the pack there when it lands, and    *)
(* retires the source when the pack is accepted.  Every open answers       *)
(* later, on the window's thread, fenced by one "last ask wins" epoch.     *)
(*                                                                         *)
(* A handler that calls another is written over the values it passes on:   *)
(* `h` the runs and `x` the sessions as they stand at the call.            *)
(***************************************************************************)
EXTENDS Naturals, FiniteSets

CONSTANTS Session,      \* every session there will be
          NoSession,
          Lane,         \* providers
          Muse,         \* the lane a handoff reaches through `new_session`
          ClosingLanes, \* lanes whose lost child closes the session
          HomeLane,     \* the lane of each session that exists at the start
          Here, Stored, \* those with a view in the window, those with none
          MaxHandoffs, MaxNavigations

ASSUME HandoffAssumption ==
    /\ NoSession \notin Session /\ Muse \in Lane
    /\ ClosingLanes \subseteq Lane \ {Muse}
    /\ Here \subseteq Session /\ Stored \subseteq Session \ Here
    /\ HomeLane \in [Here \cup Stored -> Lane]
    /\ MaxHandoffs \in Nat /\ MaxNavigations \in Nat

VARIABLES
    handoffs,     \* Harness.handoffs: the run of each source
    handoffEpoch, \* Harness.handoff_epoch
    pending,      \* Harness.pending_handoff
    session,      \* what the window and the stores know of each session
    opens,        \* opens the lanes have not answered
    openEpoch,    \* Harness.provider_open_epoch
    active,       \* Harness.active
    draft,        \* Harness.drafts, for the one project all sessions are in
    switching,    \* session_switch_pending, and whether pending_id names it
    listening,    \* whether the views' events still have a subscriber
    swaps,        \* activation's swaps to the destination, still queued
    navigations   \* what the person opened (bound)

vars == <<handoffs, handoffEpoch, pending, session, opens, openEpoch, active,
          draft, switching, listening, swaps, navigations>>

NoPack == [by |-> NoSession, epoch |-> 0, turn |-> "none"]
NoRun == [state |-> "None", epoch |-> 0, to |-> Muse, dest |-> NoSession,
          settled |-> "no"]
NoPending == [source |-> NoSession, epoch |-> 0]

\* A session: its view and whether it has turns ("pack": only the pack's), the
\* link's two halves, whether its composer is retired, the pack it was sent, and
\* what its transcript carried over.
Unborn == [lane |-> Muse, view |-> "none", turns |-> "no",
           to |-> NoSession, from |-> NoSession, retired |-> "no",
           pack |-> NoPack, carry |-> "no"]

Init ==
    /\ handoffs = [s \in Session |-> NoRun] /\ handoffEpoch = 0
    /\ pending = NoPending
    /\ session = [s \in Session |->
         IF s \in Here \cup Stored
           THEN [Unborn EXCEPT !.lane = HomeLane[s], !.turns = "yes",
                               !.view = IF s \in Here THEN "live" ELSE "stored"]
           ELSE Unborn]
    /\ opens = {} /\ openEpoch = 0
    /\ active \in Here /\ draft = NoSession
    /\ switching = "no" /\ listening = "yes" /\ swaps = {} /\ navigations = 0

Live(q) == session[q].view = "live"
Fresh == {q \in Session : session[q].view = "none"}
Created(q) == q \in Fresh /\ q = CHOOSE new \in Fresh : TRUE
\* `is_live_draft`, `draft_serves`: the draft `new_session` reopens instead of
\* starting.  The row of a handoff destination counts no turn for the pack.
LiveDraft(x, p) ==
    /\ draft # NoSession /\ x[draft].view = "live" /\ x[draft].lane = p
    /\ x[draft].turns = "no" \/ x[draft].from # NoSession

\* Every open under way has a session left to be (bound).
Room == Cardinality({o \in opens : o.session = NoSession}) < Cardinality(Fresh)

-----------------------------------------------------------------------------
(* HandoffRun *)

Cancellable(run) == run.state \in {"Checkpointed", "Prepared"}
PackTurnCanFail(run) ==
    /\ run.settled = "no" /\ run.dest # NoSession
    /\ run.state \in {"Prepared", "Activated"}

\* A fault TLC must notice: a failed open leaves the run it was for waiting.
FailKeepsWaiting(run) ==
    IF run.state \in {"Checkpointed", "Activated", "Cancelled"}
      THEN run ELSE [run EXCEPT !.state = "Failed"]

Fail(run) ==
    IF run.state \in {"Activated", "Cancelled"} THEN run
                                                ELSE [run EXCEPT !.state = "Failed"]

FailPackTurn(run) ==
    IF PackTurnCanFail(run)
      THEN [run EXCEPT !.state = "Failed", !.settled = "yes"]
      ELSE run

-----------------------------------------------------------------------------
(* The window's steps the handlers share *)

PersistLinks(x, s, d) == [x EXCEPT ![s].to = d, ![d].from = s]

\* A fault TLC must notice: the destination keeps its half of the link.
ClearSourceLink(x, links) ==
    [q \in Session |->
       [x[q] EXCEPT !.to = IF <<q, @>> \in links THEN NoSession ELSE @]]

\* `links` are pairs of a source and its destination.
ClearLinks(x, links) ==
    [q \in Session |->
       [x[q] EXCEPT !.to = IF <<q, @>> \in links THEN NoSession ELSE @,
                    !.from = IF <<@, q>> \in links THEN NoSession ELSE @]]

FailRuns(h, x, links) ==
    <<[s \in Session |-> IF \E d \in Session : <<s, d>> \in links
                           THEN FailPackTurn(h[s]) ELSE h[s]],
      ClearLinks(x, links)>>

\* `fail_handoff`: the runs map is searched for the destination, and which
\* run is met first is the map's order.
FailHandoff(h, x, d) ==
    LET holders == {s \in Session : h[s].dest = d} IN
    IF holders = {} THEN {<<h, x>>} ELSE {FailRuns(h, x, {<<s, d>>}) : s \in holders}

\* `fail_handoff_for_lost_destination`
LoseDestination(h, x, d) ==
    IF \E s \in Session : h[s].dest = d /\ h[s].state = "Prepared"
      THEN FailHandoff(h, x, d) ELSE {<<h, x>>}

\* A view goes and its lane hangs up.  What it carried is shown again when it
\* is reopened only if the acknowledgement wrote it down, and with that the
\* outcome of a pack turn that had begun.
Gone(x, d, view) ==
    LET unheard == x[d].pack.turn \in {"sent", "lost"}
                     \/ (x[d].pack.turn = "running" /\ x[d].carry # "kept")
    IN [x EXCEPT ![d].view = view, ![d].retired = "no",
                 ![d].carry = IF @ = "shown" THEN "lost" ELSE @,
                 ![d].pack.turn = IF unheard THEN "cut" ELSE @]

\* A record that counts no turn is deleted; Muse keeps its own.
Forget(x, d) ==
    Gone(x, d, IF x[d].lane = Muse \/ x[d].turns = "yes" THEN "stored"
                                                        ELSE "deleted")

\* `close_view`, but for the pending open it cancels.
CloseView(h, x, d) == {<<o[1], Forget(o[2], d)>> : o \in LoseDestination(h, x, d)}

\* `cancel_pending_switch`: only a reopen names its target before it lands.
CancelPendingSwitch(e) == IF switching = "reopen" THEN e + 1 ELSE e
SwitchCancelled == IF switching = "reopen" THEN "no" ELSE switching

\* `activate`: whatever is still opening is overtaken by this landing.
Activate(q, e) ==
    /\ active' = q /\ openEpoch' = e + 1
    /\ switching' = "no" /\ listening' = "yes"

\* `open_on_provider` and `reopen_provider` (q): the ask under a new epoch.
Ask(q, p, e, kind) ==
    /\ q # NoSession \/ Room
    /\ openEpoch' = e + 1
    /\ opens' = opens \cup {[epoch |-> e + 1, session |-> q, lane |-> p]}
    /\ switching' = kind
    /\ UNCHANGED <<active, listening>>

-----------------------------------------------------------------------------
(* Starting and stopping a handoff *)

\* A run let go of: it no longer waits for an open.
Released(s) == IF pending.source = s THEN NoPending ELSE pending

Run(state, p) == [NoRun EXCEPT !.state = state, !.epoch = handoffEpoch + 1, !.to = p]

MayRequest(s, p) ==
    /\ active = s /\ session[s].turns # "no" /\ session[s].lane # p
    /\ handoffEpoch < MaxHandoffs /\ handoffEpoch' = handoffEpoch + 1

\* `show_handoff_confirm` with a question, an approval or a turn in the way.
RefuseAtConfirm(s, p) ==
    /\ MayRequest(s, p)
    /\ handoffs' = [handoffs EXCEPT ![s] = Run("Refused", p)]
    /\ UNCHANGED <<pending, session, opens, openEpoch, active, draft, switching,
                   listening, swaps, navigations>>

\* The older run of the source, aborted by `start_handoff`.
Superseded(s) ==
    LET old == handoffs[s]
        h == [handoffs EXCEPT ![s] = NoRun]
    IN IF Cancellable(old) /\ old.dest # NoSession
         THEN CloseView(h, ClearLinks(session, {<<s, old.dest>>}), old.dest)
         ELSE {<<h, session>>}

\* `start_handoff`, refused by what is pending on the source by now.
StartRefused(s, p) ==
    /\ MayRequest(s, p)
    /\ \E o \in Superseded(s) :
         /\ handoffs' = [o[1] EXCEPT ![s] = Run("Refused", p)]
         /\ session' = o[2]
    /\ pending' = IF handoffs[s].state = "Prepared" THEN Released(s) ELSE pending
    /\ openEpoch' = CancelPendingSwitch(openEpoch) /\ switching' = SwitchCancelled
    /\ UNCHANGED <<opens, active, draft, listening, swaps, navigations>>

\* `start_handoff`: quiet, captured, and the destination asked for.  On Muse
\* the ask is `new_session`, which reopens a draft when there is one.
StartHandoff(s, p) ==
    /\ MayRequest(s, p)
    /\ \E o \in Superseded(s) :
         /\ handoffs' = [o[1] EXCEPT ![s] = Run("Checkpointed", p)]
         /\ session' = o[2]
         /\ LET e == CancelPendingSwitch(openEpoch) IN
            IF p = Muse /\ LiveDraft(o[2], Muse)
              THEN Activate(draft, e) /\ UNCHANGED <<opens, draft>>
              ELSE /\ Ask(NoSession, p, e, "open")
                   /\ draft' = IF p = Muse THEN NoSession ELSE draft
    /\ pending' = [source |-> s, epoch |-> handoffEpoch + 1]
    /\ UNCHANGED <<swaps, navigations>>

\* `cancel_handoff`: the closing view meets the run still Prepared, and the
\* cancelled copy is stored over what that left.
CancelHandoff(s) ==
    LET run == handoffs[s]
        done == [run EXCEPT !.state = "Cancelled"]
    IN
    /\ active = s /\ Cancellable(run)
    /\ IF run.dest = NoSession
         THEN /\ handoffs' = [handoffs EXCEPT ![s] = done]
              /\ UNCHANGED <<session, openEpoch, switching>>
         ELSE /\ \E o \in CloseView(handoffs,
                                    ClearLinks(session, {<<s, run.dest>>}), run.dest) :
                   /\ handoffs' = [o[1] EXCEPT ![s] = done]
                   /\ session' = o[2]
              /\ openEpoch' = CancelPendingSwitch(openEpoch)
              /\ switching' = SwitchCancelled
    /\ pending' = Released(s)
    /\ UNCHANGED <<handoffEpoch, opens, active, draft, listening, swaps, navigations>>

-----------------------------------------------------------------------------
(* What the person opens meanwhile *)

MayNavigate == navigations < MaxNavigations /\ navigations' = navigations + 1

\* `chain_head`: a click on a session that was handed off opens another one.
\* Only the divider of a destination that lost what it carried links back.
Reachable(q) ==
    \/ \A d \in Session : session[q].to = d => session[d].view = "deleted"
    \/ \E d \in Session : active = d /\ session[d].from = q /\ session[d].carry = "lost"

\* `resume` of a session with a view, or of a Muse session, whose view opens
\* on the click.  On the active one it only cancels a pending reopen.
Visit(q) ==
    /\ MayNavigate /\ Reachable(q)
    /\ \/ q # active /\ (Live(q) \/ (session[q].view = "stored" /\ session[q].lane = Muse))
          /\ Activate(q, CancelPendingSwitch(openEpoch))
          /\ session' = [session EXCEPT ![q].view = "live"]
       \/ q = active /\ switching = "reopen"
          /\ openEpoch' = openEpoch + 1 /\ switching' = "no"
          /\ UNCHANGED <<session, active, listening>>
    /\ UNCHANGED <<handoffs, handoffEpoch, pending, opens, draft, swaps>>

\* `resume` of a stored Claude Code or Codex session.
Reopen(q) ==
    /\ MayNavigate /\ Reachable(q)
    /\ session[q].view = "stored" /\ session[q].lane # Muse
    /\ Ask(q, session[q].lane, CancelPendingSwitch(openEpoch), "reopen")
    /\ UNCHANGED <<handoffs, handoffEpoch, pending, session, draft, swaps>>

\* `park_active`: the least recent of the parked views goes, but for a draft.
\* How many are parked is abstracted: any of them may be that one.  Of a
\* session no pack was submitted to, only the way it is opened again changes,
\* and `Stored` has that.
Evict(q) ==
    /\ session[q].pack.by # NoSession
    /\ Live(q) /\ q \notin {active, draft} \cup swaps
    /\ session' = Gone(session, q, "stored")
    /\ UNCHANGED <<handoffs, handoffEpoch, pending, opens, openEpoch, active,
                   draft, switching, listening, swaps, navigations>>

\* `new_session` on lane `p`: nothing while another open is on its way; a
\* draft is reopened; the view shows at once unless a handoff is pending.
NewSession(p) ==
    /\ MayNavigate /\ switching # "open"
    /\ LET e == CancelPendingSwitch(openEpoch) IN
       IF LiveDraft(session, p)
         THEN /\ draft # active /\ Activate(draft, e)
              /\ UNCHANGED <<session, opens, draft>>
         ELSE \/ /\ pending = NoPending /\ Room
                 /\ \E q \in Session :
                    /\ Created(q)
                    /\ session' = [session EXCEPT ![q].view = "live", ![q].lane = p]
                    /\ Activate(q, e) /\ draft' = q
                 /\ UNCHANGED opens
              \/ /\ pending # NoPending
                 /\ Ask(NoSession, p, e, "open") /\ draft' = NoSession
                 /\ UNCHANGED session
    /\ UNCHANGED <<handoffs, handoffEpoch, pending, swaps>>

-----------------------------------------------------------------------------
(* The lanes answer *)

\* A fault TLC must notice: the epoch of the pending request is not compared.
PendingOwnsAnyRun == pending # NoPending

\* The slot still speaks for its source's run, which no newer request owns.
PendingOwnsRun ==
    pending # NoPending /\ handoffs[pending.source].epoch = pending.epoch

\* A fault TLC must notice: a session of any lane takes the pack.
AwaitedAnywhere(p) ==
    PendingOwnsRun /\ handoffs[pending.source].state = "Checkpointed"

\* `land_handoff_destination`: the pending run, if it waits on this lane.
Awaited(p) ==
    /\ PendingOwnsRun
    /\ handoffs[pending.source].state = "Checkpointed"
    /\ handoffs[pending.source].to = p

Land(q, x) ==
    LET s == pending.source IN
    /\ handoffs' = [handoffs EXCEPT ![s].state = "Prepared", ![s].dest = q]
    /\ session' = [PersistLinks(x, s, q) EXCEPT
                     ![q].carry = "shown",
                     ![q].pack = [by |-> s, epoch |-> pending.epoch, turn |-> "sent"]]
    /\ pending' = NoPending

Current(o) == o.epoch = openEpoch

\* `finish_provider_open`: an overtaken open only hangs its child up.
OpenLands(o) ==
    /\ opens' = opens \ {o}
    /\ \/ /\ ~Current(o)
          /\ UNCHANGED <<handoffs, pending, session, openEpoch, active, draft,
                        switching, listening>>
       \/ /\ Current(o)
          /\ \E q \in Session :
             LET x == [session EXCEPT ![q].view = "live", ![q].lane = o.lane]
             IN /\ IF o.session = NoSession THEN Created(q) ELSE q = o.session
                /\ Activate(q, openEpoch)
                /\ draft' = IF o.session = NoSession THEN q ELSE draft
                /\ \/ Awaited(o.lane) /\ Land(q, x)
                   \/ ~Awaited(o.lane) /\ session' = x /\ UNCHANGED <<handoffs, pending>>
    /\ UNCHANGED <<handoffEpoch, swaps, navigations>>

\* The failed answer, `fail_provider_open` and `fail_pending_handoff`: the
\* pending run fails with whichever open is current, and every subscription
\* goes until the next activation.
OpenFails(o) ==
    /\ opens' = opens \ {o}
    /\ \/ /\ ~Current(o)
          /\ UNCHANGED <<handoffs, pending, active, switching, listening>>
       \/ /\ Current(o)
          /\ handoffs' = IF PendingOwnsRun
                           THEN [handoffs EXCEPT ![pending.source] = Fail(@)]
                           ELSE handoffs
          /\ pending' = NoPending
          /\ active' = NoSession /\ switching' = "no" /\ listening' = "no"
    /\ UNCHANGED <<handoffEpoch, session, openEpoch, draft, swaps, navigations>>

\* A view's event reaches its handler, or nobody.
Heard(outcomes, x) == IF listening = "yes" THEN outcomes ELSE {<<handoffs, x>>}

Turned(q, turn) == [session EXCEPT ![q].pack.turn = turn]

\* `acknowledge_handoff`: Acknowledged and Activated in one step, and the
\* source retired.
Acknowledge(x, q) ==
    LET holders == {s \in Session : handoffs[s].dest = q} IN
    IF holders = {} THEN {<<handoffs, x>>}
    ELSE {IF handoffs[s].state = "Prepared"
            THEN <<[handoffs EXCEPT ![s].state = "Activated"],
                   [PersistLinks(x, s, q) EXCEPT
                      ![q].carry = "kept",
                      ![s].retired = IF x[s].view = "live" THEN "yes" ELSE @]>>
            ELSE <<handoffs, x>> : s \in holders}

PackAccepted(q) ==
    /\ Live(q) /\ session[q].pack.turn = "sent"
    /\ LET x == [Turned(q, "running") EXCEPT ![q].turns = IF @ = "no" THEN "pack" ELSE @] IN
       \E o \in Heard(Acknowledge(x, q), x) :
         /\ handoffs' = o[1] /\ session' = o[2]
         /\ swaps' = IF o[1] # handoffs /\ active # q THEN swaps \cup {q} ELSE swaps
    /\ draft' = IF session[q].lane = Muse /\ draft = q THEN NoSession ELSE draft
    /\ UNCHANGED <<handoffEpoch, pending, opens, openEpoch, active, switching,
                   listening, navigations>>

PackRefused(q) ==
    /\ Live(q) /\ session[q].pack.turn \in {"sent", "lost"}
    /\ LET x == Turned(q, "refused") IN
       \E o \in Heard(FailHandoff(handoffs, x, q), x) :
         handoffs' = o[1] /\ session' = o[2]
    /\ UNCHANGED <<handoffEpoch, pending, opens, openEpoch, active, draft,
                   switching, listening, swaps, navigations>>

\* The queued swap that leaves the window on the destination.
Swap(q) ==
    /\ q \in swaps /\ swaps' = swaps \ {q}
    /\ Activate(q, openEpoch)
    /\ UNCHANGED <<handoffs, handoffEpoch, pending, session, opens, draft, navigations>>

\* `reconcile_pack_turns` on any settled turn: each run whose pack turn is
\* over is judged, once.
Judged(h, x) ==
    LET due(turn) == {s \in Session : /\ PackTurnCanFail(h[s])
                                      /\ x[h[s].dest].view = "live"
                                      /\ x[h[s].dest].pack.turn = turn}
        passed == [s \in Session |-> IF s \in due("answered")
                                       THEN [h[s] EXCEPT !.settled = "yes"] ELSE h[s]]
        failed == {h[s].dest : s \in due("failed")}
        first == {f \in [failed -> Session] : \A d \in failed : h[f[d]].dest = d}
    IN {FailRuns(passed, x, {<<f[d], d>> : d \in failed}) : f \in first}

PackTurnEnds(q) ==
    /\ Live(q) /\ session[q].pack.turn = "running"
    /\ \E turn \in {"answered", "failed"} :
         LET x == [Turned(q, turn) EXCEPT ![q].turns = "yes"] IN
         \E o \in Heard(Judged(handoffs, x), Turned(q, turn)) :
           handoffs' = o[1] /\ session' = o[2]
    /\ UNCHANGED <<handoffEpoch, pending, opens, openEpoch, active, draft,
                   switching, listening, swaps, navigations>>

\* `ConnectionLost` on a lane with a child of its own: the turn is cut, and
\* only some lanes say Closed.
LaneLost(q) ==
    /\ Live(q) /\ session[q].lane # Muse /\ session[q].pack.turn \in {"sent", "running"}
    /\ LET x == Turned(q, IF session[q].pack.turn = "sent" THEN "lost" ELSE "cut") IN
       \E o \in IF session[q].lane \in ClosingLanes
                  THEN Heard(LoseDestination(handoffs, x, q), x)
                  ELSE {<<handoffs, x>>} :
         handoffs' = o[1] /\ session' = o[2]
    /\ UNCHANGED <<handoffEpoch, pending, opens, openEpoch, active, draft,
                   switching, listening, swaps, navigations>>

-----------------------------------------------------------------------------
Answer(o) == OpenLands(o) \/ OpenFails(o)
PackAnswer(q) == PackAccepted(q) \/ PackRefused(q)

Done ==
    /\ opens = {} /\ swaps = {}
    /\ \A q \in Session : ~Live(q) \/ session[q].pack.turn \notin {"sent", "lost", "running"}
    /\ UNCHANGED vars

Next ==
    \/ \E s \in Session :
         \/ \E p \in Lane : RefuseAtConfirm(s, p) \/ StartRefused(s, p) \/ StartHandoff(s, p)
         \/ CancelHandoff(s) \/ Visit(s) \/ Reopen(s) \/ Evict(s)
         \/ PackAnswer(s) \/ PackTurnEnds(s) \/ LaneLost(s) \/ Swap(s)
    \/ \E p \in Lane : NewSession(p)
    \/ \E o \in opens : Answer(o)
    \/ Done

Spec == Init /\ [][Next]_vars

\* The lanes answer what they are asked, and the window runs what it queued.
FairSpec ==
    /\ Spec
    /\ WF_vars(\E o \in opens : Answer(o))
    /\ \A q \in Session : WF_vars(PackAnswer(q)) /\ WF_vars(Swap(q))

-----------------------------------------------------------------------------
(* Properties *)

RunStates == {"None", "Refused", "Checkpointed", "Prepared", "Activated",
              "Failed", "Cancelled"}
Packs == [by : Session \cup {NoSession}, epoch : 0..MaxHandoffs,
          turn : {"none", "sent", "lost", "running", "answered", "failed",
                  "refused", "cut"}]
Runs == [state : RunStates, epoch : 0..MaxHandoffs, to : Lane,
         dest : Session \cup {NoSession}, settled : {"no", "yes"}]
SessionRecords ==
    [lane : Lane, view : {"none", "stored", "live", "deleted"},
     turns : {"no", "pack", "yes"},
     to : Session \cup {NoSession}, from : Session \cup {NoSession},
     retired : {"no", "yes"}, pack : Packs,
     carry : {"no", "shown", "kept", "lost"}]

\* Every variable keeps its type (Harness's fields, the stores' links).
TypeOK ==
    /\ handoffs \in [Session -> Runs]
    /\ handoffEpoch \in 0..MaxHandoffs
    /\ pending \in [source : Session \cup {NoSession}, epoch : 0..MaxHandoffs]
    /\ session \in [Session -> SessionRecords]
    /\ opens \subseteq [epoch : Nat, session : Session \cup {NoSession},
                        lane : Lane]
    /\ openEpoch \in Nat
    /\ {active, draft} \subseteq Session \cup {NoSession}
    /\ switching \in {"no", "open", "reopen"} /\ listening \in {"no", "yes"}
    /\ swaps \subseteq Session /\ navigations \in 0..MaxNavigations

\* The one slot of `pending_handoff` never outlives what it waits for: while
\* it names a source's current run, that run is Checkpointed.  Landing,
\* failing, cancelling and a newer request each have to see to it.
PendingAwaitsACheckpoint ==
    pending # NoPending =>
      LET run == handoffs[pending.source] IN
      run.epoch = pending.epoch => run.state = "Checkpointed"

\* A handoff that failed or was cancelled leaves no half of its link in the
\* stores, on either session, so the source lists on its own again
\* (`clear_handoff_links`).
OverMeansUnlinked ==
    \A s \in Session :
      LET d == handoffs[s].dest IN
      handoffs[s].state \in {"Failed", "Cancelled"} /\ d # NoSession
        => session[s].to # d /\ session[d].from # s

\* A pack is only ever submitted on the lane its request named, whatever the
\* person opened between the request and the landing, and never on the
\* source's own.
PackOnTheRequestedLane ==
    \A q \in Session :
      LET pack == session[q].pack IN
      pack.by # NoSession =>
        /\ session[q].lane # session[pack.by].lane
        /\ handoffs[pack.by].epoch = pack.epoch => handoffs[pack.by].to = session[q].lane

\* While it is the same run, an ended one does not move on.
OutcomeKept(s) ==
    LET run == handoffs[s] IN
    run.epoch = handoffs'[s].epoch =>
      /\ run.state \in {"Refused", "Cancelled", "Failed"} => handoffs'[s].state = run.state
      /\ run.state = "Activated" =>
           \/ handoffs'[s].state = "Activated"
           \/ handoffs'[s].state = "Failed" /\ run.settled = "no"

\* What a run came to stands: one that was refused, cancelled or failed never
\* becomes anything else, and an activated one only fails with its pack turn.
OutcomesStand == [][\A s \in Session : OutcomeKept(s)]_vars

InFlight(s) == handoffs[s].state \in {"Checkpointed", "Prepared"}

\* Left alone, a handoff ends: its destination lands or fails to open, and
\* the pack is accepted or refused there.
UndisturbedHandoffsSettle ==
    \A s \in Session : InFlight(s) ~> (~InFlight(s) \/ navigations > 0)
=============================================================================

------------------------------ MODULE MuseHub ------------------------------
(***************************************************************************)
(* The shared Muse connection: `MuseHub` and `MuseLane`                    *)
(* (crates/provider-muse/src/hub.rs) with the window's side of a reconnect *)
(* (crates/baaz/src/app.rs `reconnect`, `on_hub_event`).  One `muse serve` *)
(* child serves every session; a reader thread per child folds its events  *)
(* and routes them to the lane bound to their session, or keeps them for   *)
(* the lane to come; a lost child is replaced by a worker that re-attaches *)
(* every followed session from its cursor.                                 *)
(*                                                                         *)
(* An event is its number in the session's log, which muse keeps across    *)
(* children.                                                               *)
(***************************************************************************)
EXTENDS Positions

CONSTANTS Sessions, Lanes, NoLane, NoSession,
          MaxChildren,  \* children spawned, the first one included
          MaxReconnects,
          MaxEvents,    \* events of a session
          OrphanLimit,  \* ORPHAN_LIMIT
          Hints         \* of "held", "stale" and "other": what refusals may say

ASSUME HubAssumption ==
    /\ Hints \subseteq {"held", "stale", "other"}
    /\ NoLane \notin Lanes /\ NoSession \notin Sessions
    /\ {MaxChildren, MaxReconnects, MaxEvents, OrphanLimit} \subseteq Nat \ {0}

VARIABLES
    child, feed, attached, log,  \* muse: the children, what each streams, the
                                 \* sessions it has open, the stored logs
    link, gen, genOf, rd, held,  \* Core.link, Core.generation, the readers
    cursor, routes, orphans,     \* Routed: the fold's cursors, the routes, the
    elsewhere,                   \* waiting events; events not due by the stream
    heard, conn,                 \* the lanes' streams and the connection stream
    bound, lpc,                  \* MuseLane.session; what the lane is doing
    wpc, mine, todo, mark,       \* the reconnect workers, the child of each
    wire, dialog,                \* the window
    view, notice,                \* a lane's view; what the views of a session say
    refusal,                     \* the refusals a worker brings the window
    unshown, overlapped          \* history: sessions refused and not told; two
                                 \* reconnects were under way at once

muse == <<child, feed, attached, log>>
reader == <<link, gen, genOf, rd, held>>
routed == <<cursor, routes, orphans, elsewhere, heard, conn>>
lane == <<bound, lpc>>
work == <<wpc, mine, todo, mark>>
window == <<wire, dialog, overlapped>>
telling == <<view, notice, refusal, unshown>>
vars == <<muse, reader, routed, lane, work, window, telling>>

Children == 1..MaxChildren
Workers == 1..MaxReconnects

Event(s, n) == [kind |-> "event", session |-> s, n |-> n]
Sign(kind) == [kind |-> kind, session |-> NoSession, n |-> 0]
Closed == Sign("closed")
Lost == Sign("lost")
Restored == Sign("restored")
None == Sign("none")
Events == [kind : {"event"}, session : Sessions, n : 1..MaxEvents]

Suffix(s, lo, hi) == [i \in 1..(hi - lo) |-> Event(s, lo + i)]

Live(c) == c # 0 /\ child[c] = "live"
Followed == {s \in Sessions : routes[s] # NoLane}

Init ==
    /\ child = [c \in Children |-> IF c = 1 THEN "live" ELSE "none"]
    /\ feed = [c \in Children |-> <<>>] /\ attached = [c \in Children |-> {}]
    /\ log = [s \in Sessions |-> 0]
    /\ link = 1 /\ gen = 1 /\ genOf = [c \in Children |-> IF c = 1 THEN 1 ELSE 0]
    /\ rd = [c \in Children |-> IF c = 1 THEN "recv" ELSE "none"]
    /\ held = [c \in Children |-> None]
    /\ cursor = [s \in Sessions |-> 0] /\ routes = [s \in Sessions |-> NoLane]
    /\ orphans = <<>> /\ elsewhere = {}
    /\ heard = [l \in Lanes |-> <<>>] /\ conn = <<>>
    /\ bound = [l \in Lanes |-> NoSession] /\ lpc = [l \in Lanes |-> "idle"]
    /\ wpc = [w \in Workers |-> "idle"] /\ mine = [w \in Workers |-> 0]
    /\ todo = [w \in Workers |-> {}]
    /\ mark = [w \in Workers |-> [session |-> NoSession, at |-> 0]]
    /\ wire = "ready" /\ dialog = FALSE /\ overlapped = FALSE
    /\ view = [l \in Lanes |-> "none"] /\ notice = [s \in Sessions |-> "none"]
    /\ refusal = [w \in Workers |-> [s \in Sessions |-> "none"]] /\ unshown = {}

-----------------------------------------------------------------------------
(* muse serve: external *)

\* A session open in the live child gets an event: stored, then streamed.
Produce(c, s) ==
    /\ Live(c) /\ s \in attached[c] /\ log[s] < MaxEvents
    /\ log' = [log EXCEPT ![s] = @ + 1]
    /\ feed' = [feed EXCEPT ![c] = Append(@, Event(s, log[s] + 1))]
    /\ UNCHANGED <<child, attached, reader, routed, lane, work, window, telling>>

\* A child ends, and its stream in a Closed: what it had stored but not yet
\* written is in no stream, only in the log.
Dies(c) ==
    /\ child' = [child EXCEPT ![c] = "dead"]
    /\ \E k \in 0..Len(feed[c]) :
           feed' = [feed EXCEPT ![c] = Append(SubSeq(@, 1, k), Closed)]

\* The last child stays up.
ChildExits(c) ==
    /\ Live(c) /\ c < MaxChildren /\ Dies(c)
    /\ UNCHANGED <<attached, log, reader, routed, lane, work, window, telling>>

-----------------------------------------------------------------------------
(* The reader of a child *)

\* recv, and the check that retires the reader of a replaced child.
Take(c) ==
    /\ rd[c] = "recv" /\ feed[c] # <<>>
    /\ feed' = [feed EXCEPT ![c] = Tail(@)]
    /\ IF genOf[c] = gen
       THEN rd' = [rd EXCEPT ![c] = "forwarding"] /\ held' = [held EXCEPT ![c] = Head(feed[c])]
       ELSE rd' = [rd EXCEPT ![c] = "gone"] /\ UNCHANGED held
    /\ UNCHANGED <<child, attached, log, link, gen, genOf, routed, lane, work, window, telling>>

\* route: to the lane of the session, else to the orphans, the oldest making
\* room.
Keep(e) ==
    LET full == Len(orphans) >= OrphanLimit
    IN /\ orphans' = Append(IF full THEN Tail(orphans) ELSE orphans, e)
       /\ elsewhere' = elsewhere \cup (IF full THEN {Head(orphans)} ELSE {})

Route(e) ==
    LET l == routes[e.session]
    IN IF l = NoLane
       THEN Keep(e) /\ UNCHANGED heard
       ELSE /\ heard' = [heard EXCEPT ![l] = Append(@, e)]
            /\ UNCHANGED <<orphans, elsewhere>>

\* broadcast: every routed lane, then the connection stream.
Broadcast(sign) ==
    /\ heard' = [l \in Lanes |-> IF \E s \in Sessions : routes[s] = l
                                 THEN Append(heard[l], sign) ELSE heard[l]]
    /\ conn' = Append(conn, sign)

Forward(c) ==
    /\ rd[c] = "forwarding"
    /\ held' = [held EXCEPT ![c] = None]
    /\ IF held[c] = Closed
       THEN /\ Broadcast(Lost)
            /\ rd' = [rd EXCEPT ![c] = "gone"]
            /\ UNCHANGED <<cursor, orphans, elsewhere>>
       ELSE /\ Route(held[c])
            /\ cursor' = [cursor EXCEPT ![held[c].session] = held[c].n]
            /\ rd' = [rd EXCEPT ![c] = "recv"]
            /\ UNCHANGED conn
    /\ UNCHANGED <<muse, link, gen, genOf, routes, lane, work, window, telling>>

-----------------------------------------------------------------------------
(* Lanes: a session is opened, resumed by another lane, left *)

\* Faults: the route of the session left stays; what waited is not handed over.
StillRouted(l) == routes

NothingWaits(s) == {}

\* MuseLane::bind: a lane on another session leaves that one first.  The window
\* knows the view of a stored session by its id at once, that of a new one only
\* when the open has landed.
NeverOpened(s) == \A c \in Children : s \notin attached[c]

Unrouted(l) == [s \in Sessions |-> IF s = bound[l] /\ routes[s] = l THEN NoLane ELSE routes[s]]

\* A view that closes takes what it said along, if no other shows its session.
Unseen(l) == {s \in Sessions : bound[l] = s /\ \A k \in Lanes \ {l} : bound[k] # s}

Closes(l) ==
    /\ notice' = [s \in Sessions |-> IF s \in Unseen(l) THEN "none" ELSE notice[s]]
    /\ unshown' = unshown \ Unseen(l)

LaneTakes(l, s) ==
    /\ lpc[l] = "idle" /\ view[l] # "failed"
    /\ bound' = [bound EXCEPT ![l] = s]
    /\ IF bound[l] = s
       THEN lpc' = [lpc EXCEPT ![l] = "attaching"] /\ UNCHANGED <<routes, view, notice, unshown>>
       ELSE /\ lpc' = [lpc EXCEPT ![l] = "binding"] /\ routes' = Unrouted(l)
            /\ view' = [view EXCEPT ![l] = IF NeverOpened(s) THEN "starting" ELSE "shown"]
            /\ Closes(l)
    /\ UNCHANGED <<muse, reader, cursor, orphans, elsewhere, heard, conn, work, window, refusal>>

\* Core::bind: the route, and what waited for it.
Waiting(s) == {i \in DOMAIN orphans : orphans[i].session = s}

Bind(l) ==
    /\ lpc[l] = "binding"
    /\ lpc' = [lpc EXCEPT ![l] = "attaching"]
    /\ routes' = [routes EXCEPT ![bound[l]] = l]
    /\ heard' = [heard EXCEPT ![l] = @ \o Rows(orphans, Waiting(bound[l]))]
    /\ orphans' = Rows(orphans, DOMAIN orphans \ Waiting(bound[l]))
    /\ UNCHANGED <<muse, reader, cursor, elsewhere, conn, bound, work, window, telling>>

\* session/start or session/resume on the child of the link.  A session the
\* child has open replays nothing; one it opens without a cursor leaves its
\* history to the pages.
Attached(l, s) ==
    /\ attached' = [attached EXCEPT ![link] = @ \cup {s}]
    /\ IF s \in attached[link]
       THEN UNCHANGED <<cursor, elsewhere>>
       ELSE /\ cursor' = [cursor EXCEPT ![s] = log[s]]
            /\ elsewhere' = elsewhere \cup {Event(s, n) : n \in (cursor[s] + 1)..log[s]}
    /\ notice' = [notice EXCEPT ![s] = "none"] /\ unshown' = unshown \ {s}
    /\ UNCHANGED view

\* A refused open: held elsewhere, the view says so; a stale history, it pages and
\* says nothing; else the start has failed, and landing shuts the lane down.
AttachRefused(l, s, hint) ==
    /\ view' = IF hint = "other" THEN [view EXCEPT ![l] = "failed"] ELSE view
    /\ notice' = IF hint = "held" THEN [notice EXCEPT ![s] = "lease"] ELSE notice
    /\ unshown' = IF hint = "stale" THEN unshown \cup {s} ELSE unshown
    /\ UNCHANGED <<attached, cursor, elsewhere>>

\* What muse may answer; a lost child answers nothing.
Refusals == IF Live(link) THEN Hints ELSE {"other"}

LaneAttach(l) ==
    /\ lpc[l] = "attaching"
    /\ lpc' = [lpc EXCEPT ![l] = "idle"]
    /\ \/ Live(link) /\ Attached(l, bound[l])
       \/ \E hint \in Refusals : AttachRefused(l, bound[l], hint)
    /\ UNCHANGED <<child, feed, log, reader, routes, orphans, heard, conn, bound, work, window, refusal>>

\* The open's answer reaches the window, which renames the view.
Land(l) ==
    /\ lpc[l] = "idle" /\ view[l] = "starting"
    /\ view' = [view EXCEPT ![l] = "shown"]
    /\ UNCHANGED <<muse, reader, routed, lane, work, window, notice, refusal, unshown>>

\* MuseLane::shutdown, when the view is closed or its start failed: unbound,
\* unless another lane has taken the session.
LaneShutdown(l) ==
    /\ lpc[l] = "idle" /\ bound[l] # NoSession
    /\ routes' = Unrouted(l)
    /\ bound' = [bound EXCEPT ![l] = NoSession]
    /\ view' = [view EXCEPT ![l] = "none"] /\ Closes(l)
    /\ UNCHANGED <<muse, reader, cursor, orphans, elsewhere, heard, conn, lpc, work, window, refusal>>

-----------------------------------------------------------------------------
(* MuseHub::reconnect, on a worker of the window *)

Spawn(w) ==
    /\ wpc[w] = "starting"
    /\ \/ /\ \E c \in Children :
               /\ child[c] = "none" /\ child[c - 1] # "none"
               /\ child' = [child EXCEPT ![c] = "live"]
               /\ mine' = [mine EXCEPT ![w] = c]
          /\ wpc' = [wpc EXCEPT ![w] = "spawned"]
       \/ wpc' = [wpc EXCEPT ![w] = "failed"] /\ UNCHANGED <<child, mine>>
    /\ UNCHANGED <<feed, attached, log, reader, routed, lane, todo, mark, window, telling>>

\* The new link; the client it replaces is dropped, which kills its child.
InstallLink(w) ==
    /\ wpc[w] = "spawned"
    /\ wpc' = [wpc EXCEPT ![w] = "linked"]
    /\ link' = mine[w]
    /\ IF Live(link) THEN Dies(link) ELSE UNCHANGED <<child, feed>>
    /\ UNCHANGED <<attached, log, gen, genOf, rd, held, routed, lane, mine, todo, mark, window, telling>>

StartReader(w) ==
    /\ wpc[w] = "linked"
    /\ wpc' = [wpc EXCEPT ![w] = "listing"]
    /\ gen' = gen + 1
    /\ genOf' = [genOf EXCEPT ![mine[w]] = gen + 1]
    /\ rd' = [rd EXCEPT ![mine[w]] = "recv"]
    /\ UNCHANGED <<muse, link, held, routed, lane, mine, todo, mark, window, telling>>

\* Fault: only sessions with a cursor are re-attached.
ListFollowedWithCursor(w) ==
    /\ wpc[w] = "listing"
    /\ wpc' = [wpc EXCEPT ![w] = "next"]
    /\ todo' = [todo EXCEPT ![w] = {s \in Followed : cursor[s] > 0}]
    /\ UNCHANGED <<muse, reader, routed, lane, mine, mark, window, telling>>

ListFollowed(w) ==
    /\ wpc[w] = "listing"
    /\ wpc' = [wpc EXCEPT ![w] = "next"]
    /\ todo' = [todo EXCEPT ![w] = Followed]
    /\ UNCHANGED <<muse, reader, routed, lane, mine, mark, window, telling>>

ReadCursor(w) ==
    /\ wpc[w] = "next"
    /\ \E s \in todo[w] : mark' = [mark EXCEPT ![w] = [session |-> s, at |-> cursor[s]]]
    /\ wpc' = [wpc EXCEPT ![w] = "resuming"]
    /\ UNCHANGED <<muse, reader, routed, lane, mine, todo, window, telling>>

\* session/resume from the cursor read: the suffix is streamed.  The worker keeps
\* a refusal for the window.
Resume(w) ==
    LET s == mark[w].session
        Refused == /\ \E hint \in Refusals : refusal' = [refusal EXCEPT ![w][s] = hint]
                   /\ UNCHANGED <<feed, attached, cursor, elsewhere, unshown>>
        Opened == /\ unshown' = unshown \ {s}
                  /\ attached' = [attached EXCEPT ![link] = @ \cup {s}]
                  /\ IF s \in attached[link]
                     THEN UNCHANGED <<feed, cursor, elsewhere>>
                     ELSE IF mark[w].at = 0
                     THEN /\ cursor' = [cursor EXCEPT ![s] = log[s]]
                          /\ elsewhere' = elsewhere \cup {Event(s, n) : n \in 1..log[s]}
                          /\ UNCHANGED feed
                     ELSE /\ feed' = [feed EXCEPT ![link] = @ \o Suffix(s, mark[w].at, log[s])]
                          /\ UNCHANGED <<cursor, elsewhere>>
                  /\ UNCHANGED refusal
    IN /\ wpc[w] = "resuming"
       /\ wpc' = [wpc EXCEPT ![w] = "next"]
       /\ todo' = [todo EXCEPT ![w] = @ \ {s}]
       /\ mark' = [mark EXCEPT ![w] = [session |-> NoSession, at |-> 0]]
       /\ Refused \/ (Live(link) /\ Opened)
       /\ UNCHANGED <<child, log, reader, routes, orphans, heard, conn, lane, mine, window, view, notice>>

Finish(w) ==
    /\ wpc[w] = "next" /\ todo[w] = {}
    /\ wpc' = [wpc EXCEPT ![w] = "finished"]
    /\ Broadcast(Restored)
    /\ UNCHANGED <<muse, reader, cursor, routes, orphans, elsewhere, lane, mine, todo, mark, window, telling>>

-----------------------------------------------------------------------------
(* The window *)

Busy(w) == wpc[w] \notin {"idle", "done"}

StartWorker(w) ==
    /\ wpc[w] = "idle" /\ \A v \in Workers : v < w => wpc[v] # "idle"
    /\ wpc' = [wpc EXCEPT ![w] = "starting"]
    /\ wire' = "reconnecting"
    /\ overlapped' = (overlapped \/ \E v \in Workers : Busy(v))

\* on_hub_event: a lost connection starts a reconnect, whatever else is running.
OnHubEvent ==
    /\ conn # <<>>
    /\ conn' = Tail(conn)
    /\ IF Head(conn) = Lost
       THEN \E w \in Workers : StartWorker(w)
       ELSE UNCHANGED <<wire, wpc, overlapped>>
    /\ UNCHANGED <<muse, reader, cursor, routes, orphans, elsewhere, heard, lane, mine, todo, mark, dialog, telling>>

\* The dialog's Reconnect.
Retry ==
    /\ dialog /\ dialog' = FALSE
    /\ \E w \in Workers : StartWorker(w)
    /\ UNCHANGED <<muse, reader, routed, lane, mine, todo, mark, telling>>

\* Fault: a failed worker is not reported.
OnSuccess(w) ==
    /\ wpc[w] = "finished"
    /\ wire' = "ready"
    /\ wpc' = [wpc EXCEPT ![w] = "done"]
    /\ UNCHANGED <<muse, reader, routed, lane, mine, todo, mark, dialog, overlapped, telling>>

\* What the views say after a reconnect: a followed session that was not refused
\* loses its lease notice, a refused one gets a notice or a banner, if the window
\* finds its view; a stale history is only logged.
Viewed(s) == \E l \in Lanes : bound[l] = s /\ view[l] # "starting"

Said(w, s) ==
    CASE refusal[w][s] = "none" /\ notice[s] = "lease" /\ s \in Followed /\ Viewed(s) -> "none"
      [] refusal[w][s] = "held" /\ Viewed(s) -> "lease"
      [] refusal[w][s] = "other" /\ Viewed(s) -> "banner"
      [] OTHER -> notice[s]

\* Sessions that stream nothing, and of which nothing is said from here on.
Untold(w) ==
    {s \in Sessions \ attached[link] :
        Said(w, s) = "none" /\ (refusal[w][s] # "none" \/ notice[s] # "none")}

\* The worker's result, back on the window's thread: a failure opens the dialog.
OnResult(w) ==
    /\ wpc[w] \in {"finished", "failed"}
    /\ wpc' = [wpc EXCEPT ![w] = "done"]
    /\ IF wpc[w] = "finished"
       THEN /\ wire' = "ready"
            /\ notice' = [s \in Sessions |-> Said(w, s)]
            /\ refusal' = [refusal EXCEPT ![w] = [s \in Sessions |-> "none"]]
            /\ unshown' = unshown \cup Untold(w)
            /\ UNCHANGED dialog
       ELSE wire' = "down" /\ dialog' = TRUE /\ UNCHANGED <<notice, refusal, unshown>>
    /\ UNCHANGED <<muse, reader, routed, lane, mine, todo, mark, overlapped, view>>

-----------------------------------------------------------------------------

ReaderStep(c) == Take(c) \/ Forward(c)
LaneStep(l) == Bind(l) \/ LaneAttach(l) \/ Land(l)
WorkerStep(w) ==
    \/ Spawn(w) \/ InstallLink(w) \/ StartReader(w) \/ ListFollowed(w)
    \/ ReadCursor(w) \/ Resume(w) \/ Finish(w) \/ OnResult(w)

Next ==
    \/ \E c \in Children : ChildExits(c) \/ ReaderStep(c) \/ \E s \in Sessions : Produce(c, s)
    \/ \E l \in Lanes : LaneStep(l) \/ LaneShutdown(l) \/ \E s \in Sessions : LaneTakes(l, s)
    \/ \E w \in Workers : WorkerStep(w)
    \/ OnHubEvent \/ Retry

Spec == Init /\ [][Next]_vars

\* A worker runs and muse answers it; nothing is asked of readers and lanes.
FairSpec == Spec /\ \A w \in Workers : WF_vars(WorkerStep(w))

-----------------------------------------------------------------------------
(* Properties *)

Answers == [Sessions -> {"none", "held", "stale", "other"}]

HubOK ==
    /\ child \in [Children -> {"none", "live", "dead"}]
    /\ feed \in [Children -> Seq(Events \cup {Closed})]
    /\ attached \in [Children -> SUBSET Sessions]
    /\ log \in [Sessions -> 0..MaxEvents]
    /\ link \in Children /\ gen \in Nat /\ genOf \in [Children -> Nat]
    /\ rd \in [Children -> {"none", "recv", "forwarding", "gone"}]
    /\ held \in [Children -> Events \cup {Closed, None}]
    /\ cursor \in [Sessions -> 0..MaxEvents]
    /\ routes \in [Sessions -> Lanes \cup {NoLane}]
    /\ orphans \in Seq(Events) /\ Len(orphans) <= OrphanLimit
    /\ elsewhere \subseteq Events
    /\ heard \in [Lanes -> Seq(Events \cup {Lost, Restored})] /\ conn \in Seq({Lost, Restored})
    /\ bound \in [Lanes -> Sessions \cup {NoSession}]
    /\ lpc \in [Lanes -> {"idle", "binding", "attaching"}]
    /\ wpc \in [Workers -> {"idle", "starting", "spawned", "failed", "linked", "listing",
                            "next", "resuming", "finished", "done"}]
    /\ mine \in [Workers -> Children \cup {0}] /\ todo \in [Workers -> SUBSET Sessions]
    /\ mark \in [Workers -> [session : Sessions \cup {NoSession}, at : 0..MaxEvents]]
    /\ wire \in {"ready", "reconnecting", "down"} /\ dialog \in BOOLEAN /\ overlapped \in BOOLEAN

TellingOK ==
    /\ view \in [Lanes -> {"none", "starting", "shown", "failed"}]
    /\ notice \in [Sessions -> {"none", "lease", "banner"}]
    /\ refusal \in [Workers -> Answers]
    /\ unshown \subseteq Sessions

TypeOK == HubOK /\ TellingOK

Times(e, q) == Cardinality({i \in DOMAIN q : q[i] = e})

\* Every event folded for a session reached exactly one lane, exactly once, or
\* waits for one; across lanes that come, go and take a session over, and across
\* a reconnect that streams the suffix.  Only pages and a full orphan buffer are
\* excepted.
EveryEventOnce ==
    \A s \in Sessions : \A n \in 1..MaxEvents :
        LET e == Event(s, n)
            hearing == {l \in Lanes : Times(e, heard[l]) > 0}
        IN /\ \A l \in Lanes : Times(e, heard[l]) <= 1
           /\ Times(e, orphans) + Cardinality(hearing) + Cardinality({e} \cap elsewhere)
                = IF n <= cursor[s] THEN 1 ELSE 0

\* A lane gets a session's events in their order, and what waits is newer than
\* what was delivered.
InSessionOrder ==
    \A l \in Lanes :
        LET q == heard[l] \o orphans
        IN \A i, j \in DOMAIN q :
              i < j /\ q[i].kind = "event" /\ q[i].session = q[j].session => q[i].n < q[j].n

\* What the lanes of a session hear of it: each event once, in order; unless a
\* reconnect was started while another was under way.
OnceAndInOrder == overlapped \/ (EveryEventOnce /\ InSessionOrder)

\* Nothing waits for a session that has a lane, and a lane is only ever routed
\* the session it is on.
RoutesAreCurrent ==
    /\ \A i \in DOMAIN orphans : routes[orphans[i].session] = NoLane
    /\ \A s \in Followed : bound[routes[s]] = s

\* Once all is quiet, every followed session streams from the child of the link,
\* its views say why not, or it is one of these, of which nothing is shown: one
\* refused for a stale history (app.rs:2502, lifecycle.rs:2134); a new one that a
\* reconnect was refused before its open had landed, so that no view is found for
\* it (app.rs:2495); one whose lease notice is taken down by the result of another
\* reconnect than the one refused it (app.rs:2485-2491).  No other is left out: not
\* one that never had an event, nor one that a lane took while the reconnect ran.
\* (MuseHub::reconnect, Harness::reconnect.)
Quiet ==
    /\ conn = <<>> /\ \A c \in Children : feed[c] = <<>> /\ rd[c] # "forwarding"
    /\ \A l \in Lanes : lpc[l] = "idle" /\ view[l] \in {"none", "shown"}
    /\ \A w \in Workers : wpc[w] \in {"idle", "done"}

Told == {s \in Sessions : notice[s] # "none"}

NoSessionLeftBehind ==
    Quiet /\ Live(link) => Followed \subseteq attached[link] \cup Told \cup unshown

\* What the comments say of a reconnect: each refused session is returned "for the
\* caller to show" (hub.rs:293), and one that is not held elsewhere "says what went
\* wrong" (app.rs:2482).  Those three break it.
EveryRefusalIsTold ==
    Quiet /\ Live(link) => Followed \subseteq attached[link] \cup Told

\* A lost connection is settled: the window is ready again or says it is down.
ReconnectSettles == (wire = "reconnecting") ~> (wire # "reconnecting")
=============================================================================

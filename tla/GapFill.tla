------------------------------ MODULE GapFill ------------------------------
(***************************************************************************)
(* The event plane of one session: `Inner::dispatch`, `gap_aborted` and    *)
(* `start_gap_fill` (crates/muse-client/src/client.rs).  A `view/gap` says *)
(* that the stream skips a range; the reader parks the session's live      *)
(* events while a muse-gapfill thread pages the range, then the thread     *)
(* emits the pages and the parked events.                                  *)
(*                                                                         *)
(* An event is its view cursor, a number: strictly increasing on the wire, *)
(* and only ever compared for equality by the code.  Sends into the event  *)
(* channel are steps of their own, since reader and fills share it.        *)
(***************************************************************************)
EXTENDS Positions

CONSTANTS MaxCursor,    \* events the session produces
          MaxGaps,      \* view/gap notifications the server sends
          PageLimit,    \* GAP_PAGE_LIMIT
          MaxPages,     \* GAP_MAX_PAGES
          MaxBuffered   \* GAP_MAX_BUFFERED

ASSUME BoundsAssumption ==
    /\ {MaxCursor, PageLimit, MaxPages, MaxBuffered} \subseteq Nat \ {0}
    /\ MaxGaps \in Nat

VARIABLES
    pos, gaps, link,    \* server: last cursor produced, gaps sent; the connection
    wire,               \* the child's stdout: events, gaps and page replies
    parking, parked,    \* GapState.buffering has the session; its buffer
    abandoned,          \* GapState.abandoned has the session
    readerOut,          \* what the reader still has to send into the channel
    fpc, cursor, pages, filled, aborted, fillOut, \* the gap-fill threads
    out,                \* the event channel: everything the app has been sent
    ahead               \* live events sent while a fill still had some to send

server == <<pos, gaps, link>>
gapState == <<parking, parked, abandoned>>
fill == <<fpc, cursor, pages, filled, aborted, fillOut>>
gapVars == <<server, wire, gapState, readerOut, fill, out, ahead>>

GapFills == 1..MaxGaps     \* every gap starts at most one fill

Event(n) == [kind |-> "event", at |-> n]
Gap(after) == [kind |-> "gap", at |-> after]
Abort == [kind |-> "abort", at |-> 0]
ClosedEvent == [kind |-> "closed", at |-> 0]
Events == [kind : {"event"}, at : 1..MaxCursor]
Parkable == Events \cup [kind : {"gap"}, at : 0..MaxCursor]
Sent == Parkable \cup {Abort, ClosedEvent}

\* A page reply: the fill that asked, its events, and whether nextCursor is set.
Page(f, lo, hi) == [kind |-> "page", fill |-> f, lo |-> lo, hi |-> hi, more |-> hi < pos]
Pages == [kind : {"page"}, fill : GapFills, lo : 1..(MaxCursor + 1), hi : 0..MaxCursor, more : BOOLEAN]

EventsOf(lo, hi) == [i \in 1..(hi - lo + 1) |-> Event(lo + i - 1)]
CursorsIn(s) == {s[i].at : i \in {j \in DOMAIN s : s[j].kind = "event"}}

GapInit ==
    /\ pos = 0 /\ gaps = 0 /\ link = "up"
    /\ wire = <<>> /\ readerOut = <<>> /\ out = <<>> /\ ahead = {}
    /\ parking = FALSE /\ parked = <<>> /\ abandoned = FALSE
    /\ fpc = [f \in GapFills |-> "none"]
    /\ cursor = [f \in GapFills |-> 0] /\ pages = [f \in GapFills |-> 0]
    /\ filled = [f \in GapFills |-> <<>>] /\ fillOut = [f \in GapFills |-> <<>>]
    /\ aborted = [f \in GapFills |-> FALSE]

-----------------------------------------------------------------------------
(* The server: external *)

Produce ==
    /\ link = "up" /\ pos < MaxCursor
    /\ pos' = pos + 1
    /\ wire' = Append(wire, Event(pos + 1))
    /\ UNCHANGED <<gaps, link, gapState, readerOut, fill, out, ahead>>

\* Events are dropped for a slow reader and the hole is announced.
Skip ==
    /\ link = "up" /\ gaps < MaxGaps
    /\ \E next \in (pos + 1)..MaxCursor : pos' = next
    /\ gaps' = gaps + 1
    /\ wire' = Append(wire, Gap(pos))
    /\ UNCHANGED <<link, gapState, readerOut, fill, out, ahead>>

ServePage(f) ==
    /\ link = "up" /\ fpc[f] = "asking"
    /\ fpc' = [fpc EXCEPT ![f] = "served"]
    /\ LET last == IF cursor[f] + PageLimit < pos THEN cursor[f] + PageLimit ELSE pos
       IN wire' = Append(wire, Page(f, cursor[f] + 1, last))
    /\ UNCHANGED <<server, gapState, readerOut, cursor, pages, filled, aborted, fillOut, out, ahead>>

Stop ==
    /\ link = "up" /\ link' = "stopped"
    /\ UNCHANGED <<pos, gaps, wire, gapState, readerOut, fill, out, ahead>>

-----------------------------------------------------------------------------
(* The reader thread *)

PassOn(e) ==
    /\ out' = Append(out, e)
    /\ ahead' = IF \E f \in GapFills : fillOut[f] # <<>> THEN ahead \cup CursorsIn(<<e>>) ELSE ahead

\* Fault TLC must notice: nothing is parked.
DispatchThrough(e) == PassOn(e) /\ UNCHANGED <<gapState, readerOut>>

\* dispatch: park, overflow or pass on.  An overflow gives the splice up:
\* everything parked goes out behind a GAP_ABORTED, the event last.
Dispatch(e) ==
    IF ~parking
    THEN PassOn(e) /\ UNCHANGED <<gapState, readerOut>>
    ELSE IF Len(parked) < MaxBuffered
    THEN /\ parked' = Append(parked, e)
         /\ UNCHANGED <<parking, abandoned, readerOut, out, ahead>>
    ELSE /\ parking' = FALSE /\ parked' = <<>> /\ abandoned' = TRUE
         /\ readerOut' = <<Abort>> \o parked \o <<e>>
         /\ UNCHANGED <<out, ahead>>

ReadEvent ==
    /\ wire # <<>> /\ readerOut = <<>> /\ Head(wire).kind = "event"
    /\ wire' = Tail(wire)
    /\ Dispatch(Head(wire))
    /\ UNCHANGED <<server, fill>>

\* A fill is started unless one is parking the session already; the gap itself
\* is then dispatched, so it is the first event parked.
ReadGap ==
    /\ wire # <<>> /\ readerOut = <<>> /\ Head(wire).kind = "gap"
    /\ wire' = Tail(wire)
    /\ IF parking
       THEN Dispatch(Head(wire)) /\ UNCHANGED fill
       ELSE \E f \in GapFills :
              /\ fpc[f] = "none" /\ \A g \in GapFills : g < f => fpc[g] # "none"
              /\ parking' = TRUE /\ parked' = <<Head(wire)>>
              /\ fpc' = [fpc EXCEPT ![f] = "asking"]
              /\ cursor' = [cursor EXCEPT ![f] = Head(wire).at]
              /\ UNCHANGED <<abandoned, readerOut, pages, filled, aborted, fillOut, out, ahead>>
    /\ UNCHANGED server

\* A page reply reaches the fill that waits for it; one that gave up is gone.
TakePage(f, p) ==
    /\ filled' = [filled EXCEPT ![f] = @ \o EventsOf(p.lo, p.hi)]
    /\ pages' = [pages EXCEPT ![f] = @ + 1]
    /\ IF p.more /\ p.lo <= p.hi
       THEN /\ cursor' = [cursor EXCEPT ![f] = p.hi]
            /\ IF pages[f] + 1 < MaxPages
               THEN fpc' = [fpc EXCEPT ![f] = "asking"] /\ UNCHANGED aborted
               ELSE /\ fpc' = [fpc EXCEPT ![f] = "ending"]
                    /\ aborted' = [aborted EXCEPT ![f] = TRUE]
       ELSE /\ fpc' = [fpc EXCEPT ![f] = "ending"]
            /\ UNCHANGED <<cursor, aborted>>
    /\ UNCHANGED fillOut

ReadPage ==
    /\ wire # <<>> /\ readerOut = <<>> /\ Head(wire).kind = "page"
    /\ wire' = Tail(wire)
    /\ IF fpc[Head(wire).fill] = "served" THEN TakePage(Head(wire).fill, Head(wire))
       ELSE UNCHANGED fill
    /\ UNCHANGED <<server, gapState, readerOut, out, ahead>>

ReaderSend ==
    /\ readerOut # <<>>
    /\ out' = Append(out, Head(readerOut))
    /\ readerOut' = Tail(readerOut)
    /\ UNCHANGED <<server, wire, gapState, fill, ahead>>

ReadEnd ==
    /\ wire = <<>> /\ readerOut = <<>> /\ link = "stopped"
    /\ link' = "closed"
    /\ out' = Append(out, ClosedEvent)
    /\ UNCHANGED <<pos, gaps, wire, gapState, readerOut, fill, ahead>>

-----------------------------------------------------------------------------
(* The muse-gapfill threads *)

\* Faults: a failed page ends the fill with nothing said, or without a release.
PageFailsSilently(f) ==
    /\ fpc[f] \in {"asking", "served"}
    /\ fpc' = [fpc EXCEPT ![f] = "ending"]
    /\ UNCHANGED <<server, wire, gapState, readerOut, cursor, pages, filled, aborted, fillOut, out, ahead>>

PageFailsAndReturns(f) ==
    /\ fpc[f] \in {"asking", "served"}
    /\ fpc' = [fpc EXCEPT ![f] = "done"]
    /\ UNCHANGED <<server, wire, gapState, readerOut, cursor, pages, filled, aborted, fillOut, out, ahead>>

\* view/page answered with an error, timed out, or the connection closed.
PageFails(f) ==
    /\ fpc[f] \in {"asking", "served"}
    /\ fpc' = [fpc EXCEPT ![f] = "ending"]
    /\ aborted' = [aborted EXCEPT ![f] = TRUE]
    /\ UNCHANGED <<server, wire, gapState, readerOut, cursor, pages, filled, fillOut, out, ahead>>

\* Fault: no deduplication.
KeepAll(f) == parked

\* The last step under the gap lock: drop the pages if the parking was given up
\* on, else take the parked events, without those the pages covered.
Unseen(f) == {i \in DOMAIN parked : parked[i].kind # "event" \/ parked[i].at \notin CursorsIn(filled[f])}
NotSeen(f) == Rows(parked, Unseen(f))

Release(f) ==
    /\ fpc[f] = "ending"
    /\ IF abandoned
       THEN /\ abandoned' = FALSE
            /\ fpc' = [fpc EXCEPT ![f] = "done"]
            /\ UNCHANGED <<parking, parked, fillOut>>
       ELSE /\ parking' = FALSE /\ parked' = <<>>
            /\ fpc' = [fpc EXCEPT ![f] = "sending"]
            /\ fillOut' = [fillOut EXCEPT ![f] =
                 (IF aborted[f] THEN <<Abort>> ELSE <<>>) \o filled[f] \o NotSeen(f)]
            /\ UNCHANGED abandoned
    /\ UNCHANGED <<server, wire, readerOut, cursor, pages, filled, aborted, out, ahead>>

FillSend(f) ==
    /\ fpc[f] = "sending"
    /\ IF fillOut[f] = <<>>
       THEN fpc' = [fpc EXCEPT ![f] = "done"] /\ UNCHANGED <<fillOut, out, ahead>>
       ELSE /\ out' = Append(out, Head(fillOut[f]))
            /\ fillOut' = [fillOut EXCEPT ![f] = Tail(@)]
            /\ UNCHANGED fpc
    /\ UNCHANGED <<server, wire, gapState, readerOut, cursor, pages, filled, aborted, ahead>>

\* Nothing more can happen on a closed connection.
GapFinished ==
    /\ link = "closed" /\ \A f \in GapFills : fpc[f] \in {"none", "done"}
    /\ UNCHANGED gapVars

ReaderTurn == ReadEvent \/ ReadGap \/ ReadPage \/ ReaderSend \/ ReadEnd
FillStep(f) == PageFails(f) \/ Release(f) \/ FillSend(f)

GapNext ==
    \/ Produce \/ Skip \/ Stop \/ \E f \in GapFills : ServePage(f)
    \/ ReaderTurn
    \/ \E f \in GapFills : FillStep(f)
    \/ GapFinished

GapSpec == GapInit /\ [][GapNext]_gapVars

\* Both threads keep running, and a request that is not answered times out.
FairGapSpec == GapSpec /\ WF_gapVars(ReaderTurn) /\ \A f \in GapFills : WF_gapVars(FillStep(f))

-----------------------------------------------------------------------------
(* Properties *)

GapTypeOK ==
    /\ pos \in 0..MaxCursor /\ gaps \in 0..MaxGaps
    /\ link \in {"up", "stopped", "closed"}
    /\ wire \in Seq(Parkable \cup Pages)
    /\ parking \in BOOLEAN /\ abandoned \in BOOLEAN
    /\ parked \in Seq(Parkable) /\ Len(parked) <= MaxBuffered
    /\ readerOut \in Seq(Sent) /\ out \in Seq(Sent) /\ ahead \subseteq 1..MaxCursor
    /\ fpc \in [GapFills -> {"none", "asking", "served", "ending", "sending", "done"}]
    /\ cursor \in [GapFills -> 0..MaxCursor] /\ pages \in [GapFills -> 0..MaxPages]
    /\ aborted \in [GapFills -> BOOLEAN]
    /\ filled \in [GapFills -> Seq(Events)] /\ fillOut \in [GapFills -> Seq(Sent)]

\* The events of what is sent, in the order of their cursors.
Increasing(s) ==
    \A i, j \in DOMAIN s :
        i < j /\ s[i].kind = "event" /\ s[j].kind = "event" => s[i].at < s[j].at

\* The splice is seamless: what a fill emits, the pages and then the parked
\* events it did not cover, is strictly in cursor order, whatever was parked
\* while the pages were fetched and wherever the paging stopped; and so is what
\* an overflow releases.
SplicesAreInOrder ==
    /\ Increasing(readerOut)
    /\ \A f \in GapFills : Increasing(fillOut[f])

\* The app hears the session in order: a page never follows a live event it
\* precedes, wherever the paging stopped and however parking ended (pages are
\* "dropped rather than spliced in behind live events that have already gone
\* through", GapState.abandoned).  Excepted are the live events that reach the
\* channel between a fill's unlock and its last send (client.rs:1065-1080);
\* with a second gap it may fail altogether.
InOrderUnlessOvertaken ==
    gaps <= 1 => \A i, j \in DOMAIN out :
        i < j /\ out[i].kind = "event" /\ out[j].kind = "event" =>
            out[i].at < out[j].at \/ out[i].at \in ahead

\* "The event stream, in wire order" (client.rs:550): those live events break it.
HeardInWireOrder == gaps <= 1 => Increasing(out)

\* No event reaches the app twice, although the pages and the parked events
\* overlap.
NoEventTwice ==
    gaps <= 1 => \A i, j \in DOMAIN out :
        out[i].kind = "event" /\ out[j].kind = "event" /\ out[i].at = out[j].at => i = j

\* What the reader sends and what a fill splices in: each event once, in order.
OnceAndInOrder == SplicesAreInOrder /\ NoEventTwice

Quiet == /\ wire = <<>> /\ readerOut = <<>>
         /\ \A f \in GapFills : fpc[f] \in {"none", "done"}

\* When everything is delivered the app has every event the session produced,
\* or has been told that a backfill gave up.
CompleteOrReported ==
    Quiet /\ gaps <= 1 =>
      1..pos \subseteq CursorsIn(out) \/ \E i \in DOMAIN out : out[i] = Abort

\* A session is parked only while a fill that will release it is running, and
\* it is released in the end.
ParkingEnds == parking ~> ~parking
=============================================================================

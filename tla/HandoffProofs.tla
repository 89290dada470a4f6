---------------------------- MODULE HandoffProofs ----------------------------
(***************************************************************************)
(* Safety of the handoff for any sessions, lanes and bounds.               *)
(***************************************************************************)
EXTENDS Handoff, TLAPS

Over == {"Failed", "Cancelled"}
Unopened == {"None", "Refused", "Checkpointed"}

\* No half of the link of a run that is over is in `x`.
Unlinked(h, x) ==
    \A s \in Session :
      LET d == h[s].dest IN
      h[s].state \in Over /\ d # NoSession => x[s].to # d /\ x[d].from # s

\* A run without a destination, and a slot and packs of requests made so far.
NothingOpenedYet ==
    \A s \in Session : handoffs[s].state \in Unopened => handoffs[s].dest = NoSession

EpochsWereGiven ==
    /\ pending # NoPending => pending.source \in Session /\ pending.epoch <= handoffEpoch
    /\ \A s \in Session : handoffs[s].epoch <= handoffEpoch
    /\ \A q \in Session : session[q].pack.by # NoSession
                            => session[q].pack.epoch <= handoffEpoch

\* A session keeps the lane it was made on: what asks of it, and what was
\* asked for it, name that lane.
LanesAreFixed ==
    /\ \A q \in Session : session[q].view = "none" =>
         session[q].turns = "no" /\ session[q].pack.by = NoSession
    /\ \A q \in Session : session[q].pack.by # NoSession =>
         session[session[q].pack.by].view # "none"
    /\ \A s \in Session : handoffs[s].state = "Checkpointed" =>
         session[s].view # "none" /\ session[s].lane # handoffs[s].to
    /\ \A ask \in opens : ask.session # NoSession =>
         session[ask.session].view # "none" /\ session[ask.session].lane = ask.lane

IInv ==
    /\ TypeOK /\ NothingOpenedYet /\ EpochsWereGiven /\ LanesAreFixed
    /\ PendingAwaitsACheckpoint /\ OverMeansUnlinked /\ PackOnTheRequestedLane

-----------------------------------------------------------------------------
(* What the steps the handlers share keep of the runs and the sessions *)

SessionsKept(x, y) ==
    /\ y \in [Session -> SessionRecords]
    /\ \A q \in Session :
         /\ x[q].view # "none" => y[q].view # "none" /\ y[q].lane = x[q].lane
         /\ y[q].view = "none" => y[q].turns = x[q].turns
         /\ y[q].pack.by = x[q].pack.by /\ y[q].pack.epoch = x[q].pack.epoch

Follows(h, x, g, y) ==
    /\ g \in [Session -> Runs]
    /\ \A s \in Session :
         /\ g[s].epoch = h[s].epoch /\ g[s].to = h[s].to /\ g[s].dest = h[s].dest
         /\ h[s].settled = "yes" => g[s].settled = "yes"
         /\ \/ g[s].state = h[s].state
            \/ /\ h[s].state \in {"Prepared", "Activated"} /\ h[s].settled = "no"
               /\ g[s].state = "Failed"
    /\ SessionsKept(x, y)
    /\ \A q \in Session : y[q].to \in {x[q].to, NoSession} /\ y[q].from \in {x[q].from, NoSession}
    /\ Unlinked(g, y)

LEMMA ClearLinksKeeps ==
  ASSUME NEW x \in [Session -> SessionRecords], NEW links
  PROVE  /\ ClearLinks(x, links) \in [Session -> SessionRecords]
         /\ \A q \in Session :
              LET y == ClearLinks(x, links) IN
              /\ y[q].lane = x[q].lane /\ y[q].pack = x[q].pack
              /\ y[q].view = x[q].view /\ y[q].turns = x[q].turns
              /\ y[q].to \in {x[q].to, NoSession} /\ y[q].from \in {x[q].from, NoSession}
              /\ \A d \in Session : <<q, d>> \in links => y[q].to # d
              /\ \A s \in Session : <<s, q>> \in links => y[q].from # s
<1>. DEFINE to(q) == IF <<q, x[q].to>> \in links THEN NoSession ELSE x[q].to
            from(q) == IF <<x[q].from, q>> \in links THEN NoSession ELSE x[q].from
<1>1. ASSUME NEW q \in Session
      PROVE  /\ to(q) \in {x[q].to, NoSession} /\ from(q) \in {x[q].from, NoSession}
             /\ \A d \in Session : <<q, d>> \in links => to(q) # d
             /\ \A s \in Session : <<s, q>> \in links => from(q) # s
  BY HandoffAssumption
<1>2. ASSUME NEW q \in Session
      PROVE  ClearLinks(x, links)[q] = [x[q] EXCEPT !.to = to(q), !.from = from(q)]
  BY DEF ClearLinks
<1>3. ASSUME NEW q \in Session PROVE ClearLinks(x, links)[q] \in SessionRecords
  <2>. HIDE DEF to, from
  <2>. QED
    BY <1>1, <1>2 DEF SessionRecords
<1>4. ClearLinks(x, links) \in [Session -> SessionRecords]
  BY <1>3 DEF ClearLinks
<1>5. ASSUME NEW q \in Session
      PROVE  LET y == ClearLinks(x, links) IN
             /\ y[q].lane = x[q].lane /\ y[q].pack = x[q].pack
             /\ y[q].view = x[q].view /\ y[q].turns = x[q].turns
             /\ y[q].to = to(q) /\ y[q].from = from(q)
  <2>1. x[q] \in SessionRecords
    OBVIOUS
  <2>. DEFINE y == ClearLinks(x, links)
  <2>2. y[q] = [x[q] EXCEPT !.to = to(q), !.from = from(q)]
    BY <1>2
  <2>. HIDE DEF to, from, y
  <2>3. /\ y[q].lane = x[q].lane /\ y[q].pack = x[q].pack
        /\ y[q].view = x[q].view /\ y[q].turns = x[q].turns
        /\ y[q].to = to(q) /\ y[q].from = from(q)
    BY <2>1, <2>2 DEF SessionRecords
  <2>. QED
    BY <2>3 DEF y
<1>. HIDE DEF to, from
<1>. QED
  BY <1>1, <1>4, <1>5

LEMMA FailRunsFollows ==
  ASSUME NEW h \in [Session -> Runs], NEW x \in [Session -> SessionRecords], Unlinked(h, x),
         NEW links, \A s, d \in Session : <<s, d>> \in links => h[s].dest = d
  PROVE  Follows(h, x, FailRuns(h, x, links)[1], FailRuns(h, x, links)[2])
<1>. DEFINE g == FailRuns(h, x, links)[1]
            y == ClearLinks(x, links)
<1>1. /\ FailRuns(h, x, links)[2] = y
      /\ g = [s \in Session |-> IF \E d \in Session : <<s, d>> \in links
                                  THEN FailPackTurn(h[s]) ELSE h[s]]
  BY DEF FailRuns
<1>2. ASSUME NEW s \in Session
      PROVE  /\ g[s] \in Runs
             /\ g[s].epoch = h[s].epoch /\ g[s].to = h[s].to /\ g[s].dest = h[s].dest
             /\ h[s].settled = "yes" => g[s].settled = "yes"
             /\ \/ g[s].state = h[s].state
                \/ /\ h[s].state \in {"Prepared", "Activated"} /\ h[s].settled = "no"
                   /\ g[s].state = "Failed"
                   /\ \E d \in Session : <<s, d>> \in links
  <2>. h[s] \in Runs
    OBVIOUS
  <2>1. CASE g[s] = h[s]
    BY <2>1 DEF Runs
  <2>2. CASE /\ g[s] = [h[s] EXCEPT !.state = "Failed", !.settled = "yes"]
             /\ PackTurnCanFail(h[s]) /\ \E d \in Session : <<s, d>> \in links
    <3>. HIDE DEF g
    <3>. QED
      BY <2>2 DEF PackTurnCanFail, Runs, RunStates
  <2>. QED
    BY <1>1, <2>1, <2>2 DEF FailPackTurn
<1>3. g \in [Session -> Runs]
  BY <1>1, <1>2
<1>4. Unlinked(g, y)
  <2>. SUFFICES ASSUME NEW s \in Session, NEW d, d = g[s].dest,
                       g[s].state \in Over, d # NoSession
                PROVE  y[s].to # d /\ y[d].from # s
    BY DEF Unlinked
  <2>1. d \in Session /\ d = h[s].dest
    BY <1>2 DEF Runs
  <2>. HIDE DEF g, y
  <2>4. /\ y[s].to \in {x[s].to, NoSession} /\ y[d].from \in {x[d].from, NoSession}
        /\ <<s, d>> \in links => y[s].to # d /\ y[d].from # s
    BY <2>1, ClearLinksKeeps DEF y
  <2>2. CASE g[s].state = h[s].state
    BY <2>1, <2>2, <2>4, HandoffAssumption DEF Unlinked
  <2>3. CASE \E e \in Session : <<s, e>> \in links
    BY <2>1, <2>3, <2>4
  <2>. QED
    BY <1>2, <2>2, <2>3
<1>5. /\ y \in [Session -> SessionRecords]
      /\ \A q \in Session : /\ y[q].lane = x[q].lane /\ y[q].pack = x[q].pack
                             /\ y[q].view = x[q].view /\ y[q].turns = x[q].turns
                             /\ y[q].to \in {x[q].to, NoSession}
                             /\ y[q].from \in {x[q].from, NoSession}
  BY ClearLinksKeeps
<1>6. Follows(h, x, g, y)
  <2>. HIDE DEF g, y
  <2>. QED
    BY <1>2, <1>3, <1>4, <1>5 DEF Follows, SessionsKept
<1>. QED
  BY <1>1, <1>6

LEMMA FollowsSelf ==
  ASSUME NEW h \in [Session -> Runs], NEW x \in [Session -> SessionRecords], Unlinked(h, x)
  PROVE  Follows(h, x, h, x)
  BY DEF Follows, SessionsKept

LEMMA FailHandoffFollows ==
  ASSUME NEW h \in [Session -> Runs], NEW x \in [Session -> SessionRecords], Unlinked(h, x),
         NEW d, NEW o \in FailHandoff(h, x, d)
  PROVE  Follows(h, x, o[1], o[2])
<1>1. CASE {s \in Session : h[s].dest = d} = {}
  BY <1>1, FollowsSelf DEF FailHandoff
<1>2. ASSUME NEW s \in Session, h[s].dest = d, o = FailRuns(h, x, {<<s, d>>})
      PROVE  Follows(h, x, o[1], o[2])
  BY <1>2, FailRunsFollows
<1>. QED
  BY <1>1, <1>2 DEF FailHandoff

LEMMA LoseDestinationFollows ==
  ASSUME NEW h \in [Session -> Runs], NEW x \in [Session -> SessionRecords], Unlinked(h, x),
         NEW d, NEW o \in LoseDestination(h, x, d)
  PROVE  Follows(h, x, o[1], o[2])
  BY FailHandoffFollows, FollowsSelf DEF LoseDestination

LEMMA GoneKeeps ==
  ASSUME NEW x \in [Session -> SessionRecords], NEW d \in Session,
         NEW view \in {"stored", "deleted"}
  PROVE  LET y == Gone(x, d, view) IN
         /\ y \in [Session -> SessionRecords]
         /\ \A q \in Session :
              /\ y[q].lane = x[q].lane /\ y[q].turns = x[q].turns
              /\ y[q].pack.by = x[q].pack.by /\ y[q].pack.epoch = x[q].pack.epoch
              /\ y[q].to = x[q].to /\ y[q].from = x[q].from
              /\ y[q].view = "none" => x[q].view = "none"
<1>. DEFINE y == Gone(x, d, view)
<1>1. x[d] \in SessionRecords
  OBVIOUS
<1>2. PICK carry \in {"no", "shown", "kept", "lost"}, turn \in {"cut", x[d].pack.turn} :
        y = [x EXCEPT ![d] = [x[d] EXCEPT !.view = view, !.retired = "no", !.carry = carry,
                                          !.pack = [x[d].pack EXCEPT !.turn = turn]]]
  <2>. DEFINE carry == IF x[d].carry = "shown" THEN "lost" ELSE x[d].carry
              unheard == x[d].pack.turn \in {"sent", "lost"}
                           \/ (x[d].pack.turn = "running" /\ x[d].carry # "kept")
              turn == IF unheard THEN "cut" ELSE x[d].pack.turn
  <2>1. carry \in {"no", "shown", "kept", "lost"} /\ turn \in {"cut", x[d].pack.turn}
    BY <1>1 DEF SessionRecords
  <2>2. y = [x EXCEPT ![d] = [x[d] EXCEPT !.view = view, !.retired = "no", !.carry = carry,
                                          !.pack = [x[d].pack EXCEPT !.turn = turn]]]
    BY <1>1 DEF Gone, SessionRecords
  <2>. QED
    BY <2>1, <2>2
<1>. HIDE DEF y
<1>7. x[d].pack \in Packs
  BY <1>1 DEF SessionRecords
<1>8. PICK pack \in Packs : /\ pack.by = x[d].pack.by /\ pack.epoch = x[d].pack.epoch
                            /\ y[d] = [x[d] EXCEPT !.view = view, !.retired = "no",
                                                   !.carry = carry, !.pack = pack]
  BY <1>2, <1>7 DEF Packs
<1>3. /\ y[d] \in SessionRecords
      /\ y[d].lane = x[d].lane /\ y[d].turns = x[d].turns
      /\ y[d].pack.by = x[d].pack.by /\ y[d].pack.epoch = x[d].pack.epoch
      /\ y[d].to = x[d].to /\ y[d].from = x[d].from /\ y[d].view # "none"
  BY <1>1, <1>8 DEF SessionRecords
<1>4. \A q \in Session : q # d => y[q] = x[q]
  BY <1>2
<1>5. y \in [Session -> SessionRecords]
  BY <1>2, <1>3
<1>6. \A q \in Session :
        /\ y[q].lane = x[q].lane /\ y[q].turns = x[q].turns
        /\ y[q].pack.by = x[q].pack.by /\ y[q].pack.epoch = x[q].pack.epoch
        /\ y[q].to = x[q].to /\ y[q].from = x[q].from
        /\ y[q].view = "none" => x[q].view = "none"
  BY <1>3, <1>4
<1>. QED
  BY <1>5, <1>6 DEF y

LEMMA CloseViewFollows ==
  ASSUME NEW h \in [Session -> Runs], NEW x \in [Session -> SessionRecords], Unlinked(h, x),
         NEW d \in Session, NEW o \in CloseView(h, x, d)
  PROVE  Follows(h, x, o[1], o[2])
<1>. PICK p \in LoseDestination(h, x, d) : o = <<p[1], Forget(p[2], d)>>
  BY DEF CloseView
<1>. DEFINE g == p[1]
            z == p[2]
            y == Forget(p[2], d)
<1>1. Follows(h, x, g, z)
  BY LoseDestinationFollows
<1>2. PICK view \in {"stored", "deleted"} : y = Gone(z, d, view)
  BY DEF Forget
<1>3. z \in [Session -> SessionRecords]
  BY <1>1 DEF Follows, SessionsKept
<1>4. /\ y \in [Session -> SessionRecords]
      /\ \A q \in Session :
           /\ y[q].lane = z[q].lane /\ y[q].turns = z[q].turns
           /\ y[q].pack.by = z[q].pack.by /\ y[q].pack.epoch = z[q].pack.epoch
           /\ y[q].to = z[q].to /\ y[q].from = z[q].from
           /\ y[q].view = "none" => z[q].view = "none"
  BY <1>2, <1>3, GoneKeeps
<1>. HIDE DEF g, y, z
<1>5. Unlinked(g, y)
  <2>1. \A s \in Session : g[s].dest \in Session \cup {NoSession}
    BY <1>1 DEF Follows, SessionsKept, Runs
  <2>. QED
    BY <1>1, <1>4, <2>1 DEF Follows, SessionsKept, Unlinked
<1>6. SessionsKept(x, y)
  BY <1>1, <1>4 DEF Follows, SessionsKept
<1>7. \A q \in Session : y[q].to \in {x[q].to, NoSession} /\ y[q].from \in {x[q].from, NoSession}
  BY <1>1, <1>4 DEF Follows
<1>8. Follows(h, x, g, y)
  BY <1>1, <1>5, <1>6, <1>7 DEF Follows
<1>. QED
  BY <1>8 DEF g, y

LEMMA JudgedFollows ==
  ASSUME NEW h \in [Session -> Runs], NEW x \in [Session -> SessionRecords], Unlinked(h, x),
         NEW o \in Judged(h, x)
  PROVE  Follows(h, x, o[1], o[2])
<1>. DEFINE due(turn) == {s \in Session : /\ PackTurnCanFail(h[s])
                                          /\ x[h[s].dest].view = "live"
                                          /\ x[h[s].dest].pack.turn = turn}
            passed == [s \in Session |-> IF s \in due("answered")
                                           THEN [h[s] EXCEPT !.settled = "yes"] ELSE h[s]]
            failed == {h[s].dest : s \in due("failed")}
<1>1. PICK f \in [failed -> Session] :
        /\ \A d \in failed : h[f[d]].dest = d
        /\ o = FailRuns(passed, x, {<<f[d], d>> : d \in failed})
  BY DEF Judged
<1>. DEFINE links == {<<f[d], d>> : d \in failed}
<1>2. ASSUME NEW s \in Session
      PROVE  /\ passed[s] \in Runs
             /\ passed[s].epoch = h[s].epoch /\ passed[s].to = h[s].to
             /\ passed[s].dest = h[s].dest /\ passed[s].state = h[s].state
             /\ h[s].settled = "yes" => passed[s].settled = "yes"
  <2>. h[s] \in Runs
    OBVIOUS
  <2>1. passed[s] = h[s] \/ passed[s] = [h[s] EXCEPT !.settled = "yes"]
    OBVIOUS
  <2>. HIDE DEF passed
  <2>. QED
    BY <2>1 DEF Runs
<1>3. passed \in [Session -> Runs]
  BY <1>2
<1>4. \A s, d \in Session : <<s, d>> \in links => passed[s].dest = d
  BY <1>1, <1>2
<1>. HIDE DEF passed, links
<1>5. Unlinked(passed, x)
  BY <1>2 DEF Unlinked
<1>6. Follows(passed, x, o[1], o[2])
  BY <1>1, <1>3, <1>4, <1>5, FailRunsFollows DEF links
<1>7. \A s \in Session : h[s].settled \in {"no", "yes"}
  BY DEF Runs
<1>. QED
  BY <1>2, <1>6, <1>7 DEF Follows, SessionsKept

LEMMA NoRunTyped == NoRun \in Runs
  BY HandoffAssumption DEF NoRun, Runs, RunStates

LEMMA ClearedUnlinked ==
  ASSUME NEW h \in [Session -> Runs], NEW x \in [Session -> SessionRecords], Unlinked(h, x),
         NEW links
  PROVE  Unlinked(h, ClearLinks(x, links))
<1>1. \A s \in Session : h[s].dest \in Session \cup {NoSession}
  BY DEF Runs
<1>. DEFINE y == ClearLinks(x, links)
<1>2. \A q \in Session : y[q].to \in {x[q].to, NoSession} /\ y[q].from \in {x[q].from, NoSession}
  BY ClearLinksKeeps
<1>3. Unlinked(h, y)
  <2>. HIDE DEF y
  <2>. QED
    BY <1>1, <1>2, HandoffAssumption DEF Unlinked
<1>. QED
  BY <1>3

\* Closing the view of a run's destination, the links cleared first.
LEMMA CloseClearedFollows ==
  ASSUME NEW h \in [Session -> Runs], NEW x \in [Session -> SessionRecords], Unlinked(h, x),
         NEW s \in Session, NEW d \in Session, NEW links,
         NEW o \in CloseView(h, ClearLinks(x, links), d)
  PROVE  /\ Follows(h, x, o[1], o[2])
         /\ <<s, d>> \in links => o[2][s].to # d /\ o[2][d].from # s
<1>. DEFINE z == ClearLinks(x, links)
<1>1. /\ z \in [Session -> SessionRecords]
      /\ \A q \in Session :
           /\ z[q].lane = x[q].lane /\ z[q].pack = x[q].pack
           /\ z[q].view = x[q].view /\ z[q].turns = x[q].turns
           /\ z[q].to \in {x[q].to, NoSession} /\ z[q].from \in {x[q].from, NoSession}
      /\ <<s, d>> \in links => z[s].to # d /\ z[d].from # s
  BY ClearLinksKeeps
<1>2. Unlinked(h, z)
  BY ClearedUnlinked
<1>. HIDE DEF z
<1>3. Follows(h, z, o[1], o[2])
  BY <1>1, <1>2, CloseViewFollows DEF z
<1>4. Follows(h, x, o[1], o[2])
  BY <1>1, <1>3 DEF Follows, SessionsKept
<1>5. <<s, d>> \in links => o[2][s].to # d /\ o[2][d].from # s
  BY <1>1, <1>3, HandoffAssumption DEF Follows, SessionsKept
<1>. QED
  BY <1>4, <1>5

LEMMA SupersededFollows ==
  ASSUME IInv, NEW s \in Session, NEW o \in Superseded(s)
  PROVE  Follows([handoffs EXCEPT ![s] = NoRun], session, o[1], o[2])
<1>. DEFINE h == [handoffs EXCEPT ![s] = NoRun]
<1>1. /\ handoffs \in [Session -> Runs] /\ session \in [Session -> SessionRecords]
      /\ h \in [Session -> Runs]
  BY NoRunTyped DEF IInv, TypeOK
<1>2. Unlinked(h, session)
  BY <1>1 DEF IInv, OverMeansUnlinked, Unlinked, NoRun, Over
<1>3. CASE o = <<h, session>>
  BY <1>1, <1>2, <1>3, FollowsSelf
<1>4. ASSUME NEW d \in Session, NEW links, o \in CloseView(h, ClearLinks(session, links), d)
      PROVE  Follows(h, session, o[1], o[2])
  <2>. HIDE DEF h
  <2>. QED
    BY <1>1, <1>2, <1>4, CloseClearedFollows
<1>5. handoffs[s].dest \in Session \cup {NoSession}
  BY <1>1 DEF Runs
<1>. QED
  BY <1>3, <1>4, <1>5 DEF Superseded

-----------------------------------------------------------------------------
(* The variables no run or session is in *)

RestTyped ==
    /\ handoffEpoch \in 0..MaxHandoffs
    /\ pending \in [source : Session \cup {NoSession}, epoch : 0..MaxHandoffs]
    /\ opens \subseteq [epoch : Nat, session : Session \cup {NoSession},
                        lane : Lane]
    /\ openEpoch \in Nat
    /\ {active, draft} \subseteq Session \cup {NoSession}
    /\ switching \in {"no", "open", "reopen"} /\ listening \in {"no", "yes"}
    /\ swaps \subseteq Session /\ navigations \in 0..MaxNavigations

LEMMA RestNext == ASSUME TypeOK, [Next]_vars PROVE RestTyped'
<1>. USE HandoffAssumption DEF TypeOK, RestTyped
<1>1. CASE UNCHANGED vars
  BY <1>1 DEF vars
<1>2. NoPending \in [source : Session \cup {NoSession}, epoch : 0..MaxHandoffs]
  BY DEF NoPending
<1>3. \A s \in Session : Released(s) \in {pending, NoPending}
  BY DEF Released
<1>4. CancelPendingSwitch(openEpoch) \in Nat /\ SwitchCancelled \in {"no", "open", "reopen"}
  BY DEF CancelPendingSwitch, SwitchCancelled
<1>5. ASSUME NEW s \in Session, NEW p \in Lane,
             RefuseAtConfirm(s, p) \/ StartRefused(s, p) \/ StartHandoff(s, p)
      PROVE  RestTyped'
  <2>. handoffEpoch' \in 0..MaxHandoffs /\ handoffEpoch' = handoffEpoch + 1
    BY <1>5 DEF RefuseAtConfirm, StartRefused, StartHandoff, MayRequest
  <2>1. CASE RefuseAtConfirm(s, p)
    BY <2>1 DEF RefuseAtConfirm
  <2>2. CASE StartRefused(s, p)
    BY <1>2, <1>3, <1>4, <2>2 DEF StartRefused
  <2>3. CASE StartHandoff(s, p)
    <3>. /\ pending' = [source |-> s, epoch |-> handoffEpoch + 1]
         /\ UNCHANGED <<swaps, navigations>>
      BY <2>3 DEF StartHandoff
    <3>1. CASE /\ Activate(draft, CancelPendingSwitch(openEpoch))
               /\ UNCHANGED <<opens, draft>>
      BY <1>4, <3>1 DEF Activate
    <3>2. CASE /\ Ask(NoSession, p, CancelPendingSwitch(openEpoch), "open")
               /\ draft' = IF p = Muse THEN NoSession ELSE draft
      BY <1>4, <3>2 DEF Ask
    <3>. QED
      BY <2>3, <3>1, <3>2 DEF StartHandoff
  <2>. QED
    BY <1>5, <2>1, <2>2, <2>3
<1>6. ASSUME NEW s \in Session, CancelHandoff(s) PROVE RestTyped'
  BY <1>2, <1>3, <1>4, <1>6 DEF CancelHandoff
<1>7. ASSUME NEW s \in Session, Visit(s) \/ Reopen(s) \/ Evict(s) PROVE RestTyped'
  <2>1. CASE Visit(s)
    BY <1>4, <2>1 DEF Visit, MayNavigate, Activate
  <2>2. CASE Reopen(s)
    <3>1. session[s].lane \in Lane
      BY DEF SessionRecords
    <3>. QED
      BY <1>4, <2>2, <3>1 DEF Reopen, MayNavigate, Ask
  <2>3. CASE Evict(s)
    BY <2>3 DEF Evict
  <2>. QED
    BY <1>7, <2>1, <2>2, <2>3
<1>8. ASSUME NEW p \in Lane, NewSession(p) PROVE RestTyped'
  <2>. /\ navigations' \in 0..MaxNavigations
       /\ UNCHANGED <<handoffs, handoffEpoch, pending, swaps>>
    BY <1>8 DEF NewSession, MayNavigate
  <2>. DEFINE e == CancelPendingSwitch(openEpoch)
  <2>1. CASE Activate(draft, e) /\ UNCHANGED <<session, opens, draft>>
    BY <1>4, <2>1 DEF Activate
  <2>2. ASSUME NEW q \in Session, Activate(q, e), draft' = q, UNCHANGED opens
        PROVE  RestTyped'
    BY <1>4, <2>2 DEF Activate
  <2>3. CASE Ask(NoSession, p, e, "open") /\ draft' = NoSession
    BY <1>4, <2>3 DEF Ask
  <2>. QED
    BY <1>8, <2>1, <2>2, <2>3 DEF NewSession
<1>9. ASSUME NEW ask \in opens, OpenLands(ask) \/ OpenFails(ask) PROVE RestTyped'
  <2>1. CASE OpenLands(ask)
    <3>1. opens' \subseteq opens /\ UNCHANGED <<handoffEpoch, swaps, navigations>>
      BY <2>1 DEF OpenLands
    <3>2. CASE UNCHANGED <<handoffs, pending, session, openEpoch, active, draft, switching,
                          listening>>
      BY <3>1, <3>2
    <3>3. ASSUME NEW q \in Session, Activate(q, openEpoch), draft' \in {q, draft},
                 pending' \in {pending, NoPending}
          PROVE  RestTyped'
      BY <1>2, <3>1, <3>3 DEF Activate
    <3>. QED
      BY <2>1, <3>2, <3>3 DEF OpenLands, Land
  <2>2. CASE OpenFails(ask)
    BY <1>2, <1>9, <2>2 DEF OpenFails
  <2>. QED
    BY <1>9, <2>1, <2>2
<1>10. ASSUME NEW q \in Session, PackAnswer(q) \/ PackTurnEnds(q) \/ LaneLost(q) \/ Swap(q)
       PROVE  RestTyped'
  <2>1. CASE PackAccepted(q)
    BY <2>1 DEF PackAccepted
  <2>2. CASE PackRefused(q) \/ PackTurnEnds(q) \/ LaneLost(q)
    BY <2>2 DEF PackRefused, PackTurnEnds, LaneLost
  <2>3. CASE Swap(q)
    BY <2>3 DEF Swap, Activate
  <2>. QED
    BY <1>10, <2>1, <2>2, <2>3 DEF PackAnswer
<1>11. CASE Done
  BY <1>11 DEF Done, vars
<1>. QED
  BY <1>1, <1>5, <1>6, <1>7, <1>8, <1>9, <1>10, <1>11 DEF Next, Answer

-----------------------------------------------------------------------------
(* Steps that start no run and submit no pack *)

AsksKeepTheirLane ==
    \A ask \in opens' :
      \/ ask \in opens \/ ask.session = NoSession
      \/ session[ask.session].view # "none" /\ session[ask.session].lane = ask.lane

SameRun(run, new) ==
    /\ new.epoch = run.epoch /\ new.to = run.to
    /\ new.state = "Checkpointed" => run.state = "Checkpointed"

LEMMA InvFrom ==
  ASSUME IInv, RestTyped', handoffs' \in [Session -> Runs], SessionsKept(session, session'),
         \A s \in Session : SameRun(handoffs[s], handoffs'[s]),
         NothingOpenedYet', Unlinked(handoffs', session'),
         handoffEpoch' = handoffEpoch, AsksKeepTheirLane,
         \/ pending' = NoPending
         \/ pending' = pending /\ (PendingOwnsRun =>
              handoffs'[pending.source].state = handoffs[pending.source].state)
  PROVE  IInv'
<1>. USE DEF IInv
<1>1. TypeOK'
  BY DEF RestTyped, TypeOK, SessionsKept
<1>2. EpochsWereGiven'
  BY DEF EpochsWereGiven, SessionsKept, SameRun
<1>3. LanesAreFixed'
  <2>1. \A q \in Session : session'[q].view = "none" =>
          session'[q].turns = "no" /\ session'[q].pack.by = NoSession
    BY DEF LanesAreFixed, SessionsKept
  <2>2. ASSUME NEW q \in Session, session'[q].pack.by # NoSession
        PROVE  session'[session'[q].pack.by].view # "none"
    <3>1. session[q].pack.by = session'[q].pack.by /\ session[q].pack.by \in Session
      BY <2>2 DEF SessionsKept, TypeOK, SessionRecords, Packs
    <3>. QED
      BY <2>2, <3>1 DEF LanesAreFixed, SessionsKept
  <2>3. \A s \in Session : handoffs'[s].state = "Checkpointed" =>
          session'[s].view # "none" /\ session'[s].lane # handoffs'[s].to
    BY DEF LanesAreFixed, SessionsKept, SameRun
  <2>4. ASSUME NEW ask \in opens', ask.session # NoSession
        PROVE  session'[ask.session].view # "none" /\ session'[ask.session].lane = ask.lane
    <3>1. ask.session \in Session
      BY <2>4 DEF RestTyped
    <3>2. session[ask.session].view # "none" /\ session[ask.session].lane = ask.lane
      BY <2>4 DEF AsksKeepTheirLane, LanesAreFixed
    <3>. QED
      BY <3>1, <3>2 DEF SessionsKept
  <2>. QED
    BY <2>1, <2>2, <2>3, <2>4 DEF LanesAreFixed
<1>4. PendingAwaitsACheckpoint'
  BY DEF PendingAwaitsACheckpoint, EpochsWereGiven, PendingOwnsRun, SameRun
<1>5. OverMeansUnlinked'
  BY DEF OverMeansUnlinked, Unlinked, Over
<1>6. PackOnTheRequestedLane'
  <2>. SUFFICES ASSUME NEW q \in Session, session'[q].pack.by # NoSession
                PROVE  LET pack == session'[q].pack IN
                       /\ session'[q].lane # session'[pack.by].lane
                       /\ handoffs'[pack.by].epoch = pack.epoch
                            => handoffs'[pack.by].to = session'[q].lane
    BY DEF PackOnTheRequestedLane
  <2>1. /\ session'[q].pack.by = session[q].pack.by
        /\ session'[q].pack.epoch = session[q].pack.epoch
        /\ session[q].pack.by \in Session
    BY DEF SessionsKept, TypeOK, SessionRecords, Packs
  <2>2. session'[q].lane = session[q].lane
    BY <2>1 DEF SessionsKept, LanesAreFixed
  <2>3. session'[session[q].pack.by].lane = session[session[q].pack.by].lane
    BY <2>1 DEF SessionsKept, LanesAreFixed
  <2>4. SameRun(handoffs[session[q].pack.by], handoffs'[session[q].pack.by])
    BY <2>1
  <2>. QED
    BY <2>1, <2>2, <2>3, <2>4 DEF PackOnTheRequestedLane, SameRun
<1>. QED
  BY <1>1, <1>2, <1>3, <1>4, <1>5, <1>6

Kept == IInv' /\ \A s \in Session : OutcomeKept(s)

LEMMA FollowsKept ==
  ASSUME IInv, RestTyped', Follows(handoffs, session, handoffs', session'),
         handoffEpoch' = handoffEpoch, pending' \in {pending, NoPending}, AsksKeepTheirLane
  PROVE  Kept
<1>1. \A s \in Session : SameRun(handoffs[s], handoffs'[s])
  BY DEF Follows, SameRun
<1>2. NothingOpenedYet'
  BY DEF Follows, IInv, NothingOpenedYet, Unopened
<1>3. PendingOwnsRun => handoffs'[pending.source].state = handoffs[pending.source].state
  BY DEF PendingOwnsRun, IInv, PendingAwaitsACheckpoint, EpochsWereGiven, Follows
<1>4. \A s \in Session : OutcomeKept(s)
  BY DEF Follows, OutcomeKept
<1>. QED
  BY <1>1, <1>2, <1>3, <1>4, InvFrom DEF Follows, Kept

-----------------------------------------------------------------------------
(* The steps, one by one *)

LEMMA SelfKept ==
  ASSUME IInv, RestTyped', UNCHANGED <<handoffs, session, handoffEpoch>>,
         pending' \in {pending, NoPending}, AsksKeepTheirLane
  PROVE  Kept
<1>1. /\ handoffs \in [Session -> Runs] /\ session \in [Session -> SessionRecords]
      /\ Unlinked(handoffs, session)
  BY DEF IInv, TypeOK, OverMeansUnlinked, Unlinked, Over
<1>. QED
  BY <1>1, FollowsSelf, FollowsKept

\* One session's record changes, its links, its lane and its pack's origin not.
LEMMA OneSessionKept ==
  ASSUME IInv, RestTyped', UNCHANGED <<handoffs, handoffEpoch>>,
         pending' \in {pending, NoPending}, AsksKeepTheirLane,
         NEW q \in Session, NEW rec \in SessionRecords,
         session' = [session EXCEPT ![q] = rec],
         rec.view # "none", session[q].view # "none" => rec.lane = session[q].lane,
         rec.pack.by = session[q].pack.by, rec.pack.epoch = session[q].pack.epoch,
         rec.to = session[q].to, rec.from = session[q].from
  PROVE  Kept
<1>1. /\ handoffs \in [Session -> Runs] /\ session \in [Session -> SessionRecords]
      /\ Unlinked(handoffs, session)
  BY DEF IInv, TypeOK, OverMeansUnlinked, Unlinked, Over
<1>2. SessionsKept(session, session')
  BY <1>1 DEF SessionsKept
<1>3. \A s \in Session : session'[s].to = session[s].to /\ session'[s].from = session[s].from
  BY <1>1
<1>4. Unlinked(handoffs, session')
  <2>1. \A s \in Session : handoffs[s].dest \in Session \cup {NoSession}
    BY <1>1 DEF Runs
  <2>. QED
    BY <1>1, <1>3, <2>1 DEF Unlinked
<1>5. Follows(handoffs, session, handoffs', session')
  BY <1>1, <1>2, <1>3, <1>4 DEF Follows
<1>. QED
  BY <1>5, FollowsKept

LEMMA VisitKept == ASSUME IInv, RestTyped', NEW q \in Session, Visit(q) PROVE Kept
<1>1. UNCHANGED <<handoffs, handoffEpoch, pending, opens>> /\ AsksKeepTheirLane
  BY DEF Visit, AsksKeepTheirLane
<1>2. CASE UNCHANGED session
  BY <1>1, <1>2, SelfKept
<1>3. CASE session' = [session EXCEPT ![q].view = "live"] /\ session[q].view # "none"
  <2>1. session[q] \in SessionRecords
    BY DEF IInv, TypeOK
  <2>. DEFINE rec == [session[q] EXCEPT !.view = "live"]
  <2>2. session' = [session EXCEPT ![q] = rec]
    BY <1>3
  <2>3. /\ rec \in SessionRecords /\ rec.view # "none" /\ rec.lane = session[q].lane
        /\ rec.pack = session[q].pack /\ rec.to = session[q].to /\ rec.from = session[q].from
    BY <2>1 DEF SessionRecords
  <2>. HIDE DEF rec
  <2>. QED
    BY <1>1, <2>2, <2>3, OneSessionKept
<1>. QED
  BY <1>2, <1>3 DEF Visit, Live

LEMMA ReopenKept == ASSUME IInv, RestTyped', NEW q \in Session, Reopen(q) PROVE Kept
<1>1. UNCHANGED <<handoffs, handoffEpoch, pending, session>> /\ session[q].view # "none"
  BY DEF Reopen
<1>2. AsksKeepTheirLane
  BY <1>1 DEF Reopen, Ask, AsksKeepTheirLane
<1>. QED
  BY <1>1, <1>2, SelfKept

LEMMA EvictKept == ASSUME IInv, RestTyped', NEW q \in Session, Evict(q) PROVE Kept
<1>. DEFINE y == Gone(session, q, "stored")
<1>1. /\ UNCHANGED <<handoffs, handoffEpoch, pending, opens>> /\ AsksKeepTheirLane
      /\ session' = y
  BY DEF Evict, AsksKeepTheirLane
<1>2. /\ handoffs \in [Session -> Runs] /\ session \in [Session -> SessionRecords]
      /\ Unlinked(handoffs, session)
  BY DEF IInv, TypeOK, OverMeansUnlinked, Unlinked, Over
<1>3. /\ y \in [Session -> SessionRecords]
      /\ \A p \in Session :
           /\ y[p].lane = session[p].lane /\ y[p].turns = session[p].turns
           /\ y[p].pack.by = session[p].pack.by /\ y[p].pack.epoch = session[p].pack.epoch
           /\ y[p].to = session[p].to /\ y[p].from = session[p].from
           /\ y[p].view = "none" => session[p].view = "none"
  BY <1>2, GoneKeeps
<1>. HIDE DEF y
<1>4. Unlinked(handoffs, y)
  <2>1. \A s \in Session : handoffs[s].dest \in Session \cup {NoSession}
    BY <1>2 DEF Runs
  <2>. QED
    BY <1>2, <1>3, <2>1 DEF Unlinked
<1>5. Follows(handoffs, session, handoffs', session')
  BY <1>1, <1>2, <1>3, <1>4 DEF Follows, SessionsKept
<1>. QED
  BY <1>1, <1>5, FollowsKept

LEMMA NewSessionKept == ASSUME IInv, RestTyped', NEW p \in Lane, NewSession(p) PROVE Kept
<1>1. UNCHANGED <<handoffs, handoffEpoch, pending>>
  BY DEF NewSession
<1>2. AsksKeepTheirLane
  BY DEF NewSession, Ask, AsksKeepTheirLane
<1>3. CASE UNCHANGED session
  BY <1>1, <1>2, <1>3, SelfKept
<1>4. ASSUME NEW q \in Session, Created(q),
             session' = [session EXCEPT ![q].view = "live", ![q].lane = p]
      PROVE  Kept
  <2>1. session[q] \in SessionRecords
    BY DEF IInv, TypeOK
  <2>. DEFINE rec == [session[q] EXCEPT !.view = "live", !.lane = p]
  <2>2. session' = [session EXCEPT ![q] = rec]
    BY <1>4, <2>1 DEF SessionRecords
  <2>3. /\ rec \in SessionRecords /\ rec.view = "live" /\ rec.lane = p
        /\ rec.pack = session[q].pack /\ rec.to = session[q].to /\ rec.from = session[q].from
    BY <2>1 DEF SessionRecords
  <2>. HIDE DEF rec
  <2>. QED
    BY <1>1, <1>2, <1>4, <2>2, <2>3, OneSessionKept DEF Created, Fresh
<1>. QED
  BY <1>3, <1>4 DEF NewSession

\* A pack's turn moves: the session, and the run that hears of it.
Moved(q, turn, turns) == [session EXCEPT ![q].pack.turn = turn, ![q].turns = turns]

LEMMA TurnedRecord ==
  ASSUME IInv, NEW q \in Session, Live(q),
         NEW turn \in {"running", "refused", "lost", "cut", "answered", "failed"},
         NEW turns \in {"pack", "yes", session[q].turns}
  PROVE  LET x == Moved(q, turn, turns) IN
         /\ x \in [Session -> SessionRecords] /\ SessionsKept(session, x)
         /\ \A s \in Session : x[s].to = session[s].to /\ x[s].from = session[s].from
         /\ Unlinked(handoffs, x)
<1>. DEFINE x == Moved(q, turn, turns)
<1>1. /\ session[q] \in SessionRecords /\ session \in [Session -> SessionRecords]
      /\ handoffs \in [Session -> Runs] /\ Unlinked(handoffs, session)
  BY DEF IInv, TypeOK, OverMeansUnlinked, Unlinked, Over
<1>. DEFINE pack == [session[q].pack EXCEPT !.turn = turn]
            rec == [session[q] EXCEPT !.pack = pack, !.turns = turns]
<1>2. x = [session EXCEPT ![q] = rec]
  BY <1>1 DEF Moved, SessionRecords
<1>. HIDE DEF x
<1>3. /\ pack \in Packs /\ pack.by = session[q].pack.by /\ pack.epoch = session[q].pack.epoch
  BY <1>1 DEF SessionRecords, Packs
<1>. HIDE DEF pack
<1>4. /\ rec \in SessionRecords /\ rec.view = session[q].view /\ rec.lane = session[q].lane
      /\ rec.pack = pack /\ rec.to = session[q].to /\ rec.from = session[q].from
  BY <1>1, <1>3 DEF SessionRecords
<1>. HIDE DEF rec
<1>5. /\ x \in [Session -> SessionRecords] /\ SessionsKept(session, x)
      /\ \A s \in Session : x[s].to = session[s].to /\ x[s].from = session[s].from
  BY <1>1, <1>2, <1>3, <1>4 DEF SessionsKept, Live
<1>6. Unlinked(handoffs, x)
  <2>1. \A s \in Session : handoffs[s].dest \in Session \cup {NoSession}
    BY <1>1 DEF Runs
  <2>. QED
    BY <1>1, <1>5, <2>1 DEF Unlinked
<1>. QED
  BY <1>5, <1>6 DEF x

LEMMA TurnedKept ==
  ASSUME IInv, RestTyped', UNCHANGED <<handoffEpoch, pending, opens>>,
         NEW x, x \in [Session -> SessionRecords], SessionsKept(session, x),
         \A s \in Session : x[s].to = session[s].to /\ x[s].from = session[s].from,
         Follows(handoffs, x, handoffs', session')
  PROVE  Kept
<1>1. Follows(handoffs, session, handoffs', session')
  BY DEF Follows, SessionsKept
<1>2. AsksKeepTheirLane
  BY DEF AsksKeepTheirLane
<1>. QED
  BY <1>1, <1>2, FollowsKept

LEMMA PackRefusedKept ==
  ASSUME IInv, RestTyped', NEW q \in Session, PackRefused(q) PROVE Kept
<1>. DEFINE x == Turned(q, "refused")
<1>1. handoffs \in [Session -> Runs] /\ session \in [Session -> SessionRecords]
  BY DEF IInv, TypeOK
<1>2. x = Moved(q, "refused", session[q].turns)
  BY <1>1 DEF Moved, Turned, SessionRecords
<1>3. Live(q) /\ UNCHANGED <<handoffEpoch, pending, opens>>
  BY DEF PackRefused
<1>4. /\ x \in [Session -> SessionRecords] /\ SessionsKept(session, x)
      /\ \A s \in Session : x[s].to = session[s].to /\ x[s].from = session[s].from
      /\ Unlinked(handoffs, x)
  BY <1>2, <1>3, TurnedRecord
<1>5. \E o \in Heard(FailHandoff(handoffs, x, q), x) : handoffs' = o[1] /\ session' = o[2]
  BY DEF PackRefused
<1>. HIDE DEF x
<1>6. Follows(handoffs, x, handoffs', session')
  BY <1>1, <1>4, <1>5, FollowsSelf, FailHandoffFollows DEF Heard
<1>. QED
  BY <1>3, <1>4, <1>6, TurnedKept

LEMMA LaneLostKept ==
  ASSUME IInv, RestTyped', NEW q \in Session, LaneLost(q) PROVE Kept
<1>. DEFINE turn == IF session[q].pack.turn = "sent" THEN "lost" ELSE "cut"
            x == Turned(q, turn)
<1>1. handoffs \in [Session -> Runs] /\ session \in [Session -> SessionRecords]
  BY DEF IInv, TypeOK
<1>2. x = Moved(q, turn, session[q].turns)
  BY <1>1 DEF Moved, Turned, SessionRecords
<1>3. Live(q) /\ UNCHANGED <<handoffEpoch, pending, opens>>
  BY DEF LaneLost
<1>7. turn \in {"lost", "cut"}
  OBVIOUS
<1>4. /\ x \in [Session -> SessionRecords] /\ SessionsKept(session, x)
      /\ \A s \in Session : x[s].to = session[s].to /\ x[s].from = session[s].from
      /\ Unlinked(handoffs, x)
  <2>. HIDE DEF turn, x
  <2>. QED
    BY <1>2, <1>3, <1>7, TurnedRecord
<1>5. \E o \in IF session[q].lane \in ClosingLanes
                 THEN Heard(LoseDestination(handoffs, x, q), x)
                 ELSE {<<handoffs, x>>} :
         handoffs' = o[1] /\ session' = o[2]
  BY DEF LaneLost
<1>. HIDE DEF x
<1>6. Follows(handoffs, x, handoffs', session')
  BY <1>1, <1>4, <1>5, FollowsSelf, LoseDestinationFollows DEF Heard
<1>. QED
  BY <1>3, <1>4, <1>6, TurnedKept

LEMMA PackTurnEndsKept ==
  ASSUME IInv, RestTyped', NEW q \in Session, PackTurnEnds(q) PROVE Kept
<1>1. handoffs \in [Session -> Runs] /\ session \in [Session -> SessionRecords]
  BY DEF IInv, TypeOK
<1>3. Live(q) /\ UNCHANGED <<handoffEpoch, pending, opens>>
  BY DEF PackTurnEnds
<1>2. PICK turn \in {"answered", "failed"} :
        LET x == [Turned(q, turn) EXCEPT ![q].turns = "yes"] IN
        \E o \in Heard(Judged(handoffs, x), Turned(q, turn)) :
          handoffs' = o[1] /\ session' = o[2]
  BY DEF PackTurnEnds
<1>. DEFINE x == [Turned(q, turn) EXCEPT ![q].turns = "yes"]
            z == Turned(q, turn)
<1>4. /\ x = Moved(q, turn, "yes") /\ z = Moved(q, turn, session[q].turns)
  BY <1>1 DEF Moved, Turned, SessionRecords
<1>7. \/ handoffs' = handoffs /\ session' = z
      \/ \E o \in Judged(handoffs, x) : handoffs' = o[1] /\ session' = o[2]
  BY <1>2 DEF Heard
<1>. HIDE DEF x, z
<1>5. /\ x \in [Session -> SessionRecords] /\ SessionsKept(session, x)
      /\ \A s \in Session : x[s].to = session[s].to /\ x[s].from = session[s].from
      /\ Unlinked(handoffs, x)
  BY <1>3, <1>4, TurnedRecord
<1>6. /\ z \in [Session -> SessionRecords] /\ SessionsKept(session, z)
      /\ \A s \in Session : z[s].to = session[s].to /\ z[s].from = session[s].from
      /\ Unlinked(handoffs, z)
  BY <1>3, <1>4, TurnedRecord
<1>8. \/ Follows(handoffs, x, handoffs', session')
      \/ Follows(handoffs, z, handoffs', session')
  BY <1>1, <1>5, <1>6, <1>7, FollowsSelf, JudgedFollows
<1>. QED
  BY <1>3, <1>5, <1>6, <1>8, TurnedKept

LEMMA PersistLinksKeeps ==
  ASSUME NEW x \in [Session -> SessionRecords], NEW s \in Session, NEW d \in Session
  PROVE  LET y == PersistLinks(x, s, d) IN
         /\ y \in [Session -> SessionRecords]
         /\ \A q \in Session :
              /\ y[q].lane = x[q].lane /\ y[q].pack = x[q].pack
              /\ y[q].view = x[q].view /\ y[q].turns = x[q].turns
              /\ q # s => y[q].to = x[q].to
              /\ y[q].from \in {x[q].from, s} /\ (q # d => y[q].from = x[q].from)
         /\ y[d].from = s
<1>. DEFINE z == [x EXCEPT ![s] = [x[s] EXCEPT !.to = d]]
            y == PersistLinks(x, s, d)
<1>1. x[s] \in SessionRecords
  OBVIOUS
<1>2. y = [z EXCEPT ![d] = [z[d] EXCEPT !.from = s]]
  BY <1>1 DEF PersistLinks, SessionRecords
<1>. DEFINE rec == [x[s] EXCEPT !.to = d]
<1>3. rec \in SessionRecords /\ rec.lane = x[s].lane /\ rec.pack = x[s].pack
      /\ rec.view = x[s].view /\ rec.turns = x[s].turns /\ rec.from = x[s].from
  BY <1>1 DEF SessionRecords
<1>. HIDE DEF rec
<1>4. /\ z \in [Session -> SessionRecords]
      /\ \A q \in Session :
           /\ z[q].lane = x[q].lane /\ z[q].pack = x[q].pack
           /\ z[q].view = x[q].view /\ z[q].turns = x[q].turns
           /\ z[q].from = x[q].from
           /\ q # s => z[q].to = x[q].to
  BY <1>3 DEF rec
<1>. HIDE DEF y, z
<1>. DEFINE last == [z[d] EXCEPT !.from = s]
<1>5. last \in SessionRecords /\ last.lane = z[d].lane /\ last.pack = z[d].pack
      /\ last.view = z[d].view /\ last.turns = z[d].turns /\ last.from = s /\ last.to = z[d].to
  BY <1>4 DEF SessionRecords
<1>6. y = [z EXCEPT ![d] = last]
  BY <1>2
<1>. HIDE DEF last
<1>7. /\ y \in [Session -> SessionRecords]
      /\ \A q \in Session :
           /\ y[q].lane = x[q].lane /\ y[q].pack = x[q].pack
           /\ y[q].view = x[q].view /\ y[q].turns = x[q].turns
           /\ q # s => y[q].to = x[q].to
           /\ y[q].from \in {x[q].from, s} /\ (q # d => y[q].from = x[q].from)
      /\ y[d].from = s
  <2>1. y[d] = last /\ \A q \in Session : q # d => y[q] = z[q]
    BY <1>4, <1>6
  <2>2. y \in [Session -> SessionRecords]
    BY <1>4, <1>5, <1>6
  <2>3. ASSUME NEW q \in Session
        PROVE  /\ y[q].lane = x[q].lane /\ y[q].pack = x[q].pack
               /\ y[q].view = x[q].view /\ y[q].turns = x[q].turns
               /\ q # s => y[q].to = x[q].to
               /\ y[q].from \in {x[q].from, s} /\ (q # d => y[q].from = x[q].from)
    <3>1. CASE q = d
      BY <1>4, <1>5, <2>1, <3>1
    <3>2. CASE q # d
      BY <1>4, <2>1, <3>2
    <3>. QED
      BY <3>1, <3>2
  <2>. QED
    BY <1>5, <2>1, <2>2, <2>3
<1>. QED
  BY <1>7 DEF y

\* What a linked pair leaves unlinked: the runs of every other source.
LinksOnly(h, x, s) ==
    /\ \A r \in Session : r # s => handoffs'[r] = h[r]
    /\ handoffs'[s].state \notin Over
    /\ \A q \in Session : /\ q # s => session'[q].to = x[q].to
                          /\ session'[q].from \in {x[q].from, s}

LEMMA LinkedUnlinked ==
  ASSUME NEW h \in [Session -> Runs], NEW x \in [Session -> SessionRecords], Unlinked(h, x),
         NEW s \in Session, LinksOnly(h, x, s)
  PROVE  Unlinked(handoffs', session')
<1>. USE DEF LinksOnly
<1>. SUFFICES ASSUME NEW r \in Session, NEW e, e = handoffs'[r].dest,
                     handoffs'[r].state \in Over, e # NoSession
              PROVE  session'[r].to # e /\ session'[e].from # r
  BY DEF Unlinked
<1>1. r # s /\ e = h[r].dest /\ h[r].state \in Over /\ e \in Session
  BY DEF Runs
<1>2. x[r].to # e /\ x[e].from # r
  BY <1>1 DEF Unlinked
<1>. QED
  BY <1>1, <1>2

LEMMA PackAcceptedKept ==
  ASSUME IInv, RestTyped', NEW q \in Session, PackAccepted(q) PROVE Kept
<1>. DEFINE turns == IF session[q].turns = "no" THEN "pack" ELSE session[q].turns
            x == [Turned(q, "running") EXCEPT ![q].turns = IF @ = "no" THEN "pack" ELSE @]
<1>1. /\ handoffs \in [Session -> Runs] /\ session \in [Session -> SessionRecords]
  BY DEF IInv, TypeOK
<1>2. x = Moved(q, "running", turns) /\ turns \in {"pack", session[q].turns}
  BY <1>1 DEF Moved, Turned, SessionRecords
<1>3. Live(q) /\ UNCHANGED <<handoffEpoch, pending, opens>> /\ AsksKeepTheirLane
  BY DEF PackAccepted, AsksKeepTheirLane
<1>4. \E o \in Heard(Acknowledge(x, q), x) : handoffs' = o[1] /\ session' = o[2]
  BY DEF PackAccepted
<1>. HIDE DEF turns, x
<1>5. /\ x \in [Session -> SessionRecords] /\ SessionsKept(session, x)
      /\ \A s \in Session : x[s].to = session[s].to /\ x[s].from = session[s].from
      /\ Unlinked(handoffs, x)
  BY <1>2, <1>3, TurnedRecord
<1>6. CASE handoffs' = handoffs /\ session' = x
  BY <1>1, <1>3, <1>5, <1>6, FollowsSelf, TurnedKept
<1>7. ASSUME NEW s \in Session, handoffs[s].dest = q, handoffs[s].state = "Prepared",
             handoffs' = [handoffs EXCEPT ![s].state = "Activated"],
             session' = [PersistLinks(x, s, q) EXCEPT
                           ![q].carry = "kept",
                           ![s].retired = IF x[s].view = "live" THEN "yes" ELSE @]
      PROVE  Kept
  <2>. DEFINE y == PersistLinks(x, s, q)
              retired == IF x[s].view = "live" THEN "yes" ELSE y[s].retired
  <2>1. /\ y \in [Session -> SessionRecords]
        /\ \A p \in Session :
              /\ y[p].lane = x[p].lane /\ y[p].pack = x[p].pack
              /\ y[p].view = x[p].view /\ y[p].turns = x[p].turns
              /\ p # s => y[p].to = x[p].to
              /\ y[p].from \in {x[p].from, s}
    BY <1>5, PersistLinksKeeps
  <2>. HIDE DEF y
  <2>2. retired \in {"no", "yes"}
    BY <2>1 DEF SessionRecords
  <2>3. session' = [y EXCEPT ![q].carry = "kept", ![s].retired = retired]
    BY <1>7, <2>1 DEF y, SessionRecords
  <2>. HIDE DEF retired
  <2>4. /\ session' \in [Session -> SessionRecords]
        /\ \A p \in Session :
              /\ session'[p].lane = y[p].lane /\ session'[p].pack = y[p].pack
              /\ session'[p].view = y[p].view /\ session'[p].turns = y[p].turns
              /\ session'[p].to = y[p].to /\ session'[p].from = y[p].from
    BY <2>1, <2>2, <2>3 DEF SessionRecords
  <2>5. SessionsKept(session, session')
    BY <1>5, <2>1, <2>4 DEF SessionsKept
  <2>6. /\ handoffs' \in [Session -> Runs]
        /\ \A r \in Session : r # s => handoffs'[r] = handoffs[r]
    BY <1>1, <1>7 DEF Runs, RunStates
  <2>7. /\ handoffs'[s].state = "Activated" /\ handoffs'[s].epoch = handoffs[s].epoch
        /\ handoffs'[s].to = handoffs[s].to
    BY <1>1, <1>7 DEF Runs
  <2>8. Unlinked(handoffs', session')
    <3>1. \A p \in Session : /\ p # s => session'[p].to = x[p].to
                             /\ session'[p].from \in {x[p].from, s}
      BY <2>1, <2>4
    <3>2. handoffs'[s].state \notin Over
      BY <2>7 DEF Over
    <3>3. LinksOnly(handoffs, x, s)
      BY <2>6, <3>1, <3>2 DEF LinksOnly
    <3>. QED
      BY <1>1, <1>5, <3>3, LinkedUnlinked
  <2>9. \A r \in Session : SameRun(handoffs[r], handoffs'[r])
    BY <2>6, <2>7 DEF SameRun
  <2>10. NothingOpenedYet'
    BY <2>6, <2>7 DEF IInv, NothingOpenedYet, Unopened
  <2>11. PendingOwnsRun => handoffs'[pending.source].state = handoffs[pending.source].state
    BY <1>7, <2>6 DEF IInv, PendingOwnsRun, PendingAwaitsACheckpoint, EpochsWereGiven
  <2>12. \A r \in Session : OutcomeKept(r)
    BY <1>7, <2>6, <2>7 DEF OutcomeKept
  <2>. QED
    BY <1>3, <2>5, <2>6, <2>8, <2>9, <2>10, <2>11, <2>12, InvFrom DEF Kept
<1>8. \/ handoffs' = handoffs /\ session' = x
      \/ \E s \in Session :
           /\ handoffs[s].dest = q /\ handoffs[s].state = "Prepared"
           /\ handoffs' = [handoffs EXCEPT ![s].state = "Activated"]
           /\ session' = [PersistLinks(x, s, q) EXCEPT
                            ![q].carry = "kept",
                            ![s].retired = IF x[s].view = "live" THEN "yes" ELSE @]
  <2>1. CASE \E o \in {<<handoffs, x>>} : handoffs' = o[1] /\ session' = o[2]
    BY <2>1
  <2>2. ASSUME NEW s \in Session, handoffs[s].dest = q,
               NEW o, handoffs' = o[1], session' = o[2],
               o = IF handoffs[s].state = "Prepared"
                     THEN <<[handoffs EXCEPT ![s].state = "Activated"],
                            [PersistLinks(x, s, q) EXCEPT
                               ![q].carry = "kept",
                               ![s].retired = IF x[s].view = "live" THEN "yes" ELSE @]>>
                     ELSE <<handoffs, x>>
        PROVE  \/ handoffs' = handoffs /\ session' = x
               \/ /\ handoffs[s].state = "Prepared"
                  /\ handoffs' = [handoffs EXCEPT ![s].state = "Activated"]
                  /\ session' = [PersistLinks(x, s, q) EXCEPT
                            ![q].carry = "kept",
                            ![s].retired = IF x[s].view = "live" THEN "yes" ELSE @]
    BY <2>2
  <2>3. PICK o \in Heard(Acknowledge(x, q), x) : handoffs' = o[1] /\ session' = o[2]
    BY <1>4
  <2>4. CASE o = <<handoffs, x>>
    BY <2>1, <2>3, <2>4
  <2>5. CASE o \in Acknowledge(x, q) /\ {s \in Session : handoffs[s].dest = q} # {}
    <3>1. PICK s \in Session :
            /\ handoffs[s].dest = q
            /\ o = IF handoffs[s].state = "Prepared"
                     THEN <<[handoffs EXCEPT ![s].state = "Activated"],
                            [PersistLinks(x, s, q) EXCEPT
                               ![q].carry = "kept",
                               ![s].retired = IF x[s].view = "live" THEN "yes" ELSE @]>>
                     ELSE <<handoffs, x>>
      BY <2>5 DEF Acknowledge
    <3>. QED
      BY <2>2, <2>3, <3>1
  <2>. QED
    BY <2>3, <2>4, <2>5 DEF Heard, Acknowledge
<1>. QED
  BY <1>6, <1>7, <1>8

\* A run ends before its destination is there, the sessions as they were.
LEMMA EndedKept ==
  ASSUME IInv, RestTyped', UNCHANGED <<session, handoffEpoch>>, AsksKeepTheirLane,
         NEW s \in Session, NEW state \in {"Failed", "Cancelled"},
         handoffs' = [handoffs EXCEPT ![s].state = state],
         handoffs[s].dest = NoSession, handoffs[s].state \in {"Checkpointed", "Prepared"},
         pending' = NoPending \/ (pending' = pending /\ pending.source # s)
  PROVE  Kept
<1>1. /\ handoffs \in [Session -> Runs] /\ session \in [Session -> SessionRecords]
      /\ Unlinked(handoffs, session) /\ handoffs[s] \in Runs
  BY DEF IInv, TypeOK, OverMeansUnlinked, Unlinked, Over
<1>. DEFINE done == [handoffs[s] EXCEPT !.state = state]
<1>2. /\ done \in Runs /\ done.state = state /\ done.epoch = handoffs[s].epoch
      /\ done.to = handoffs[s].to /\ done.dest = NoSession
  BY <1>1 DEF Runs, RunStates
<1>3. handoffs' = [handoffs EXCEPT ![s] = done]
  BY <1>1
<1>. HIDE DEF done
<1>4. /\ handoffs' \in [Session -> Runs] /\ handoffs'[s] = done
      /\ \A r \in Session : r # s => handoffs'[r] = handoffs[r]
  BY <1>1, <1>2, <1>3
<1>5. Unlinked(handoffs', session')
  BY <1>1, <1>2, <1>4 DEF Unlinked
<1>6. SessionsKept(session, session')
  BY <1>1 DEF SessionsKept
<1>7. \A r \in Session : SameRun(handoffs[r], handoffs'[r])
  BY <1>2, <1>4 DEF SameRun
<1>8. NothingOpenedYet'
  BY <1>2, <1>4 DEF IInv, NothingOpenedYet, Unopened
<1>9. pending' = pending =>
        (PendingOwnsRun => handoffs'[pending.source].state = handoffs[pending.source].state)
  BY <1>4 DEF PendingOwnsRun, IInv, EpochsWereGiven
<1>10. \A r \in Session : OutcomeKept(r)
  BY <1>4 DEF OutcomeKept
<1>. QED
  BY <1>4, <1>5, <1>6, <1>7, <1>8, <1>9, <1>10, InvFrom DEF Kept

LEMMA CancelHandoffKept ==
  ASSUME IInv, RestTyped', NEW s \in Session, CancelHandoff(s) PROVE Kept
<1>. DEFINE done == [handoffs[s] EXCEPT !.state = "Cancelled"]
            d == handoffs[s].dest
<1>1. /\ handoffs \in [Session -> Runs] /\ session \in [Session -> SessionRecords]
      /\ Unlinked(handoffs, session) /\ handoffs[s] \in Runs
  BY DEF IInv, TypeOK, OverMeansUnlinked, Unlinked, Over
<1>2. /\ UNCHANGED handoffEpoch /\ AsksKeepTheirLane
      /\ handoffs[s].state \in {"Checkpointed", "Prepared"}
      /\ pending' = NoPending \/ (pending' = pending /\ pending.source # s)
  BY DEF CancelHandoff, Cancellable, Released, AsksKeepTheirLane
<1>3. CASE d = NoSession
  BY <1>1, <1>2, <1>3, EndedKept DEF CancelHandoff
<1>4. CASE d # NoSession
  <2>1. PICK o \in CloseView(handoffs, ClearLinks(session, {<<s, d>>}), d) :
          handoffs' = [o[1] EXCEPT ![s] = done] /\ session' = o[2]
    BY <1>4 DEF CancelHandoff
  <2>2. d \in Session
    BY <1>1, <1>4 DEF Runs
  <2>3. /\ done \in Runs /\ done.state = "Cancelled" /\ done.epoch = handoffs[s].epoch
        /\ done.to = handoffs[s].to /\ done.dest = d
    BY <1>1 DEF Runs, RunStates
  <2>. DEFINE g == o[1]
  <2>. HIDE DEF done, d, g
  <2>4. /\ Follows(handoffs, session, g, session')
        /\ session'[s].to # d /\ session'[d].from # s
    <3>. DEFINE links == {<<s, d>>}
    <3>1. <<s, d>> \in links /\ o \in CloseView(handoffs, ClearLinks(session, links), d)
      BY <2>1
    <3>. HIDE DEF links
    <3>2. /\ Follows(handoffs, session, o[1], o[2])
          /\ o[2][s].to # d /\ o[2][d].from # s
      BY <1>1, <2>2, <3>1, CloseClearedFollows
    <3>. QED
      BY <2>1, <3>2 DEF g
  <2>5. /\ handoffs' \in [Session -> Runs] /\ handoffs'[s] = done
        /\ \A r \in Session : r # s => handoffs'[r] = g[r]
    BY <2>1, <2>3, <2>4 DEF Follows, g
  <2>6. Unlinked(handoffs', session')
    BY <2>3, <2>4, <2>5 DEF Follows, Unlinked
  <2>7. \A r \in Session : SameRun(handoffs[r], handoffs'[r])
    BY <2>3, <2>4, <2>5 DEF Follows, SameRun
  <2>8. NothingOpenedYet'
    BY <2>3, <2>4, <2>5 DEF IInv, NothingOpenedYet, Unopened, Follows
  <2>9. pending' = pending =>
          (PendingOwnsRun => handoffs'[pending.source].state = handoffs[pending.source].state)
    BY <1>2, <2>4, <2>5 DEF PendingOwnsRun, IInv, EpochsWereGiven, PendingAwaitsACheckpoint,
       Follows
  <2>10. \A r \in Session : OutcomeKept(r)
    BY <1>2, <2>4, <2>5 DEF OutcomeKept, Follows
  <2>. QED
    BY <1>2, <2>4, <2>5, <2>6, <2>7, <2>8, <2>9, <2>10, InvFrom DEF Kept, Follows
<1>. QED
  BY <1>3, <1>4

LEMMA OpenFailsKept ==
  ASSUME IInv, RestTyped', NEW ask \in opens, OpenFails(ask) PROVE Kept
<1>1. UNCHANGED <<handoffEpoch, session>> /\ AsksKeepTheirLane
      /\ pending' \in {pending, NoPending}
  BY DEF OpenFails, AsksKeepTheirLane
<1>2. CASE UNCHANGED handoffs
  BY <1>1, <1>2, SelfKept
<1>3. CASE /\ PendingOwnsRun /\ pending' = NoPending
           /\ handoffs' = [handoffs EXCEPT ![pending.source] = Fail(@)]
  <2>. DEFINE s == pending.source
  <2>1. s \in Session /\ handoffs[s].state = "Checkpointed" /\ handoffs[s].dest = NoSession
    BY <1>3 DEF PendingOwnsRun, IInv, EpochsWereGiven, PendingAwaitsACheckpoint,
       NothingOpenedYet, Unopened
  <2>2. handoffs' = [handoffs EXCEPT ![s].state = "Failed"]
    BY <1>3, <2>1 DEF Fail
  <2>. HIDE DEF s
  <2>. QED
    BY <1>1, <1>3, <2>1, <2>2, EndedKept
<1>. QED
  BY <1>2, <1>3 DEF OpenFails

Without(s) == [handoffs EXCEPT ![s] = NoRun]

LEMMA RunStartedKept ==
  ASSUME IInv, RestTyped', NEW s \in Session, NEW p \in Lane, MayRequest(s, p),
         NEW g, Follows(Without(s), session, g, session'),
         NEW state \in {"Refused", "Checkpointed"}, handoffs' = [g EXCEPT ![s] = Run(state, p)],
         AsksKeepTheirLane,
         \/ pending' \in {pending, NoPending}
         \/ pending' = [source |-> s, epoch |-> handoffEpoch + 1] /\ state = "Checkpointed"
  PROVE  Kept
<1>. DEFINE run == Run(state, p)
<1>1. /\ handoffEpoch \in Nat /\ handoffEpoch' = handoffEpoch + 1
      /\ handoffEpoch + 1 \in 0..MaxHandoffs
      /\ session[s].view # "none" /\ session[s].lane # p
  BY HandoffAssumption
     DEF MayRequest, IInv, TypeOK, LanesAreFixed, SessionRecords, RestTyped
<1>2. /\ run \in Runs /\ run.state = state /\ run.epoch = handoffEpoch + 1 /\ run.to = p
      /\ run.dest = NoSession
  BY <1>1, HandoffAssumption DEF Run, NoRun, Runs, RunStates
<1>. HIDE DEF run
<1>3. /\ handoffs' \in [Session -> Runs] /\ handoffs'[s] = run
      /\ \A r \in Session : r # s => handoffs'[r] = g[r]
  BY <1>2 DEF Follows, run
<1>4. \A r \in Session : r # s =>
        /\ g[r].epoch = handoffs[r].epoch /\ g[r].to = handoffs[r].to
        /\ g[r].dest = handoffs[r].dest
        /\ \/ g[r].state = handoffs[r].state
           \/ /\ handoffs[r].state \in {"Prepared", "Activated"}
              /\ handoffs[r].settled = "no" /\ g[r].state = "Failed"
  BY DEF Follows, Without, IInv, TypeOK
<1>5. SessionsKept(session, session')
  BY DEF Follows
<1>6. TypeOK'
  BY <1>3, <1>5 DEF RestTyped, TypeOK, SessionsKept
<1>7. NothingOpenedYet'
  BY <1>2, <1>3, <1>4 DEF IInv, NothingOpenedYet, Unopened
<1>8. EpochsWereGiven'
  <2>1. pending' # NoPending => pending'.source \in Session /\ pending'.epoch <= handoffEpoch'
    BY <1>1 DEF IInv, EpochsWereGiven, TypeOK
  <2>2. ASSUME NEW r \in Session PROVE handoffs'[r].epoch <= handoffEpoch'
    <3>1. handoffs[r].epoch \in Nat /\ handoffs[r].epoch <= handoffEpoch
      BY DEF IInv, TypeOK, Runs, EpochsWereGiven
    <3>. QED
      BY <1>1, <1>2, <1>3, <1>4, <3>1
  <2>3. ASSUME NEW q \in Session, session'[q].pack.by # NoSession
        PROVE  session'[q].pack.epoch <= handoffEpoch'
    <3>1. /\ session[q].pack.by # NoSession /\ session'[q].pack.epoch = session[q].pack.epoch
          /\ session[q].pack.epoch \in Nat
      BY <1>5, <2>3 DEF SessionsKept, IInv, TypeOK, SessionRecords, Packs
    <3>. QED
      BY <1>1, <3>1 DEF IInv, EpochsWereGiven
  <2>. QED
    BY <2>1, <2>2, <2>3 DEF EpochsWereGiven
<1>9. LanesAreFixed'
  <2>1. \A q \in Session : session'[q].view = "none" =>
          session'[q].turns = "no" /\ session'[q].pack.by = NoSession
    BY <1>5 DEF IInv, LanesAreFixed, SessionsKept
  <2>2. ASSUME NEW q \in Session, session'[q].pack.by # NoSession
        PROVE  session'[session'[q].pack.by].view # "none"
    <3>1. session[q].pack.by = session'[q].pack.by /\ session[q].pack.by \in Session
      BY <1>5, <2>2 DEF SessionsKept, IInv, TypeOK, SessionRecords, Packs
    <3>. QED
      BY <1>5, <2>2, <3>1 DEF IInv, LanesAreFixed, SessionsKept
  <2>3. ASSUME NEW r \in Session, handoffs'[r].state = "Checkpointed"
        PROVE  session'[r].view # "none" /\ session'[r].lane # handoffs'[r].to
    <3>1. CASE r = s
      BY <1>1, <1>2, <1>3, <1>5, <3>1 DEF SessionsKept
    <3>2. CASE r # s
      BY <1>3, <1>4, <1>5, <2>3, <3>2 DEF IInv, LanesAreFixed, SessionsKept
    <3>. QED
      BY <3>1, <3>2
  <2>4. ASSUME NEW ask \in opens', ask.session # NoSession
        PROVE  session'[ask.session].view # "none" /\ session'[ask.session].lane = ask.lane
    <3>1. ask.session \in Session
      BY <2>4 DEF RestTyped
    <3>2. session[ask.session].view # "none" /\ session[ask.session].lane = ask.lane
      BY <2>4 DEF AsksKeepTheirLane, IInv, LanesAreFixed
    <3>. QED
      BY <1>5, <3>1, <3>2 DEF SessionsKept
  <2>. QED
    BY <2>1, <2>2, <2>3, <2>4 DEF LanesAreFixed
<1>10. PendingAwaitsACheckpoint'
  <2>1. CASE pending' = pending /\ pending # NoPending
    <3>1. /\ pending.source \in Session /\ pending.epoch \in Nat
          /\ pending.epoch <= handoffEpoch
      BY <2>1, HandoffAssumption DEF IInv, EpochsWereGiven, TypeOK
    <3>2. CASE pending.source = s
      BY <1>1, <1>2, <1>3, <2>1, <3>1, <3>2 DEF PendingAwaitsACheckpoint
    <3>3. CASE pending.source # s
      BY <1>3, <1>4, <2>1, <3>1, <3>3 DEF IInv, PendingAwaitsACheckpoint
    <3>. QED
      BY <3>2, <3>3
  <2>2. CASE pending' = [source |-> s, epoch |-> handoffEpoch + 1] /\ state = "Checkpointed"
    BY <1>2, <1>3, <2>2 DEF PendingAwaitsACheckpoint
  <2>3. CASE pending' = NoPending
    BY <2>3 DEF PendingAwaitsACheckpoint
  <2>. QED
    BY <2>1, <2>2, <2>3
<1>11. OverMeansUnlinked'
  BY <1>2, <1>3 DEF OverMeansUnlinked, Unlinked, Over, Follows
<1>12. PackOnTheRequestedLane'
  <2>. SUFFICES ASSUME NEW q \in Session, session'[q].pack.by # NoSession
                PROVE  LET pack == session'[q].pack IN
                       /\ session'[q].lane # session'[pack.by].lane
                       /\ handoffs'[pack.by].epoch = pack.epoch
                            => handoffs'[pack.by].to = session'[q].lane
    BY DEF PackOnTheRequestedLane
  <2>. DEFINE by == session[q].pack.by
  <2>1. /\ session'[q].pack.by = by /\ by \in Session
        /\ session'[q].pack.epoch = session[q].pack.epoch
        /\ session[q].pack.epoch \in Nat /\ session[q].pack.epoch <= handoffEpoch
    BY <1>5 DEF SessionsKept, IInv, TypeOK, SessionRecords, Packs, EpochsWereGiven
  <2>2. session'[q].lane = session[q].lane /\ session'[by].lane = session[by].lane
    BY <1>5, <2>1 DEF SessionsKept, IInv, LanesAreFixed
  <2>. HIDE DEF by
  <2>3. handoffs'[by].epoch = session[q].pack.epoch =>
          handoffs'[by].epoch = handoffs[by].epoch /\ handoffs'[by].to = handoffs[by].to
    BY <1>1, <1>2, <1>3, <1>4, <2>1
  <2>. QED
    BY <2>1, <2>2, <2>3 DEF IInv, PackOnTheRequestedLane, by
<1>13. ASSUME NEW r \in Session PROVE OutcomeKept(r)
  <2>1. CASE r = s
    <3>1. handoffs[s].epoch \in Nat /\ handoffs[s].epoch <= handoffEpoch
      BY DEF IInv, TypeOK, Runs, EpochsWereGiven
    <3>. QED
      BY <1>1, <1>2, <1>3, <2>1, <3>1 DEF OutcomeKept
  <2>2. CASE r # s
    BY <1>3, <1>4, <2>2 DEF OutcomeKept
  <2>. QED
    BY <2>1, <2>2
<1>. QED
  BY <1>6, <1>7, <1>8, <1>9, <1>10, <1>11, <1>12, <1>13 DEF Kept, IInv

LEMMA StartsKept ==
  ASSUME IInv, RestTyped', NEW s \in Session, NEW p \in Lane,
         RefuseAtConfirm(s, p) \/ StartRefused(s, p) \/ StartHandoff(s, p)
  PROVE  Kept
<1>1. MayRequest(s, p)
  BY DEF RefuseAtConfirm, StartRefused, StartHandoff
<1>2. CASE RefuseAtConfirm(s, p)
  <2>1. /\ Without(s) \in [Session -> Runs] /\ session \in [Session -> SessionRecords]
        /\ handoffs \in [Session -> Runs]
    BY NoRunTyped DEF IInv, TypeOK, Without
  <2>2. Unlinked(Without(s), session)
    BY <2>1 DEF IInv, OverMeansUnlinked, Unlinked, NoRun, Over, Without
  <2>3. Follows(Without(s), session, Without(s), session)
    BY <2>1, <2>2, FollowsSelf
  <2>4. /\ UNCHANGED <<pending, session, opens>> /\ AsksKeepTheirLane
        /\ handoffs' = [handoffs EXCEPT ![s] = Run("Refused", p)]
    BY <1>2 DEF RefuseAtConfirm, AsksKeepTheirLane
  <2>5. handoffs' = [Without(s) EXCEPT ![s] = Run("Refused", p)]
    BY <2>1, <2>4 DEF Without
  <2>. QED
    BY <1>1, <2>3, <2>4, <2>5, RunStartedKept
<1>3. CASE StartRefused(s, p)
  <2>1. PICK o \in Superseded(s) :
          handoffs' = [o[1] EXCEPT ![s] = Run("Refused", p)] /\ session' = o[2]
    BY <1>3 DEF StartRefused
  <2>2. Follows(Without(s), session, o[1], session')
    BY <2>1, SupersededFollows DEF Without
  <2>3. AsksKeepTheirLane /\ pending' \in {pending, NoPending}
    BY <1>3 DEF StartRefused, AsksKeepTheirLane, Released
  <2>. QED
    BY <1>1, <2>1, <2>2, <2>3, RunStartedKept
<1>4. CASE StartHandoff(s, p)
  <2>1. PICK o \in Superseded(s) :
          /\ handoffs' = [o[1] EXCEPT ![s] = Run("Checkpointed", p)] /\ session' = o[2]
          /\ opens' = opens \/ \E e : Ask(NoSession, p, e, "open")
    BY <1>4 DEF StartHandoff
  <2>2. Follows(Without(s), session, o[1], session')
    BY <2>1, SupersededFollows DEF Without
  <2>3. AsksKeepTheirLane
    BY <2>1 DEF AsksKeepTheirLane, Ask
  <2>4. pending' = [source |-> s, epoch |-> handoffEpoch + 1]
    BY <1>4 DEF StartHandoff
  <2>. QED
    BY <1>1, <2>1, <2>2, <2>3, <2>4, RunStartedKept
<1>. QED
  BY <1>2, <1>3, <1>4

\* The landing of a destination: the links, the pack and the run together.
LEMMA LandKept ==
  ASSUME IInv, RestTyped', NEW ask \in opens, NEW q \in Session, opens' \subseteq opens,
         handoffEpoch' = handoffEpoch, Awaited(ask.lane),
         NEW rec \in SessionRecords, rec.view = "live", rec.lane = ask.lane,
         session[q].view # "none" => rec.lane = session[q].lane,
         rec.to = session[q].to, rec.from = session[q].from,
         Land(q, [session EXCEPT ![q] = rec])
  PROVE  Kept
<1>. DEFINE s == pending.source
            x == [session EXCEPT ![q] = rec]
            y == PersistLinks(x, s, q)
            pack == [by |-> s, epoch |-> pending.epoch, turn |-> "sent"]
<1>1. /\ s \in Session /\ pending.epoch \in 0..MaxHandoffs /\ pending.epoch <= handoffEpoch
      /\ handoffs[s].epoch = pending.epoch /\ handoffs[s].state = "Checkpointed"
      /\ handoffs[s].to = ask.lane
      /\ session[s].view # "none" /\ session[s].lane # ask.lane
  BY DEF Awaited, PendingOwnsRun, IInv, EpochsWereGiven, TypeOK, LanesAreFixed
<1>2. /\ handoffs \in [Session -> Runs] /\ session \in [Session -> SessionRecords]
      /\ Unlinked(handoffs, session)
  BY DEF IInv, TypeOK, OverMeansUnlinked, Unlinked, Over
<1>3. /\ x \in [Session -> SessionRecords]
      /\ x[q] = rec /\ \A p \in Session : p # q => x[p] = session[p]
      /\ \A p \in Session : x[p].to = session[p].to /\ x[p].from = session[p].from
      /\ \A p \in Session : session[p].view # "none" =>
           x[p].view # "none" /\ x[p].lane = session[p].lane
  BY <1>2
<1>4. Unlinked(handoffs, x)
  <2>1. \A r \in Session : handoffs[r].dest \in Session \cup {NoSession}
    BY <1>2 DEF Runs
  <2>. HIDE DEF x
  <2>. QED
    BY <1>2, <1>3, <2>1 DEF Unlinked
<1>5. /\ handoffs' = [handoffs EXCEPT ![s].state = "Prepared", ![s].dest = q]
      /\ session' = [y EXCEPT ![q].carry = "shown", ![q].pack = pack]
      /\ pending' = NoPending
  BY DEF Land
<1>. HIDE DEF s, x
<1>6. /\ y \in [Session -> SessionRecords]
      /\ \A p \in Session :
            /\ y[p].lane = x[p].lane /\ y[p].pack = x[p].pack
            /\ y[p].view = x[p].view /\ y[p].turns = x[p].turns
            /\ p # s => y[p].to = x[p].to
            /\ y[p].from \in {x[p].from, s}
  BY <1>1, <1>3, PersistLinksKeeps
<1>7. pack \in Packs /\ pack.by = s /\ pack.epoch = pending.epoch
  BY <1>1 DEF Packs
<1>. HIDE DEF y, pack
<1>. DEFINE last == [y[q] EXCEPT !.carry = "shown", !.pack = pack]
<1>8. /\ last \in SessionRecords /\ last.lane = y[q].lane /\ last.view = y[q].view
      /\ last.turns = y[q].turns /\ last.to = y[q].to /\ last.from = y[q].from
      /\ last.pack = pack
  BY <1>6, <1>7 DEF SessionRecords
<1>9. session' = [y EXCEPT ![q] = last]
  BY <1>5, <1>6 DEF SessionRecords
<1>. HIDE DEF last
<1>10. /\ session' \in [Session -> SessionRecords]
       /\ \A p \in Session :
            /\ session'[p].lane = x[p].lane /\ session'[p].view = x[p].view
            /\ session'[p].turns = x[p].turns
            /\ p # s => session'[p].to = x[p].to
            /\ session'[p].from \in {x[p].from, s}
            /\ p # q => session'[p].pack = session[p].pack
       /\ session'[q].pack.by = s /\ session'[q].pack.epoch = pending.epoch
  <2>1. session'[q] = last /\ \A p \in Session : p # q => session'[p] = y[p]
    BY <1>6, <1>9
  <2>2. session' \in [Session -> SessionRecords]
    BY <1>6, <1>8, <1>9
  <2>3. ASSUME NEW p \in Session
        PROVE  /\ session'[p].lane = y[p].lane /\ session'[p].view = y[p].view
               /\ session'[p].turns = y[p].turns /\ session'[p].to = y[p].to
               /\ session'[p].from = y[p].from
               /\ p # q => session'[p].pack = y[p].pack
    BY <1>8, <2>1
  <2>. QED
    BY <1>3, <1>6, <1>7, <1>8, <2>1, <2>2, <2>3
<1>. DEFINE run == [handoffs[s] EXCEPT !.state = "Prepared", !.dest = q]
<1>11. /\ run \in Runs /\ run.state = "Prepared" /\ run.dest = q
       /\ run.epoch = handoffs[s].epoch /\ run.to = handoffs[s].to
  BY <1>1, <1>2 DEF Runs, RunStates
<1>12. handoffs' = [handoffs EXCEPT ![s] = run]
  BY <1>1, <1>2, <1>5 DEF Runs
<1>. HIDE DEF run
<1>13. /\ handoffs' \in [Session -> Runs] /\ handoffs'[s] = run
       /\ \A r \in Session : r # s => handoffs'[r] = handoffs[r]
  BY <1>1, <1>2, <1>11, <1>12
<1>14. TypeOK'
  BY <1>10, <1>13 DEF RestTyped, TypeOK
<1>15. NothingOpenedYet'
  BY <1>11, <1>13 DEF IInv, NothingOpenedYet, Unopened
<1>16. EpochsWereGiven'
  <2>1. \A r \in Session : handoffs'[r].epoch <= handoffEpoch'
    BY <1>11, <1>13 DEF IInv, EpochsWereGiven
  <2>2. \A p \in Session : session'[p].pack.by # NoSession
                             => session'[p].pack.epoch <= handoffEpoch'
    BY <1>1, <1>10 DEF IInv, EpochsWereGiven
  <2>. QED
    BY <1>5, <2>1, <2>2 DEF EpochsWereGiven
<1>17. \A p \in Session : session[p].view # "none" =>
         session'[p].view # "none" /\ session'[p].lane = session[p].lane
  BY <1>3, <1>10
<1>18. session'[q].view # "none" /\ session'[q].lane = ask.lane
  BY <1>3, <1>10
<1>19. LanesAreFixed'
  <2>1. ASSUME NEW p \in Session, session'[p].view = "none"
        PROVE  session'[p].turns = "no" /\ session'[p].pack.by = NoSession
    BY <1>3, <1>10, <1>18, <2>1 DEF IInv, LanesAreFixed
  <2>2. ASSUME NEW p \in Session, session'[p].pack.by # NoSession
        PROVE  session'[session'[p].pack.by].view # "none"
    <3>1. CASE p = q
      BY <1>1, <1>10, <1>17, <3>1
    <3>2. CASE p # q
      <4>1. session'[p].pack = session[p].pack /\ session[p].pack.by \in Session
        BY <1>2, <1>10, <2>2, <3>2 DEF SessionRecords, Packs
      <4>. QED
        BY <1>17, <2>2, <4>1 DEF IInv, LanesAreFixed
    <3>. QED
      BY <3>1, <3>2
  <2>3. ASSUME NEW r \in Session, handoffs'[r].state = "Checkpointed"
        PROVE  session'[r].view # "none" /\ session'[r].lane # handoffs'[r].to
    BY <1>11, <1>13, <1>17, <2>3 DEF IInv, LanesAreFixed
  <2>4. ASSUME NEW a \in opens', a.session # NoSession
        PROVE  session'[a.session].view # "none" /\ session'[a.session].lane = a.lane
    <3>1. a.session \in Session
      BY <2>4 DEF RestTyped
    <3>. QED
      BY <1>17, <2>4, <3>1 DEF IInv, LanesAreFixed
  <2>. QED
    BY <2>1, <2>2, <2>3, <2>4 DEF LanesAreFixed
<1>20. PendingAwaitsACheckpoint'
  BY <1>5 DEF PendingAwaitsACheckpoint
<1>21. OverMeansUnlinked'
  <2>1. LinksOnly(handoffs, x, s)
    BY <1>10, <1>11, <1>13 DEF LinksOnly, Over
  <2>2. Unlinked(handoffs', session')
    BY <1>1, <1>2, <1>3, <1>4, <2>1, LinkedUnlinked
  <2>. QED
    BY <2>2 DEF OverMeansUnlinked, Unlinked, Over
<1>22. PackOnTheRequestedLane'
  <2>. SUFFICES ASSUME NEW p \in Session, session'[p].pack.by # NoSession
                PROVE  LET by == session'[p].pack.by IN
                       /\ session'[p].lane # session'[by].lane
                       /\ handoffs'[by].epoch = session'[p].pack.epoch
                            => handoffs'[by].to = session'[p].lane
    BY DEF PackOnTheRequestedLane
  <2>1. CASE p = q
    BY <1>1, <1>10, <1>11, <1>13, <1>17, <1>18, <2>1
  <2>2. CASE p # q
    <3>. DEFINE by == session[p].pack.by
    <3>1. session'[p].pack = session[p].pack /\ by \in Session /\ by # NoSession
      BY <1>2, <1>10, <2>2 DEF SessionRecords, Packs
    <3>2. session'[p].lane = session[p].lane /\ session'[by].lane = session[by].lane
      BY <1>17, <3>1 DEF IInv, LanesAreFixed
    <3>3. handoffs'[by].epoch = handoffs[by].epoch /\ handoffs'[by].to = handoffs[by].to
      BY <1>11, <1>13, <3>1
    <3>. QED
      BY <3>1, <3>2, <3>3 DEF IInv, PackOnTheRequestedLane
  <2>. QED
    BY <2>1, <2>2
<1>23. \A r \in Session : OutcomeKept(r)
  BY <1>1, <1>11, <1>13 DEF OutcomeKept
<1>. QED
  BY <1>14, <1>15, <1>16, <1>19, <1>20, <1>21, <1>22, <1>23 DEF Kept, IInv

LEMMA OpenLandsKept ==
  ASSUME IInv, RestTyped', NEW ask \in opens, OpenLands(ask) PROVE Kept
<1>1. opens' \subseteq opens /\ handoffEpoch' = handoffEpoch /\ AsksKeepTheirLane
  BY DEF OpenLands, AsksKeepTheirLane
<1>2. CASE UNCHANGED <<handoffs, pending, session>>
  BY <1>1, <1>2, SelfKept
<1>3. ASSUME NEW q \in Session, NEW x,
             x = [session EXCEPT ![q].view = "live", ![q].lane = ask.lane],
             IF ask.session = NoSession THEN Created(q) ELSE q = ask.session,
             \/ Awaited(ask.lane) /\ Land(q, x)
             \/ session' = x /\ UNCHANGED <<handoffs, pending>>
      PROVE  Kept
  <2>. DEFINE rec == [session[q] EXCEPT !.view = "live", !.lane = ask.lane]
  <2>1. x = [session EXCEPT ![q] = rec]
    BY <1>3 DEF IInv, TypeOK, SessionRecords
  <2>2. /\ rec \in SessionRecords /\ rec.view = "live" /\ rec.lane = ask.lane
        /\ session[q].view # "none" => rec.lane = session[q].lane
        /\ rec.pack = session[q].pack /\ rec.to = session[q].to /\ rec.from = session[q].from
    <3>1. session[q] \in SessionRecords /\ ask.lane \in Lane
      BY DEF IInv, TypeOK
    <3>2. session[q].view # "none" => ask.lane = session[q].lane
      BY <1>3 DEF IInv, LanesAreFixed, Created, Fresh
    <3>. QED
      BY <3>1, <3>2 DEF SessionRecords
  <2>. HIDE DEF rec
  <2>3. CASE Awaited(ask.lane) /\ Land(q, x)
    BY <1>1, <2>1, <2>2, <2>3, LandKept
  <2>4. CASE session' = x /\ UNCHANGED <<handoffs, pending>>
    BY <1>1, <2>1, <2>2, <2>4, OneSessionKept
  <2>. QED
    BY <1>3, <2>3, <2>4
<1>. QED
  BY <1>2, <1>3 DEF OpenLands

-----------------------------------------------------------------------------
(* The invariant and the theorems *)

LEMMA InvInit == Init => IInv
<1>. SUFFICES ASSUME Init PROVE IInv
  OBVIOUS
<1>. USE HandoffAssumption
<1>1. handoffs \in [Session -> Runs] /\ \A s \in Session : handoffs[s] = NoRun
  BY NoRunTyped DEF Init
<1>2. /\ NoPack \in Packs /\ Unborn.view = "none" /\ Unborn.turns = "no"
      /\ Unborn.pack.by = NoSession /\ Unborn \in SessionRecords
  BY DEF NoPack, Packs, Unborn, SessionRecords
<1>3. ASSUME NEW s \in Session
      PROVE  /\ session[s] \in SessionRecords /\ session[s].pack.by = NoSession
             /\ session[s].view = "none" => session[s].turns = "no"
  <2>1. CASE s \in Here \cup Stored
    <3>. DEFINE view == IF s \in Here THEN "live" ELSE "stored"
    <3>1. /\ session[s] = [Unborn EXCEPT !.lane = HomeLane[s], !.turns = "yes", !.view = view]
          /\ view \in {"live", "stored"} /\ HomeLane[s] \in Lane
      BY <2>1 DEF Init
    <3>. HIDE DEF view
    <3>. QED
      BY <1>2, <3>1 DEF SessionRecords
  <2>2. CASE s \notin Here \cup Stored
    BY <1>2, <2>2 DEF Init
  <2>. QED
    BY <2>1, <2>2
<1>4. session \in [Session -> SessionRecords]
  BY <1>3 DEF Init
<1>7. /\ handoffEpoch = 0 /\ pending = NoPending /\ opens = {} /\ openEpoch = 0
      /\ active \in Session /\ draft = NoSession /\ switching = "no" /\ listening = "yes"
      /\ swaps = {} /\ navigations = 0
  BY DEF Init
<1>5. RestTyped
  BY <1>7 DEF RestTyped, NoPending
<1>6. TypeOK
  BY <1>1, <1>4, <1>5 DEF TypeOK, RestTyped
<1>8. NothingOpenedYet /\ OverMeansUnlinked
  BY <1>1 DEF NoRun, NothingOpenedYet, OverMeansUnlinked
<1>9. EpochsWereGiven /\ PendingAwaitsACheckpoint /\ PackOnTheRequestedLane
  BY <1>1, <1>3, <1>7
     DEF NoRun, EpochsWereGiven, PendingAwaitsACheckpoint, PackOnTheRequestedLane
<1>10. LanesAreFixed
  BY <1>1, <1>3, <1>7 DEF NoRun, LanesAreFixed
<1>. QED
  BY <1>6, <1>8, <1>9, <1>10 DEF IInv

LEMMA InvNext == ASSUME IInv, [Next]_vars PROVE Kept
<1>1. RestTyped'
  BY RestNext DEF IInv
<1>2. CASE UNCHANGED vars
  BY <1>1, <1>2, SelfKept DEF vars, AsksKeepTheirLane
<1>3. ASSUME NEW q \in Session, Swap(q) PROVE Kept
  BY <1>1, <1>3, SelfKept DEF Swap, AsksKeepTheirLane
<1>4. CASE Done
  BY <1>2, <1>4 DEF Done
<1>. QED
  BY <1>1, <1>2, <1>3, <1>4, StartsKept, CancelHandoffKept, VisitKept, ReopenKept, EvictKept,
     NewSessionKept, OpenLandsKept, OpenFailsKept, PackAcceptedKept, PackRefusedKept,
     PackTurnEndsKept, LaneLostKept DEF Next, Answer, PackAnswer

LEMMA Invariance == Spec => []IInv
<1>1. IInv /\ [Next]_vars => IInv'
  BY InvNext DEF Kept
<1>. QED
  BY <1>1, InvInit, PTL DEF Spec

\* Type correctness of the window's and the stores' state.
THEOREM TypeCorrect == Spec => []TypeOK
  BY Invariance, PTL DEF IInv

\* The pending slot never outlives the checkpoint it waits for, whatever opens,
\* cancels and fails, for any number of handoffs and navigations.
THEOREM SlotIsCurrent == Spec => []PendingAwaitsACheckpoint
  BY Invariance, PTL DEF IInv

\* A failed or cancelled handoff leaves no half of its link in the stores.
THEOREM NoHalfLinks == Spec => []OverMeansUnlinked
  BY Invariance, PTL DEF IInv

\* A pack is submitted on the lane its request named, and on no other.
THEOREM PackLane == Spec => []PackOnTheRequestedLane
  BY Invariance, PTL DEF IInv

\* A run that is over stays what it came to (HandoffRun::fail and its callers).
THEOREM OutcomesAreFinal == Spec => OutcomesStand
<1>1. IInv /\ [Next]_vars => [\A s \in Session : OutcomeKept(s)]_vars
  BY InvNext DEF Kept
<1>. QED
  BY <1>1, Invariance, PTL DEF Spec, OutcomesStand
=============================================================================

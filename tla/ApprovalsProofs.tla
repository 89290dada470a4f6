-------------------------- MODULE ApprovalsProofs --------------------------
(***************************************************************************)
(* What Approvals promises, proved for every set of asks, any number of    *)
(* presses, children and faults: a child is told once of an ask, a card    *)
(* that is done with says what the child was told, and an ask the child    *)
(* still waits on can still be decided.                                    *)
(*                                                                         *)
(* The argument follows an ask.  Leaving the adapter's queue is the claim, *)
(* and a claim, an answer and a place in the queue exclude one another     *)
(* (ClaimsAreExclusive), so nobody answers twice.  What the card of an     *)
(* ended call will say is already decided while the event that says it is  *)
(* on the wire (EndedCardsAreFinal); for Claude Code, whose result line    *)
(* only says that the call failed, this needs the note of a denial to be   *)
(* exact (DenialsAreNoted).  And what a waiting ask needs is in the queue, *)
(* being parked, or in the hand of the press that claimed it, its card     *)
(* drawn or about to be (WaitingAsksAreDecidable).                         *)
(***************************************************************************)
EXTENDS Approvals, FiniteSetTheorems, TLAPS

-----------------------------------------------------------------------------
(* The invariant *)

\* What a lane's event, a line told to the child and a press's record look like.
Events == [type : {"card", "tap", "lost"}, of : Requests \cup {NoRequest},
           state : {"pending", "allowed", "denied", "none"}]
Tellings == [to : Nat, choice : {"allow", "deny"}]
CallRecords ==
    [of : Requests \cup {NoRequest}, choice : {"none", "allow", "deny"},
     via : {"none", "card", "tap"},
     pc : {"none", "sent", "found", "claimed", "unsent", "done", "over"},
     result : {"none", "ok", "refused", "unknown"}]

\* The types TypeOK leaves out: the sequences, the calls, and that only finitely
\* many cards wait for an end, so the cards of a lost child can be listed.
Types ==
    /\ TypeOK
    /\ told \in [Requests -> Seq(Tellings)]
    /\ calls \in [Presses -> CallRecords]
    /\ wire \in Seq(Events)
    /\ orphans \subseteq Requests /\ early \subseteq Requests /\ rewritten \subseteq Requests
    /\ IsFiniteSet(sites)

\* A press is of an ask that was made, is counted, and holds the lane's mutex
\* alone while the adapter decides.
CallsAreOfAsks ==
    /\ \A p \in Presses :
         /\ calls[p].pc \notin {"none", "over"} =>
              /\ calls[p].of \in Requests /\ asker[calls[p].of] # 0
              /\ calls[p].choice \in {"allow", "deny"}
         /\ p > pressed => calls[p].pc = "none"
    /\ \A p, q \in Presses : Deciding(p) /\ Deciding(q) => p = q

\* Nothing is queued, drawn, parked, answered or on the wire of an ask nobody made,
\* and no ask is of a child yet to come.
AsksAreKnown ==
    /\ parking # NoRequest => kind = "codex"
    /\ \A r \in Requests :
         /\ r \in table \cup denied \cup shelf \cup sites => asker[r] # 0
         /\ r = parking \/ card[r] # "none" \/ tap[r] # "none" \/ told[r] # <<>>
              => asker[r] # 0
         /\ over[r] # "no" => asker[r] # 0
         /\ asker[r] <= child.no
    /\ \A i \in DOMAIN wire : wire[i].of \in Requests => asker[wire[i].of] # 0

\* A press that took its ask off the queue and has not told the child yet.
Claimed(p) == calls[p].pc \in {"claimed", "unsent"}

\* Queued, parked, claimed and answered: an ask is one of these at a time.
ClaimsAreExclusive ==
    /\ \A r \in Requests :
         told[r] # <<>> \/ r = parking \/ (\E p \in Presses : Claimed(p) /\ calls[p].of = r)
           => r \notin table
    /\ \A r \in Requests : told[r] # <<>> => r # parking
    /\ \A p \in Presses : Claimed(p) => told[calls[p].of] = <<>> /\ calls[p].of # parking
    /\ \A p \in Presses : calls[p].pc = "found" => calls[p].of # parking
    /\ \A p \in Presses : calls[p].pc = "unsent" => child.life # "up" /\ kind = "claude"

\* Claude Code's fold has the request of an answered ask on its shelf, and its note
\* of denials is exact: of the running child's asks it names those denied, or being
\* denied, and no other.
DenialsAreNoted ==
    kind = "claude" =>
      /\ \A p \in Presses : calls[p].pc = "claimed" =>
           /\ calls[p].choice = "deny" => calls[p].of \in denied
           /\ child.life = "up" => calls[p].of \in shelf
      /\ \A r \in Requests : told[r] # <<>> =>
           /\ AnswerOf(r) = "deny" => r \in denied
           /\ child.life = "up" /\ Open(r) /\ told[r][1].to = child.no => r \in shelf
      /\ \A r \in Requests : child.life = "up" /\ asker[r] = child.no /\ r \in denied =>
           \/ told[r] # <<>> /\ AnswerOf(r) = "deny"
           \/ \E p \in Presses : /\ calls[p].pc = "claimed" /\ calls[p].of = r
                                 /\ calls[p].choice = "deny"

\* What an ask's card must say in the end, and that it says so, or will once the
\* last event of the ask has come through: none on the wire follows that one.
Verdict(r) == IF AnswerOf(r) = "deny" THEN "denied" ELSE "allowed"
NothingOf(r, i) == \A j \in DOMAIN wire : j > i => wire[j].of # r
Final(r, state) ==
    \/ \E i \in DOMAIN wire : wire[i] = Card(r, state) /\ NothingOf(r, i)
    \/ NothingOf(r, 0) /\ card[r] = state /\ tap[r] = "none"

\* The card of a call that ended is final, unless the end of the stream rewrote it.
EndedCardsAreFinal ==
    \A r \in Requests : over[r] = "ran" =>
      /\ told[r] # <<>>
      /\ r \notin rewritten => Final(r, Verdict(r))

\* The running child waits on an ask nobody answered.
Waiting(r) == Open(r) /\ child.life = "up" /\ told[r] = <<>>
\* An ask's card is pending, or is about to be, and nothing on the wire settles it.
Drawn(r) ==
    /\ \A i \in DOMAIN wire : wire[i].type = "card" /\ wire[i].of = r =>
         wire[i].state = "pending"
    /\ card[r] = "pending" \/ \E i \in DOMAIN wire : wire[i] = Card(r, "pending")

\* A waiting ask is queued, being parked or in the hand that claimed it, and drawn
\* unless it was refused while parking; only such an ask is ever called unknown.
WaitingAsksAreDecidable ==
    /\ \A r \in Requests : Waiting(r) =>
         /\ \/ r \in table \/ r = parking
            \/ \E p \in Presses : calls[p].pc = "claimed" /\ calls[p].of = r
         /\ r \in early \/ Drawn(r)
    /\ \A p \in Presses : calls[p].pc = "done" /\ calls[p].result = "unknown" =>
         calls[p].of \in early \/ ~Waiting(calls[p].of)

\* The inductive invariant.
IInv ==
    /\ Types /\ CallsAreOfAsks /\ AsksAreKnown /\ ClaimsAreExclusive /\ DenialsAreNoted
    /\ AnsweredOnce /\ EndedCardsAreFinal /\ WaitingAsksAreDecidable

-----------------------------------------------------------------------------
(* Events, and what appending and removing them leaves true *)

USE DEF asks, adapter, window, story

\* What the fold and the adapter send are events.
LEMMA CardsAreEvents ==
    ASSUME NEW r \in Requests, NEW state \in {"pending", "allowed", "denied"}
    PROVE  Card(r, state) \in Events /\ Tap(r) \in Events /\ Lost \in Events
BY DEF Card, Tap, Lost, Events

\* The listing of a finite set is a sequence of its members.
LEMMA SetToSeqRanges ==
    ASSUME NEW S, IsFiniteSet(S)
    PROVE  SetToSeq(S) \in Seq(S)
<1>1. PICK n \in Nat : ExistsBijection(1 .. n, S)
  BY FS_NatBijection
<1>2. Cardinality(S) = n
  BY <1>1, FS_CountingElements
<1>3. PICK f \in Bijection(1 .. n, S) : TRUE
  BY <1>1 DEF ExistsBijection
<1>4. f \in [1 .. Cardinality(S) -> S] /\ IsInjective(f)
  BY <1>2, <1>3 DEF Bijection, Injection, IsInjective
<1>5. SetToSeq(S) \in [1 .. Cardinality(S) -> S]
  BY <1>4 DEF SetToSeq
<1>. QED  BY <1>2, <1>5

\* Finitely many asks have finitely many cards.
LEMMA CardsAreFinite ==
    ASSUME NEW S, IsFiniteSet(S), NEW state
    PROVE  IsFiniteSet({Card(r, state) : r \in S})
<1>. DEFINE cards == {Card(r, state) : r \in S}
            f == [r \in S |-> Card(r, state)]
<1>1. f \in Surjection(S, cards)
  BY DEF Surjection
<1>. QED  BY <1>1, FS_Surjection

\* A step sends events of a set, behind those already on the wire.
GrewBy(new) ==
    /\ wire' \in Seq(Events) /\ Len(wire') >= Len(wire)
    /\ \A i \in DOMAIN wire : i \in DOMAIN wire' /\ wire'[i] = wire[i]
    /\ \A i \in DOMAIN wire' : i \notin DOMAIN wire => i > Len(wire) /\ wire'[i] \in new

\* A step that sends one event, which is then the last.
LEMMA GrowsByAppend ==
    ASSUME wire \in Seq(Events), NEW e \in Events, wire' = Append(wire, e)
    PROVE  GrewBy({e}) /\ Len(wire') = Len(wire) + 1 /\ wire'[Len(wire) + 1] = e
BY DEF GrewBy

\* A step that sends several.
LEMMA GrowsBySequence ==
    ASSUME wire \in Seq(Events), NEW S \in SUBSET Events, NEW s \in Seq(S), wire' = wire \o s
    PROVE  GrewBy(S)
<1>1. s \in Seq(Events) /\ \A i \in 1 .. Len(s) : s[i] \in S
  OBVIOUS
<1>2. /\ wire' \in Seq(Events) /\ Len(wire') = Len(wire) + Len(s)
      /\ \A i \in 1 .. Len(wire') :
           wire'[i] = IF i <= Len(wire) THEN wire[i] ELSE s[i - Len(wire)]
  BY <1>1
<1>3. \A i \in 1 .. Len(wire') : i > Len(wire) => i - Len(wire) \in 1 .. Len(s)
  BY <1>2
<1>. QED  BY <1>1, <1>2, <1>3 DEF GrewBy

\* A final card stays final while nothing of its ask is sent.
LEMMA FinalStays ==
    ASSUME wire \in Seq(Events), NEW new, GrewBy(new), NEW r \in Requests, NEW state,
           \A e \in new : e.of # r, card'[r] = card[r], tap'[r] = tap[r], Final(r, state)
    PROVE  Final(r, state)'
<1>1. \A i \in Nat : NothingOf(r, i) => NothingOf(r, i)'
  BY DEF NothingOf, GrewBy
<1>. QED  BY <1>1 DEF Final, GrewBy

\* A drawn card stays drawn while no verdict of it is sent.
LEMMA DrawnStays ==
    ASSUME wire \in Seq(Events), NEW new, GrewBy(new), NEW r \in Requests,
           \A e \in new : e.type = "card" /\ e.of = r => e.state = "pending",
           card'[r] = card[r], Drawn(r)
    PROVE  Drawn(r)'
BY DEF Drawn, GrewBy

\* The window takes the first event: every other moves up by one.
LEMMA Shifts ==
    ASSUME wire \in Seq(Events), wire # <<>>, wire' = Tail(wire)
    PROVE  /\ wire' \in Seq(Events) /\ Head(wire) = wire[1] /\ 1 \in DOMAIN wire
           /\ \A i \in DOMAIN wire' : i + 1 \in DOMAIN wire /\ wire'[i] = wire[i + 1]
           /\ \A i \in DOMAIN wire : i # 1 => i - 1 \in DOMAIN wire' /\ wire'[i - 1] = wire[i]
OBVIOUS

\* The invariant holds when the lane opens.
LEMMA InitEstablishes == Init => IInv
<1>. SUFFICES ASSUME Init PROVE IInv
  OBVIOUS
<1>. USE ApprovalsAssumption DEF Init
<1>1. \A p \in Presses : calls[p] = NoCall
  OBVIOUS
<1>2. Types
  <2>1. NoCall \in CallRecords /\ <<>> \in Seq(Tellings) /\ <<>> \in Seq(Events)
    BY DEF NoCall, CallRecords
  <2>2. calls \in [Presses -> CallRecords] /\ told \in [Requests -> Seq(Tellings)]
    BY <2>1
  <2>3. TypeOK
    BY DEF TypeOK
  <2>. QED  BY <2>1, <2>2, <2>3, FS_EmptySet DEF Types
<1>3. CallsAreOfAsks /\ ClaimsAreExclusive /\ DenialsAreNoted
  BY <1>1 DEF CallsAreOfAsks, ClaimsAreExclusive, DenialsAreNoted, Claimed, Deciding, NoCall
<1>4. AsksAreKnown /\ EndedCardsAreFinal
  BY DEF AsksAreKnown, EndedCardsAreFinal
<1>5. AnsweredOnce
  BY DEF AnsweredOnce
<1>6. WaitingAsksAreDecidable
  BY <1>1 DEF WaitingAsksAreDecidable, NoCall, Waiting, Open
<1>. QED  BY <1>2, <1>3, <1>4, <1>5, <1>6 DEF IInv

-----------------------------------------------------------------------------
(* The pump *)

\* A new ask: its card is pending behind everything else on the wire.
LEMMA AskKeeps ==
    ASSUME IInv, NEW r \in Requests, AskClaude(r) \/ CardCodex(r)
    PROVE  IInv'
<1>. USE DEF IInv
<1>1. /\ UNCHANGED <<kind, child, told, over, shelf, denied, calls, pressed, window, faults,
                     story>>
      /\ child.life = "up" /\ asker[r] = 0 /\ asker' = [asker EXCEPT ![r] = child.no]
      /\ sites' = sites \cup {r}
      /\ \/ table' = table /\ parking' = r /\ kind = "codex" /\ parking = NoRequest
         \/ table' = table \cup {r} /\ parking' = parking /\ kind = "claude"
  <2>1. CASE AskClaude(r)
    BY <2>1 DEF AskClaude
  <2>2. CASE CardCodex(r)
    BY <2>2 DEF CardCodex
  <2>. QED  BY <2>1, <2>2
<1>2. /\ GrewBy({Card(r, "pending"), Tap(r)})
      /\ \E i \in DOMAIN wire' : wire'[i] = Card(r, "pending")
  <2>. USE CardsAreEvents DEF Types
  <2>1. CASE AskClaude(r)
    <3>1. <<Card(r, "pending"), Tap(r)>> \in Seq({Card(r, "pending"), Tap(r)})
      OBVIOUS
    <3>2. {Card(r, "pending"), Tap(r)} \in SUBSET Events
      OBVIOUS
    <3>3. wire' = wire \o <<Card(r, "pending"), Tap(r)>>
      BY <2>1 DEF AskClaude
    <3>4. GrewBy({Card(r, "pending"), Tap(r)})
      BY <3>1, <3>2, <3>3, GrowsBySequence
    <3>5. wire'[Len(wire) + 1] = Card(r, "pending") /\ Len(wire) + 1 \in DOMAIN wire'
      BY <3>2, <3>3
    <3>. QED  BY <3>4, <3>5
  <2>2. CASE CardCodex(r)
    <3>1. wire' = Append(wire, Card(r, "pending"))
      BY <2>2 DEF CardCodex
    <3>. QED  BY <3>1, GrowsByAppend DEF GrewBy
  <2>. QED  BY <2>1, <2>2
<1>3. child.no # 0 /\ child.no \in Nat /\ r # NoRequest
  BY ApprovalsAssumption DEF Types, TypeOK
<1>4. Types'
  <2>1. IsFiniteSet(sites')
    BY <1>1, FS_AddElement DEF Types
  <2>2. TypeOK'
    BY <1>1 DEF Types, TypeOK
  <2>. QED  BY <1>1, <1>2, <2>1, <2>2 DEF Types, GrewBy
<1>5. \A q \in Requests : q # r => asker'[q] = asker[q]
  BY <1>1 DEF Types, TypeOK
<1>6. asker'[r] = child.no
  BY <1>1 DEF Types, TypeOK
<1>7. told[r] = <<>> /\ r \notin table \cup denied \cup shelf \cup sites /\ over[r] = "no"
      /\ r # parking
  BY <1>1 DEF AsksAreKnown
<1>8. \A p \in Presses : calls[p].pc \notin {"none", "over"} => calls[p].of # r
  BY <1>1 DEF CallsAreOfAsks
<1>9. CallsAreOfAsks'
  BY <1>1, <1>3, <1>5, <1>8 DEF CallsAreOfAsks, Deciding
<1>10. AsksAreKnown'
  <2>1. \A i \in DOMAIN wire' : wire'[i].of \in Requests => asker'[wire'[i].of] # 0
    BY <1>2, <1>3, <1>5, <1>6 DEF AsksAreKnown, GrewBy, Card, Tap
  <2>. QED  BY <1>1, <1>3, <1>5, <1>6, <2>1 DEF AsksAreKnown
<1>11. ClaimsAreExclusive'
  BY <1>1, <1>7, <1>8 DEF ClaimsAreExclusive, Claimed
<1>12. DenialsAreNoted'
  BY <1>1, <1>5, <1>7 DEF DenialsAreNoted, AnswerOf, Open
<1>13. EndedCardsAreFinal'
  <2>. SUFFICES ASSUME NEW q \in Requests, over[q] = "ran", q \notin rewritten
       PROVE  Final(q, Verdict(q))'
    BY <1>1 DEF EndedCardsAreFinal
  <2>1. q # r /\ Final(q, Verdict(q))
    BY <1>7 DEF EndedCardsAreFinal
  <2>2. PICK v : v = Verdict(q)
    OBVIOUS
  <2>3. Final(q, v)'
    BY <1>1, <1>2, <2>1, <2>2, FinalStays DEF Types, Card, Tap
  <2>. QED  BY <1>1, <2>2, <2>3 DEF Verdict, AnswerOf
<1>14. WaitingAsksAreDecidable'
  <2>1. \A q \in Requests : q # r => (Waiting(q)' <=> Waiting(q))
    BY <1>1, <1>5 DEF Waiting, Open
  <2>2. \A q \in Requests : q # r /\ Drawn(q) => Drawn(q)'
    BY <1>1, <1>2, DrawnStays DEF Types, Card, Tap
  <2>3. Drawn(r)'
    BY <1>1, <1>2 DEF Drawn, GrewBy, AsksAreKnown, Card, Tap
  <2>4. \A q \in Requests : q # r /\ Waiting(q) =>
          \/ q \in table' \/ q = parking'
          \/ \E p \in Presses : calls[p].pc = "claimed" /\ calls[p].of = q
    BY <1>1, ApprovalsAssumption DEF WaitingAsksAreDecidable
  <2>5. r \in table' \/ r = parking'
    BY <1>1
  <2>6. \A p \in Presses : calls[p].pc = "done" =>
          calls[p].of \in Requests /\ calls[p].of # r
    BY <1>8 DEF CallsAreOfAsks
  <2>. QED  BY <1>1, <2>1, <2>2, <2>3, <2>4, <2>5, <2>6 DEF WaitingAsksAreDecidable
<1>15. AnsweredOnce'
  BY <1>1 DEF AnsweredOnce
<1>. QED  BY <1>4, <1>9, <1>10, <1>11, <1>12, <1>13, <1>14, <1>15

\* Codex's ask becomes answerable; no claim or answer of it exists yet.
LEMMA ParkKeeps == ASSUME IInv, ParkCodex PROVE IInv'
<1>. USE DEF IInv
<1>1. /\ UNCHANGED <<kind, child, asks, shelf, sites, denied, calls, pressed, window, faults,
                     story>>
      /\ parking # NoRequest /\ table' = table \cup {parking} /\ parking' = NoRequest
      /\ wire' = Append(wire, Tap(parking))
  BY DEF ParkCodex
<1>2. PICK r \in Requests : r = parking
  BY <1>1 DEF Types, TypeOK
<1>3. Tap(r) \in Events
  BY CardsAreEvents
<1>4. GrewBy({Tap(r)})
  BY <1>1, <1>2, <1>3, GrowsByAppend DEF Types
<1>5. Types'
  BY <1>1, <1>2, <1>4 DEF Types, TypeOK, GrewBy
<1>6. kind = "codex" /\ asker[r] # 0 /\ told[r] = <<>> /\ NoRequest \notin Requests
  BY <1>1, <1>2, ApprovalsAssumption DEF AsksAreKnown, ClaimsAreExclusive
<1>7. \A p \in Presses : Claimed(p) => calls[p].of # r
  BY <1>2 DEF ClaimsAreExclusive
<1>8. CallsAreOfAsks' /\ AnsweredOnce'
  BY <1>1 DEF CallsAreOfAsks, Deciding, AnsweredOnce
<1>9. AsksAreKnown'
  <2>1. \A i \in DOMAIN wire' : wire'[i].of \in Requests => asker[wire'[i].of] # 0
    BY <1>4, <1>6 DEF AsksAreKnown, GrewBy, Tap
  <2>. QED  BY <1>1, <1>2, <1>6, <2>1 DEF AsksAreKnown
<1>10. ClaimsAreExclusive'
  <2>1. \A p \in Presses : calls[p].pc \notin {"none", "over"} => calls[p].of # NoRequest
    BY <1>6 DEF CallsAreOfAsks
  <2>. QED  BY <1>1, <1>2, <1>6, <1>7, <2>1 DEF ClaimsAreExclusive, Claimed
<1>11. DenialsAreNoted'
  BY <1>1, <1>6 DEF DenialsAreNoted
<1>12. EndedCardsAreFinal'
  <2>. SUFFICES ASSUME NEW q \in Requests, over[q] = "ran", q \notin rewritten
       PROVE  Final(q, Verdict(q))'
    BY <1>1 DEF EndedCardsAreFinal
  <2>1. q # r /\ Final(q, Verdict(q))
    BY <1>6 DEF EndedCardsAreFinal
  <2>2. PICK v : v = Verdict(q)
    OBVIOUS
  <2>3. Final(q, v)'
    BY <1>1, <1>4, <2>1, <2>2, FinalStays DEF Types, Tap
  <2>. QED  BY <1>1, <2>2, <2>3 DEF Verdict, AnswerOf
<1>13. WaitingAsksAreDecidable'
  <2>1. \A q \in Requests : Waiting(q)' <=> Waiting(q)
    BY <1>1 DEF Waiting, Open
  <2>2. \A q \in Requests : Drawn(q) => Drawn(q)'
    BY <1>1, <1>4, DrawnStays DEF Types, Tap
  <2>3. \A p \in Presses : calls[p].pc = "done" => calls[p].of \in Requests
    BY DEF CallsAreOfAsks
  <2>. QED  BY <1>1, <1>2, <2>1, <2>2, <2>3 DEF WaitingAsksAreDecidable
<1>. QED  BY <1>5, <1>8, <1>9, <1>10, <1>11, <1>12, <1>13

\* What the end of a gated call does to the queues and the wire.
LEMMA FinishDoes ==
    ASSUME IInv, NEW r \in Requests, Finish(r)
    PROVE  /\ table' \subseteq table /\ table \subseteq table' \cup {r}
           /\ shelf' \subseteq shelf \cup {r} /\ shelf \subseteq shelf' \cup {r}
           /\ sites' \subseteq sites
           /\ wire' = Append(wire, Card(r, Verdict(r)))
<1>. USE DEF IInv
<1>1. /\ child.life = "up" /\ Open(r) /\ told[r] # <<>> /\ told[r][1].to = child.no
      /\ told[r] \in Seq(Tellings) /\ r \notin table
  BY DEF Finish, Types, ClaimsAreExclusive
<1>2. AnswerOf(r) \in {"allow", "deny"}
  <2>1. told[r][1] \in Tellings
    BY <1>1
  <2>. QED  BY <2>1 DEF Tellings, AnswerOf
<1>3. CASE kind = "claude"
  <2>1. PICK failed \in {AnswerOf(r) = "deny", TRUE} : ResultClaude(r, failed)
    BY <1>3 DEF Finish
  <2>2. r \in shelf /\ (r \in denied <=> AnswerOf(r) = "deny")
    <3>1. r \in shelf /\ (AnswerOf(r) = "deny" => r \in denied)
      BY <1>1, <1>3 DEF DenialsAreNoted
    <3>2. ASSUME r \in denied PROVE AnswerOf(r) = "deny"
      <4>1. asker[r] = child.no
        BY <1>1 DEF Open
      <4>2. \A p \in Presses : calls[p].pc = "claimed" => calls[p].of # r
        BY <1>1 DEF ClaimsAreExclusive, Claimed
      <4>. QED  BY <1>1, <1>3, <3>2, <4>1, <4>2 DEF DenialsAreNoted
    <3>. QED  BY <3>1, <3>2
  <2>3. r \in Kept
    BY <1>3, <2>2 DEF Kept
  <2>4. CASE ~failed
    BY <1>2, <1>3, <2>1, <2>3, <2>4 DEF ResultClaude, Resolved, Redraws, Verdict
  <2>5. CASE failed /\ r \in denied
    BY <1>3, <2>1, <2>2, <2>3, <2>5 DEF ResultClaude, Resolved, Redraws, Verdict
  <2>6. CASE failed /\ r \notin denied
    BY <1>3, <2>1, <2>2, <2>3, <2>6 DEF ResultClaude, Refaced, Redraws, Verdict
  <2>. QED  BY <2>4, <2>5, <2>6
<1>4. CASE kind # "claude"
  BY <1>2, <1>4 DEF Finish, Resolved, Redraws, Kept, Verdict
<1>. QED  BY <1>3, <1>4

\* The end of a gated call makes its card final, with the verdict it was told.
LEMMA FinishKeeps == ASSUME IInv, NEW r \in Requests, Finish(r) PROVE IInv'
<1>. USE DEF IInv
<1>1. /\ UNCHANGED <<kind, child, asker, told, denied, parking, calls, pressed, window, faults,
                     story>>
      /\ child.life = "up" /\ Open(r) /\ told[r] # <<>>
      /\ over' = [over EXCEPT ![r] = "ran"]
  BY DEF Finish
<1>2. /\ table' \subseteq table /\ table \subseteq table' \cup {r}
      /\ shelf' \subseteq shelf \cup {r} /\ shelf \subseteq shelf' \cup {r}
      /\ sites' \subseteq sites
  BY FinishDoes
<1>3. asker[r] # 0 /\ r # NoRequest /\ Verdict(r) \in {"allowed", "denied"}
  BY <1>1, ApprovalsAssumption DEF AsksAreKnown, Verdict
<1>4. /\ GrewBy({Card(r, Verdict(r))})
      /\ Len(wire') = Len(wire) + 1 /\ wire'[Len(wire) + 1] = Card(r, Verdict(r))
  <2>1. Card(r, Verdict(r)) \in Events
    BY <1>3, CardsAreEvents
  <2>. QED  BY <2>1, FinishDoes, GrowsByAppend DEF Types
<1>5. over'[r] = "ran" /\ \A q \in Requests : q # r => over'[q] = over[q]
  BY <1>1 DEF Types, TypeOK
<1>6. Types'
  <2>1. IsFiniteSet(sites')
    BY <1>2, FS_Subset DEF Types
  <2>2. TypeOK'
    BY <1>1, <1>2 DEF Types, TypeOK
  <2>. QED  BY <1>1, <1>4, <2>1, <2>2 DEF Types, GrewBy
<1>7. CallsAreOfAsks' /\ AnsweredOnce'
  BY <1>1 DEF CallsAreOfAsks, Deciding, AnsweredOnce
<1>8. AsksAreKnown'
  <2>1. \A i \in DOMAIN wire' : wire'[i].of \in Requests => asker[wire'[i].of] # 0
    BY <1>3, <1>4 DEF AsksAreKnown, GrewBy, Card
  <2>. QED  BY <1>1, <1>2, <1>3, <1>5, <2>1 DEF AsksAreKnown
<1>9. ClaimsAreExclusive'
  BY <1>1, <1>2 DEF ClaimsAreExclusive, Claimed
<1>10. \A p \in Presses : Claimed(p) => calls[p].of # r
  BY <1>1 DEF ClaimsAreExclusive
<1>11. DenialsAreNoted'
  BY <1>1, <1>2, <1>5, <1>10 DEF DenialsAreNoted, Claimed, Open, AnswerOf
<1>12. EndedCardsAreFinal'
  <2>. SUFFICES ASSUME NEW q \in Requests, over'[q] = "ran", q \notin rewritten
       PROVE  told[q] # <<>> /\ Final(q, Verdict(q))'
    BY <1>1 DEF EndedCardsAreFinal
  <2>1. PICK v : v = Verdict(q)
    OBVIOUS
  <2>2. Verdict(q)' = v
    BY <1>1, <2>1 DEF Verdict, AnswerOf
  <2>3. CASE q = r
    <3>1. PICK n \in Nat : n = Len(wire) + 1
      BY DEF Types
    <3>2. n \in DOMAIN wire' /\ wire'[n] = Card(q, v)
      BY <1>4, <2>1, <2>3, <3>1 DEF GrewBy
    <3>3. NothingOf(q, n)'
      BY <1>4, <3>1 DEF NothingOf, GrewBy
    <3>. HIDE <3>1
    <3>4. Final(q, v)'
      BY <3>2, <3>3 DEF Final
    <3>. QED  BY <1>1, <2>2, <2>3, <3>4
  <2>4. CASE q # r
    <3>1. told[q] # <<>> /\ Final(q, v)
      BY <1>5, <2>1, <2>4 DEF EndedCardsAreFinal
    <3>2. Final(q, v)'
      BY <1>1, <1>4, <2>4, <3>1, FinalStays DEF Types, Card
    <3>. QED  BY <2>2, <3>1, <3>2
  <2>. QED  BY <2>3, <2>4
<1>13. WaitingAsksAreDecidable'
  <2>1. ~Waiting(r)' /\ ~Waiting(r)
    BY <1>1 DEF Waiting
  <2>2. \A q \in Requests : Waiting(q)' => Waiting(q) /\ q # r
    BY <1>1, <1>5, <2>1 DEF Waiting, Open
  <2>3. \A q \in Requests : q # r /\ Drawn(q) => Drawn(q)'
    BY <1>1, <1>4, DrawnStays DEF Types, Card
  <2>4. \A p \in Presses : calls[p].pc = "done" => calls[p].of \in Requests
    BY DEF CallsAreOfAsks
  <2>. QED  BY <1>1, <1>2, <2>2, <2>3, <2>4 DEF WaitingAsksAreDecidable
<1>. QED  BY <1>6, <1>7, <1>8, <1>9, <1>11, <1>12, <1>13

\* A cut turn leaves no ask open, and settles only cards of asks that were.
LEMMA CutKeeps ==
    ASSUME IInv, NEW state \in {"denied", "allowed"}, Cut(state)
    PROVE  IInv'
<1>. USE DEF IInv
<1>. DEFINE settled == {r \in Commands \cap sites : Open(r)}
            cards == {Card(r, state) : r \in settled}
<1>1. /\ UNCHANGED <<kind, child, asker, told, table, shelf, denied, parking, calls, pressed,
                     window, story>>
      /\ kind = "codex" /\ faults < MaxFaults /\ faults' = faults + 1
      /\ sites' = sites \ settled /\ wire' = wire \o SetToSeq(cards)
      /\ over' = [r \in Requests |-> IF Open(r) THEN "cut" ELSE over[r]]
  BY DEF Cut
<1>2. GrewBy(cards)
  <2>1. IsFiniteSet(settled)
    <3>1. settled \subseteq sites
      OBVIOUS
    <3>. QED  BY <3>1, FS_Subset DEF Types
  <2>2. IsFiniteSet(cards)
    BY <2>1, CardsAreFinite
  <2>3. cards \in SUBSET Events
    BY CardsAreEvents DEF Types, TypeOK
  <2>4. SetToSeq(cards) \in Seq(cards)
    BY <2>2, SetToSeqRanges
  <2>. QED  BY <1>1, <2>3, <2>4, GrowsBySequence DEF Types
<1>3. \A e \in cards : e.of \in Requests /\ Open(e.of) /\ e.of \in sites
  BY DEF Card, Types, TypeOK
<1>. HIDE DEF cards
<1>4. \A r \in Requests : over'[r] = IF Open(r) THEN "cut" ELSE over[r]
  BY <1>1
<1>5. Types'
  <2>1. IsFiniteSet(sites') /\ sites' \subseteq sites
    <3>1. sites' \subseteq sites
      BY <1>1
    <3>. QED  BY <3>1, FS_Subset DEF Types
  <2>2. TypeOK'
    BY <1>1, <2>1, ApprovalsAssumption DEF Types, TypeOK
  <2>. QED  BY <1>1, <1>2, <2>1, <2>2 DEF Types, GrewBy
<1>6. CallsAreOfAsks' /\ AnsweredOnce' /\ ClaimsAreExclusive'
  BY <1>1 DEF CallsAreOfAsks, Deciding, AnsweredOnce, ClaimsAreExclusive, Claimed
<1>7. AsksAreKnown'
  <2>1. \A i \in DOMAIN wire' : wire'[i].of \in Requests => asker[wire'[i].of] # 0
    BY <1>2, <1>3 DEF AsksAreKnown, GrewBy
  <2>2. \A r \in Requests : Open(r) => asker[r] # 0
    BY ApprovalsAssumption DEF Open, Types, TypeOK
  <2>. QED  BY <1>1, <1>4, <2>1, <2>2 DEF AsksAreKnown
<1>8. DenialsAreNoted'
  BY <1>1 DEF DenialsAreNoted
<1>9. EndedCardsAreFinal'
  <2>. SUFFICES ASSUME NEW q \in Requests, over'[q] = "ran", q \notin rewritten
       PROVE  Final(q, Verdict(q))'
    BY <1>1, <1>4 DEF EndedCardsAreFinal
  <2>1. ~Open(q) /\ Final(q, Verdict(q))
    BY <1>4 DEF EndedCardsAreFinal, Open
  <2>2. PICK v : v = Verdict(q)
    OBVIOUS
  <2>3. Final(q, v)'
    BY <1>1, <1>2, <1>3, <2>1, <2>2, FinalStays DEF Types
  <2>. QED  BY <1>1, <2>2, <2>3 DEF Verdict, AnswerOf
<1>10. WaitingAsksAreDecidable'
  <2>1. \A q \in Requests : ~Waiting(q)'
    BY <1>1, <1>4 DEF Waiting, Open
  <2>2. \A p \in Presses : calls[p].pc = "done" => calls[p].of \in Requests
    BY DEF CallsAreOfAsks
  <2>. QED  BY <1>1, <2>1, <2>2 DEF WaitingAsksAreDecidable
<1>. QED  BY <1>5, <1>6, <1>7, <1>8, <1>9, <1>10

\* A dead child waits on nothing.
LEMMA DieKeeps == ASSUME IInv, Die PROVE IInv'
<1>. USE DEF IInv
<1>1. /\ UNCHANGED <<kind, asks, adapter, calls, pressed, wire, window, story>>
      /\ child' = [child EXCEPT !.life = "dead"] /\ faults < MaxFaults
      /\ faults' = faults + 1 /\ child.life = "up"
  BY DEF Die
<1>2. child'.no = child.no /\ child'.life = "dead"
  BY <1>1 DEF Types, TypeOK
<1>3. Types'
  <2>1. faults' \in 0 .. MaxFaults
    BY <1>1, ApprovalsAssumption DEF Types, TypeOK
  <2>2. child' \in [no : 1 .. MaxChildren, life : {"up", "dead", "lost", "none"},
                    lost : BOOLEAN]
    BY <1>1 DEF Types, TypeOK
  <2>. QED  BY <1>1, <2>1, <2>2 DEF Types, TypeOK
<1>4. CallsAreOfAsks' /\ AnsweredOnce' /\ AsksAreKnown'
  BY <1>1, <1>2 DEF CallsAreOfAsks, Deciding, AnsweredOnce, AsksAreKnown
<1>5. ClaimsAreExclusive'
  BY <1>1, <1>2 DEF ClaimsAreExclusive, Claimed
<1>6. DenialsAreNoted'
  BY <1>1, <1>2 DEF DenialsAreNoted, AnswerOf
<1>7. EndedCardsAreFinal'
  BY <1>1 DEF EndedCardsAreFinal, Final, Verdict, AnswerOf, NothingOf
<1>8. WaitingAsksAreDecidable'
  <2>1. \A q \in Requests : ~Waiting(q)'
    BY <1>2 DEF Waiting
  <2>2. \A p \in Presses : calls[p].pc = "done" => calls[p].of \in Requests
    BY DEF CallsAreOfAsks
  <2>. QED  BY <1>1, <2>1, <2>2 DEF WaitingAsksAreDecidable
<1>. QED  BY <1>3, <1>4, <1>5, <1>6, <1>7, <1>8

\* The end of the stream denies the cards of its sites: those of ended calls count as
\* rewritten, and the others' asks wait no more.
LEMMA EndOfStreamKeeps == ASSUME IInv, EndOfStream PROVE IInv'
<1>. USE DEF IInv
<1>1. /\ UNCHANGED <<kind, asks, denied, parking, calls, pressed, window, faults, orphans,
                     early>>
      /\ child' = [child EXCEPT !.life = "lost", !.lost = TRUE]
      /\ child.life = "dead" /\ rewritten \subseteq rewritten'
  BY DEF EndOfStream, Abandon, SaysLost
<1>2. child'.no = child.no /\ child'.life = "lost"
  BY <1>1 DEF Types, TypeOK
<1>3. /\ table' \subseteq table /\ shelf' \subseteq shelf /\ sites' \subseteq sites
      /\ rewritten' \subseteq Requests
      /\ \E new \in SUBSET Events : /\ GrewBy(new)
              /\ \A e \in new : \/ e.of = NoRequest
                                \/ /\ e.of \in sites
                                   /\ over[e.of] = "ran" => e.of \in rewritten'
  <2>. USE DEF Types, TypeOK
  <2>1. CASE Abandon
    <3>. DEFINE cards == {Card(r, "denied") : r \in sites \cap Kept}
    <3>1. IsFiniteSet(sites \cap Kept)
      BY FS_Subset, sites \cap Kept \subseteq sites
    <3>2. IsFiniteSet(cards)
      <4>1. \A state : IsFiniteSet({Card(r, state) : r \in sites \cap Kept})
        BY <3>1, CardsAreFinite
      <4>. QED  BY <4>1, Zenon
    <3>3. SetToSeq(cards) \in Seq(cards)
      BY <3>2, SetToSeqRanges
    <3>4. cards \cup {Lost} \in SUBSET Events
      <4>1. cards \subseteq Events
        BY CardsAreEvents
      <4>2. Lost \in Events
        BY DEF Lost, Events
      <4>. QED  BY <4>1, <4>2
    <3>5. SetToSeq(cards) \o <<Lost>> \in Seq(cards \cup {Lost})
      <4>1. SetToSeq(cards) \in Seq(cards \cup {Lost})
        <5>. HIDE DEF cards
        <5>. QED  BY <3>3
      <4>2. <<Lost>> \in Seq(cards \cup {Lost})
        <5>. HIDE DEF cards
        <5>. QED  OBVIOUS
      <4>. HIDE DEF cards
      <4>. QED  BY <4>1, <4>2
    <3>6. wire' = wire \o (SetToSeq(cards) \o <<Lost>>)
      <4>1. wire' = wire \o SetToSeq(cards) \o <<Lost>>
        BY <2>1 DEF Abandon
      <4>2. SetToSeq(cards) \in Seq(Events) /\ <<Lost>> \in Seq(Events) /\ wire \in Seq(Events)
        <5>1. cards \subseteq Events /\ Lost \in Events
          BY <3>4
        <5>. HIDE DEF cards
        <5>. QED  BY <3>3, <5>1
      <4>. HIDE DEF cards
      <4>. QED  BY <4>1, <4>2
    <3>7. GrewBy(cards \cup {Lost})
      BY <3>4, <3>5, <3>6, GrowsBySequence
    <3>8. /\ table' = {} /\ shelf' = shelf \ sites /\ sites' = {}
          /\ rewritten' = rewritten \cup {r \in sites : over[r] = "ran"}
      BY <2>1 DEF Abandon
    <3>9. \A e \in cards \cup {Lost} :
            e.of = NoRequest \/ (e.of \in sites /\ (over[e.of] = "ran" => e.of \in rewritten'))
      BY <3>8 DEF Card, Lost
    <3>. HIDE DEF cards
    <3>. QED  BY <3>4, <3>7, <3>8, <3>9
  <2>2. CASE SaysLost
    <3>1. Lost \in Events /\ Lost.of = NoRequest
      BY DEF Lost, Events
    <3>2. GrewBy({Lost}) /\ {Lost} \in SUBSET Events
      BY <2>2, <3>1, GrowsByAppend DEF SaysLost
    <3>3. UNCHANGED <<table, shelf, sites, rewritten>>
      BY <2>2 DEF SaysLost
    <3>4. \A e \in {Lost} : e.of = NoRequest
      BY <3>1
    <3>. QED  BY <3>2, <3>3, <3>4
  <2>. QED  BY <2>1, <2>2 DEF EndOfStream
<1>4. PICK new \in SUBSET Events :
        /\ GrewBy(new)
        /\ \A e \in new : \/ e.of = NoRequest
                          \/ e.of \in sites /\ (over[e.of] = "ran" => e.of \in rewritten')
  BY <1>3
<1>5. Types'
  <2>1. IsFiniteSet(sites')
    BY <1>3, FS_Subset DEF Types
  <2>2. TypeOK'
    BY <1>1, <1>3 DEF Types, TypeOK
  <2>. QED  BY <1>1, <1>3, <1>4, <2>1, <2>2 DEF Types, GrewBy
<1>6. CallsAreOfAsks' /\ AnsweredOnce'
  BY <1>1 DEF CallsAreOfAsks, Deciding, AnsweredOnce
<1>7. AsksAreKnown'
  <2>1. \A i \in DOMAIN wire' : wire'[i].of \in Requests => asker[wire'[i].of] # 0
    BY <1>4, ApprovalsAssumption DEF AsksAreKnown, GrewBy
  <2>. QED  BY <1>1, <1>2, <1>3, <2>1 DEF AsksAreKnown
<1>8. ClaimsAreExclusive'
  BY <1>1, <1>2, <1>3 DEF ClaimsAreExclusive, Claimed
<1>9. DenialsAreNoted'
  BY <1>1, <1>2 DEF DenialsAreNoted, AnswerOf
<1>10. EndedCardsAreFinal'
  <2>. SUFFICES ASSUME NEW q \in Requests, over[q] = "ran", q \notin rewritten'
       PROVE  Final(q, Verdict(q))'
    BY <1>1 DEF EndedCardsAreFinal
  <2>1. Final(q, Verdict(q)) /\ \A e \in new : e.of # q
    BY <1>1, <1>4, ApprovalsAssumption DEF EndedCardsAreFinal
  <2>2. PICK v : v = Verdict(q)
    OBVIOUS
  <2>3. Final(q, v)'
    BY <1>1, <1>4, <2>1, <2>2, FinalStays DEF Types
  <2>. QED  BY <1>1, <2>2, <2>3 DEF Verdict, AnswerOf
<1>11. WaitingAsksAreDecidable'
  <2>1. \A q \in Requests : ~Waiting(q)'
    BY <1>2 DEF Waiting
  <2>2. \A p \in Presses : calls[p].pc = "done" => calls[p].of \in Requests
    BY DEF CallsAreOfAsks
  <2>. QED  BY <1>1, <2>1, <2>2 DEF WaitingAsksAreDecidable
<1>. QED  BY <1>5, <1>6, <1>7, <1>8, <1>9, <1>10, <1>11

-----------------------------------------------------------------------------
(* The decisions *)

\* A look finds the ask queued, or calls it unknown: then nobody waits on it, or it
\* is the one being parked.
LEMMA LookKeeps == ASSUME IInv, NEW p \in Presses, Look(p) PROVE IInv'
<1>. DEFINE r == calls[p].of
            c == calls'[p]
<1>. USE DEF IInv
<1>1. /\ UNCHANGED <<kind, child, asks, adapter, pressed, wire, window, faults, orphans,
                     rewritten>>
      /\ calls[p].pc = "sent" /\ Unlocked
      /\ early' = IF r = parking THEN early \cup {r} ELSE early
  BY DEF Look
<1>2. /\ r \in Requests /\ asker[r] # 0 /\ calls[p] \in CallRecords
      /\ r # NoRequest /\ calls[p].choice \in {"allow", "deny"}
  BY <1>1, ApprovalsAssumption DEF CallsAreOfAsks, Types
<1>3. /\ calls' = [calls EXCEPT ![p] = c] /\ c \in CallRecords
      /\ c.of = r /\ c.choice = calls[p].choice
      /\ \/ c.pc = "done" /\ c.result = "refused"
         \/ c.pc = "done" /\ c.result = "unknown" /\ r \notin table
         \/ c.pc = "found" /\ r \in table
  <2>. DEFINE gone == kind = "codex" /\ child.life = "none"
  <2>1. \/ Answers(p, "refused")
        \/ Answers(p, "unknown") /\ r \notin table
        \/ Moves(p, "found") /\ r \in table
    BY DEF Look
  <2>. QED  BY <1>2, <2>1 DEF Answers, Moves, Types, CallRecords
<1>. HIDE DEF r, c
<1>4. \A q \in Presses : q # p => calls'[q] = calls[q]
  BY <1>3 DEF Types
<1>5. Types'
  <2>1. early' \subseteq Requests
    BY <1>1, <1>2 DEF Types
  <2>. QED  BY <1>1, <1>3, <2>1 DEF Types, TypeOK
<1>6. \A q \in Presses : ~Deciding(q)
  BY <1>1 DEF Unlocked
<1>7. CallsAreOfAsks'
  <2>1. \A q \in Presses : q # p => ~Deciding(q)'
    BY <1>4, <1>6 DEF Deciding
  <2>2. ~(p > pressed)
    BY <1>1 DEF CallsAreOfAsks
  <2>3. \A q \in Presses :
          /\ calls'[q].pc \notin {"none", "over"} =>
               /\ calls'[q].of \in Requests /\ asker[calls'[q].of] # 0
               /\ calls'[q].choice \in {"allow", "deny"}
          /\ q > pressed => calls'[q].pc = "none"
    BY <1>2, <1>3, <1>4, <2>2 DEF CallsAreOfAsks, c
  <2>4. \A q, o \in Presses : Deciding(q)' /\ Deciding(o)' => q = o
    BY <2>1
  <2>. QED  BY <1>1, <2>3, <2>4 DEF CallsAreOfAsks
<1>8. AsksAreKnown' /\ AnsweredOnce' /\ EndedCardsAreFinal'
  BY <1>1 DEF AsksAreKnown, AnsweredOnce, EndedCardsAreFinal, Final, NothingOf, Verdict,
     AnswerOf
<1>9. \A q \in Presses : ~Claimed(q) /\ ~Claimed(q)'
  BY <1>3, <1>4, <1>6 DEF Claimed, Deciding, c
<1>10. ClaimsAreExclusive'
  <2>1. c.pc = "found" => r # parking
    BY <1>2, <1>3 DEF ClaimsAreExclusive
  <2>2. \A q \in Presses : calls'[q].pc # "unsent"
    BY <1>9 DEF Claimed
  <2>. QED  BY <1>1, <1>3, <1>4, <1>9, <2>1, <2>2 DEF ClaimsAreExclusive, c
<1>11. DenialsAreNoted'
  BY <1>1, <1>9 DEF DenialsAreNoted, Claimed, AnswerOf, Open
<1>12. WaitingAsksAreDecidable'
  <2>1. \A q \in Requests : Waiting(q)' <=> Waiting(q)
    BY <1>1 DEF Waiting, Open
  <2>2. \A q \in Requests : Drawn(q) => Drawn(q)'
    BY <1>1 DEF Drawn
  <2>3. \A q \in Requests : Waiting(q) => q \in table \/ q = parking
    BY <1>9 DEF WaitingAsksAreDecidable, Claimed
  <2>4. early \subseteq early'
    BY <1>1
  <2>5. c.pc = "done" /\ c.result = "unknown" => c.of \in early' \/ ~Waiting(c.of)
    BY <1>1, <1>2, <1>3, <2>3
  <2>6. \A q \in Presses : calls[q].pc = "done" => calls[q].of \in Requests
    BY DEF CallsAreOfAsks
  <2>7. \A q \in Requests : Waiting(q)' => q \in early' \/ Drawn(q)'
    BY <2>1, <2>2, <2>4 DEF WaitingAsksAreDecidable
  <2>8. \A q \in Presses : calls'[q].pc = "done" /\ calls'[q].result = "unknown" =>
          calls'[q].of \in early' \/ ~Waiting(calls'[q].of)
    BY <1>4, <2>4, <2>5 DEF WaitingAsksAreDecidable, c
  <2>9. \A q \in Presses : calls'[q].pc = "done" => calls'[q].of \in Requests
    BY <1>2, <1>3, <1>4, <2>6 DEF c
  <2>. QED  BY <1>1, <2>1, <2>3, <2>7, <2>8, <2>9 DEF WaitingAsksAreDecidable
<1>. QED  BY <1>5, <1>7, <1>8, <1>10, <1>11, <1>12

\* The claim takes the ask off the queue, and what leaving it records is the note.
LEMMA ClaimKeeps == ASSUME IInv, NEW p \in Presses, Claim(p) PROVE IInv'
<1>. DEFINE r == calls[p].of
            c == calls'[p]
<1>. USE DEF IInv
<1>1. /\ UNCHANGED <<kind, child, asks, sites, parking, pressed, wire, window, faults, story>>
      /\ calls[p].pc = "found"
  BY DEF Claim
<1>2. /\ r \in Requests /\ asker[r] # 0 /\ r # parking
      /\ calls[p] \in CallRecords /\ calls[p].choice \in {"allow", "deny"}
  BY <1>1 DEF CallsAreOfAsks, ClaimsAreExclusive, Types
<1>3. /\ calls' = [calls EXCEPT ![p] = c] /\ c \in CallRecords
      /\ c.of = r /\ c.choice = calls[p].choice
      /\ \/ /\ c.pc = "done" /\ c.result = "unknown" /\ r \notin table
            /\ UNCHANGED <<table, shelf, denied>>
         \/ /\ c.pc = "done" /\ c.result = "refused"
            /\ UNCHANGED <<table, shelf, denied>>
         \/ /\ c.pc = "claimed" /\ r \in table /\ table' = table \ {r}
            /\ shelf' = (IF kind = "claude" THEN shelf \cup {r} ELSE shelf)
            /\ denied' = (IF kind = "claude" /\ c.choice = "deny" THEN denied \cup {r} ELSE denied)
  <2>1. \/ Answers(p, "unknown") /\ r \notin table /\ UNCHANGED <<table, shelf, denied>>
        \/ Answers(p, "refused") /\ UNCHANGED <<table, shelf, denied>>
        \/ Moves(p, "claimed") /\ r \in table /\ OffQueue(r) /\ Shelved(r, calls[p].choice)
    BY DEF Claim
  <2>. QED  BY <1>2, <2>1 DEF Answers, Moves, OffQueue, Shelved, Types, CallRecords
<1>. HIDE DEF r, c
<1>4. \A q \in Presses : q # p => calls'[q] = calls[q] /\ ~Deciding(q)
  BY <1>1, <1>3 DEF Types, CallsAreOfAsks, Deciding
<1>5. /\ table' \subseteq table /\ table \subseteq table' \cup {r} /\ shelf \subseteq shelf'
      /\ shelf' \subseteq shelf \cup {r} /\ denied \subseteq denied'
      /\ denied' \subseteq denied \cup {r}
  BY <1>3
<1>6. Types'
  <2>1. TypeOK'
    BY <1>1, <1>2, <1>5 DEF Types, TypeOK
  <2>. QED  BY <1>1, <1>3, <2>1 DEF Types
<1>7. CallsAreOfAsks'
  <2>1. \A q \in Presses : q # p => ~Deciding(q)'
    BY <1>4 DEF Deciding
  <2>2. ~(p > pressed)
    BY <1>1 DEF CallsAreOfAsks
  <2>3. \A q \in Presses :
          /\ calls'[q].pc \notin {"none", "over"} =>
               /\ calls'[q].of \in Requests /\ asker[calls'[q].of] # 0
               /\ calls'[q].choice \in {"allow", "deny"}
          /\ q > pressed => calls'[q].pc = "none"
    BY <1>2, <1>3, <1>4, <2>2 DEF CallsAreOfAsks, c
  <2>4. \A q, o \in Presses : Deciding(q)' /\ Deciding(o)' => q = o
    BY <2>1
  <2>. QED  BY <1>1, <2>3, <2>4 DEF CallsAreOfAsks
<1>8. AsksAreKnown'
  BY <1>1, <1>2, <1>5 DEF AsksAreKnown
<1>9. AnsweredOnce' /\ EndedCardsAreFinal'
  BY <1>1 DEF AnsweredOnce, EndedCardsAreFinal, Final, NothingOf, Verdict, AnswerOf
<1>10. \A q \in Presses : q # p => ~Claimed(q) /\ ~Claimed(q)'
  BY <1>4 DEF Claimed, Deciding
<1>11. Claimed(p)' => r \notin table' /\ told[r] = <<>> /\ c.pc = "claimed"
  BY <1>2, <1>3 DEF Claimed, ClaimsAreExclusive, c
<1>12. ClaimsAreExclusive'
  <2>1. \A q \in Presses : calls'[q].pc # "unsent"
    BY <1>3, <1>10 DEF Claimed, c
  <2>2. \A q \in Presses : calls'[q].pc = "found" => calls[q].pc = "found" /\ q # p
    BY <1>3, <1>4 DEF c
  <2>3. \A q \in Presses : Claimed(q)' => q = p /\ calls'[q].of = r
    BY <1>3, <1>10 DEF c
  <2>. QED  BY <1>1, <1>2, <1>4, <1>5, <1>11, <2>1, <2>2, <2>3 DEF ClaimsAreExclusive
<1>13. DenialsAreNoted'
  <2>. SUFFICES ASSUME kind = "claude" PROVE DenialsAreNoted'
    BY <1>1 DEF DenialsAreNoted
  <2>1. \A q \in Presses : calls'[q].pc = "claimed" =>
          q = p /\ calls'[q].of = r /\ r \in shelf' /\ (c.choice = "deny" => r \in denied')
    BY <1>3, <1>10 DEF Claimed, c
  <2>2. \A q \in Presses : calls[q].pc # "claimed"
    BY <1>1, <1>10 DEF Claimed
  <2>3. \A q \in Requests : child.life = "up" /\ asker[q] = child.no /\ q \in denied =>
          told[q] # <<>> /\ AnswerOf(q) = "deny"
    BY <2>2 DEF DenialsAreNoted
  <2>4. r \in denied' \ denied => c.pc = "claimed" /\ c.choice = "deny"
    BY <1>3
  <2>5. \A q \in Requests : child.life = "up" /\ asker[q] = child.no /\ q \in denied' =>
          \/ told[q] # <<>> /\ AnswerOf(q) = "deny"
          \/ \E o \in Presses : /\ calls'[o].pc = "claimed" /\ calls'[o].of = q
                                /\ calls'[o].choice = "deny"
    BY <1>3, <1>5, <2>3, <2>4 DEF c
  <2>6. \A q \in Requests : AnswerOf(q)' = AnswerOf(q)
    BY <1>1 DEF AnswerOf
  <2>. QED  BY <1>1, <1>5, <2>1, <2>5, <2>6 DEF DenialsAreNoted, Open, c
<1>14. WaitingAsksAreDecidable'
  <2>1. \A q \in Requests : Waiting(q)' <=> Waiting(q)
    BY <1>1 DEF Waiting, Open
  <2>2. \A q \in Requests : Drawn(q)' <=> Drawn(q)
    BY <1>1 DEF Drawn
  <2>3. \A q \in Requests : Waiting(q) => q \in table \/ q = parking
    BY <1>1, <1>10 DEF WaitingAsksAreDecidable, Claimed
  <2>4. r \in table' \/ c.pc = "claimed" \/ r \notin table
    BY <1>3
  <2>5. \A q \in Presses : calls'[q].pc = "done" => calls'[q].of \in Requests
    BY <1>2, <1>3, <1>4 DEF CallsAreOfAsks, c
  <2>6. \A q \in Presses : calls'[q].pc = "done" /\ calls'[q].result = "unknown" =>
          calls'[q].of \in early' \/ ~Waiting(calls'[q].of)
    BY <1>1, <1>2, <1>3, <1>4, <2>3 DEF WaitingAsksAreDecidable, c
  <2>7. \A q \in Requests : Waiting(q) =>
          \/ q \in table' \/ q = parking
          \/ \E o \in Presses : calls'[o].pc = "claimed" /\ calls'[o].of = q
    BY <1>3, <1>5, <2>3, <2>4 DEF c
  <2>. QED  BY <1>1, <2>1, <2>2, <2>5, <2>6, <2>7 DEF WaitingAsksAreDecidable
<1>. QED  BY <1>6, <1>7, <1>8, <1>9, <1>12, <1>13, <1>14

\* The claimed answer is the ask's first, for no other press holds a claim.
LEMMA DeliverKeeps ==
    ASSUME IInv, NEW p \in Presses, Deliver(p), NEW r, r = calls[p].of
    PROVE  IInv'
<1>. DEFINE c == calls'[p]
            line == [to |-> child.no, choice |-> calls[p].choice]
<1>. USE DEF IInv
<1>1. /\ UNCHANGED <<kind, child, asker, over, adapter, pressed, wire, window, faults, story>>
      /\ calls[p].pc = "claimed"
  BY DEF Deliver
<1>2. /\ r \in Requests /\ asker[r] # 0 /\ r # parking /\ told[r] = <<>>
      /\ r \notin table /\ calls[p] \in CallRecords /\ calls[p].choice \in {"allow", "deny"}
  BY <1>1 DEF CallsAreOfAsks, ClaimsAreExclusive, Claimed, Types
<1>3. line \in Tellings
  BY <1>2 DEF Tellings, Types, TypeOK
<1>4. /\ calls' = [calls EXCEPT ![p] = c] /\ c \in CallRecords
      /\ c.of = r /\ c.choice = calls[p].choice
      /\ \/ /\ c.pc = "done" /\ c.result = "ok" /\ child.life = "up"
            /\ told' = [told EXCEPT ![r] = <<line>>]
         \/ c.pc = "done" /\ c.result = "refused" /\ UNCHANGED told /\ child.life # "up"
         \/ /\ c.pc = "unsent" /\ kind = "claude" /\ UNCHANGED told /\ child.life # "up"
  <2>1. \/ /\ Answers(p, "ok") /\ child.life = "up"
           /\ told' = [told EXCEPT ![r] = Append(@, line)]
        \/ Answers(p, "refused") /\ UNCHANGED told /\ child.life # "up"
        \/ Moves(p, "unsent") /\ UNCHANGED told /\ child.life # "up" /\ kind = "claude"
    BY DEF Deliver
  <2>2. Append(told[r], line) = <<line>>
    BY <1>2
  <2>3. told' = [told EXCEPT ![r] = Append(@, line)] => told' = [told EXCEPT ![r] = <<line>>]
    BY <1>2, <2>2 DEF Types
  <2>. HIDE DEF line
  <2>. QED  BY <1>2, <2>1, <2>3 DEF Answers, Moves, Types, CallRecords
<1>5. /\ \A q \in Requests : q # r => told'[q] = told[q]
      /\ \/ told'[r] = told[r] /\ child.life # "up"
         \/ told'[r] = <<line>> /\ child.life = "up" /\ c.pc = "done"
      /\ told' \in [Requests -> Seq(Tellings)]
  <2>1. <<line>> \in Seq(Tellings)
    BY <1>3
  <2>. HIDE DEF line, c
  <2>2. told \in [Requests -> Seq(Tellings)]
    BY DEF Types
  <2>3. CASE told' = [told EXCEPT ![r] = <<line>>] /\ c.pc = "done" /\ child.life = "up"
    BY <1>2, <2>1, <2>2, <2>3
  <2>4. CASE UNCHANGED told /\ child.life # "up"
    BY <2>2, <2>4
  <2>. QED  BY <1>4, <2>3, <2>4
<1>6. /\ told'[r] # <<>> <=> child.life = "up"
      /\ child.life = "up" =>
           /\ Len(told'[r]) = 1 /\ told'[r][1].to = child.no
           /\ told'[r][1].choice = calls[p].choice
  <2>1. Len(<<line>>) = 1 /\ <<line>> # <<>> /\ <<line>>[1] = line
    OBVIOUS
  <2>2. line.to = child.no /\ line.choice = calls[p].choice
    OBVIOUS
  <2>. HIDE DEF line
  <2>. QED  BY <1>2, <1>5, <2>1, <2>2
<1>. HIDE DEF c, line
<1>7. \A q \in Presses : q # p => calls'[q] = calls[q] /\ ~Deciding(q)
  BY <1>1, <1>4 DEF Types, CallsAreOfAsks, Deciding
<1>8. Types'
  <2>1. TypeOK'
    BY <1>1 DEF Types, TypeOK
  <2>. QED  BY <1>1, <1>4, <1>5, <2>1 DEF Types
<1>9. CallsAreOfAsks'
  <2>1. \A q \in Presses : q # p => ~Deciding(q)'
    BY <1>7 DEF Deciding
  <2>2. ~(p > pressed)
    BY <1>1 DEF CallsAreOfAsks
  <2>3. \A q \in Presses :
          /\ calls'[q].pc \notin {"none", "over"} =>
               /\ calls'[q].of \in Requests /\ asker[calls'[q].of] # 0
               /\ calls'[q].choice \in {"allow", "deny"}
          /\ q > pressed => calls'[q].pc = "none"
    BY <1>2, <1>4, <1>7, <2>2 DEF CallsAreOfAsks, c
  <2>4. \A q, o \in Presses : Deciding(q)' /\ Deciding(o)' => q = o
    BY <2>1
  <2>. QED  BY <1>1, <2>3, <2>4 DEF CallsAreOfAsks
<1>10. AsksAreKnown'
  BY <1>1, <1>2, <1>5 DEF AsksAreKnown
<1>11. AnsweredOnce'
  <2>1. CASE child.life = "up"
    <3>1. Len(told'[r]) = 1
      BY <1>6, <2>1
    <3>2. Len(told'[r]) <= 1
      BY <3>1
    <3>. QED  BY <1>5, <3>2 DEF AnsweredOnce
  <2>2. CASE child.life # "up"
    BY <1>2, <1>5, <2>2 DEF AnsweredOnce
  <2>. QED  BY <2>1, <2>2
<1>12. over[r] # "ran"
  BY <1>2 DEF EndedCardsAreFinal
<1>13. EndedCardsAreFinal'
  <2>. SUFFICES ASSUME NEW q \in Requests, over[q] = "ran"
       PROVE  told'[q] # <<>> /\ (q \notin rewritten => Final(q, Verdict(q))')
    BY <1>1 DEF EndedCardsAreFinal
  <2>1. told'[q] = told[q]
    BY <1>5, <1>12
  <2>. QED  BY <1>1, <2>1 DEF EndedCardsAreFinal, Final, NothingOf, Verdict, AnswerOf
<1>14. \A q \in Presses : q # p => ~Claimed(q) /\ ~Claimed(q)'
  BY <1>7 DEF Claimed, Deciding
<1>15. ClaimsAreExclusive'
  <2>1. \A q \in Presses : calls'[q].pc = "unsent" => kind = "claude" /\ child.life # "up"
    BY <1>4, <1>14 DEF Claimed, c
  <2>2. \A q \in Presses : calls'[q].pc = "found" => calls[q].pc = "found" /\ q # p
    BY <1>4, <1>7 DEF c
  <2>3. \A q \in Presses : Claimed(q)' =>
          q = p /\ calls'[q].of = r /\ told'[r] = <<>>
    BY <1>2, <1>4, <1>5, <1>14 DEF Claimed, c
  <2>4. \A q \in Requests : told'[q] # <<>> => told[q] # <<>> \/ q = r
    BY <1>5
  <2>. QED  BY <1>1, <1>2, <1>7, <2>1, <2>2, <2>3, <2>4 DEF ClaimsAreExclusive
<1>16. DenialsAreNoted'
  <2>. SUFFICES ASSUME kind = "claude" PROVE DenialsAreNoted'
    BY <1>1 DEF DenialsAreNoted
  <2>1. \A q \in Presses : calls'[q].pc # "claimed"
    BY <1>4, <1>14 DEF Claimed, c
  <2>2. /\ calls[p].choice = "deny" => r \in denied
        /\ child.life = "up" => r \in shelf
        /\ child.life = "up" /\ asker[r] = child.no /\ r \in denied => calls[p].choice = "deny"
    <3>1. \A q \in Presses : calls[q].pc = "claimed" => q = p
      BY <1>14 DEF Claimed
    <3>. QED  BY <1>1, <1>2, <3>1 DEF DenialsAreNoted
  <2>3. \A q \in Requests : q # r => (AnswerOf(q)' = AnswerOf(q))
    BY <1>5 DEF AnswerOf
  <2>4. told'[r] # <<>> =>
          /\ AnswerOf(r)' = calls[p].choice
          /\ AnswerOf(r)' = "deny" => r \in denied
          /\ child.life = "up" => r \in shelf
    BY <1>2, <1>5, <1>6, <2>2 DEF AnswerOf
  <2>5. \A q \in Requests : told'[q] # <<>> =>
          /\ AnswerOf(q)' = "deny" => q \in denied
          /\ child.life = "up" /\ Open(q) /\ told'[q][1].to = child.no => q \in shelf
    BY <1>5, <2>3, <2>4 DEF DenialsAreNoted
  <2>6. \A q \in Requests : child.life = "up" /\ asker[q] = child.no /\ q \in denied =>
          told'[q] # <<>> /\ AnswerOf(q)' = "deny"
    <3>1. \A q \in Requests : child.life = "up" /\ asker[q] = child.no /\ q \in denied /\ q # r
            => told[q] # <<>> /\ AnswerOf(q) = "deny"
      BY <1>14 DEF DenialsAreNoted, Claimed
    <3>. QED  BY <1>5, <1>6, <2>2, <2>3, <2>4, <3>1
  <2>. QED  BY <1>1, <2>1, <2>5, <2>6 DEF DenialsAreNoted, Open
<1>17. WaitingAsksAreDecidable'
  <2>1. \A q \in Requests : Waiting(q)' => Waiting(q) /\ q # r
    BY <1>1, <1>2, <1>4, <1>5, <1>6 DEF Waiting, Open, Types
  <2>2. \A q \in Requests : Drawn(q)' <=> Drawn(q)
    BY <1>1 DEF Drawn
  <2>3. \A q \in Requests : Waiting(q) /\ q # r => q \in table \/ q = parking
    BY <1>1, <1>14 DEF WaitingAsksAreDecidable, Claimed
  <2>4. \A q \in Presses : calls'[q].pc = "done" => calls'[q].of \in Requests
    BY <1>2, <1>4, <1>7 DEF CallsAreOfAsks, c
  <2>5. \A q \in Presses : calls'[q].pc = "done" /\ calls'[q].result = "unknown" =>
          calls'[q].of \in early \/ ~Waiting(calls'[q].of)
    BY <1>4, <1>7 DEF WaitingAsksAreDecidable, c
  <2>. QED  BY <1>1, <2>1, <2>2, <2>3, <2>4, <2>5 DEF WaitingAsksAreDecidable
<1>. QED  BY <1>8, <1>9, <1>10, <1>11, <1>13, <1>15, <1>16, <1>17

\* An answer that could not be sent goes back to the queue it left.
LEMMA RequeueKeeps ==
    ASSUME IInv, NEW p \in Presses, Requeue(p), NEW r, r = calls[p].of
    PROVE  IInv'
<1>. DEFINE c == calls'[p]
<1>. USE DEF IInv
<1>1. /\ UNCHANGED <<kind, child, asks, sites, denied, parking, pressed, wire, window, faults,
                     story>>
      /\ calls[p].pc = "unsent" /\ table' = table \cup {r} /\ shelf' = shelf \ {r}
      /\ Answers(p, "refused")
  BY DEF Requeue
<1>2. /\ r \in Requests /\ asker[r] # 0 /\ r # parking /\ told[r] = <<>>
      /\ calls[p] \in CallRecords /\ calls[p].choice \in {"allow", "deny"}
      /\ child.life # "up" /\ kind = "claude"
  BY <1>1 DEF CallsAreOfAsks, ClaimsAreExclusive, Claimed, Types
<1>3. /\ calls' = [calls EXCEPT ![p] = c] /\ c \in CallRecords
      /\ c.of = r /\ c.choice = calls[p].choice /\ c.pc = "done" /\ c.result = "refused"
  BY <1>1, <1>2 DEF Answers, Types, CallRecords
<1>. HIDE DEF c
<1>4. \A q \in Presses : q # p => calls'[q] = calls[q] /\ ~Deciding(q)
  BY <1>1, <1>3 DEF Types, CallsAreOfAsks, Deciding
<1>5. \A q \in Presses : ~Deciding(q)' /\ ~Claimed(q)'
  BY <1>3, <1>4 DEF Deciding, Claimed, c
<1>6. Types'
  <2>1. TypeOK'
    BY <1>1, <1>2 DEF Types, TypeOK
  <2>. QED  BY <1>1, <1>3, <2>1 DEF Types
<1>7. CallsAreOfAsks'
  <2>1. ~(p > pressed)
    BY <1>1 DEF CallsAreOfAsks
  <2>2. \A q \in Presses :
          /\ calls'[q].pc \notin {"none", "over"} =>
               /\ calls'[q].of \in Requests /\ asker[calls'[q].of] # 0
               /\ calls'[q].choice \in {"allow", "deny"}
          /\ q > pressed => calls'[q].pc = "none"
    BY <1>2, <1>3, <1>4, <2>1 DEF CallsAreOfAsks, c
  <2>. QED  BY <1>1, <1>5, <2>2 DEF CallsAreOfAsks
<1>8. AsksAreKnown'
  BY <1>1, <1>2 DEF AsksAreKnown
<1>9. AnsweredOnce' /\ EndedCardsAreFinal'
  BY <1>1 DEF AnsweredOnce, EndedCardsAreFinal, Final, NothingOf, Verdict, AnswerOf
<1>10. ClaimsAreExclusive'
  <2>1. \A q \in Presses : calls'[q].pc \notin {"found", "unsent"}
    BY <1>5 DEF Deciding
  <2>. QED  BY <1>1, <1>2, <1>5, <2>1 DEF ClaimsAreExclusive
<1>11. DenialsAreNoted'
  <2>1. \A q \in Presses : calls'[q].pc # "claimed"
    BY <1>5 DEF Deciding
  <2>. QED  BY <1>1, <1>2, <2>1 DEF DenialsAreNoted, AnswerOf
<1>12. WaitingAsksAreDecidable'
  <2>1. \A q \in Requests : ~Waiting(q)'
    BY <1>1, <1>2 DEF Waiting
  <2>2. \A q \in Presses : calls'[q].pc = "done" => calls'[q].of \in Requests
    BY <1>7 DEF CallsAreOfAsks
  <2>. QED  BY <2>1, <2>2 DEF WaitingAsksAreDecidable
<1>. QED  BY <1>6, <1>7, <1>8, <1>9, <1>10, <1>11, <1>12

\* A new child has asked nothing yet, and finds no press under way.
LEMMA ReplaceKeeps == ASSUME IInv, Replace PROVE IInv'
<1>. USE DEF IInv
<1>1. /\ UNCHANGED <<kind, asks, adapter, calls, pressed, wire, window, early, rewritten>>
      /\ Unlocked /\ child.no < MaxChildren /\ orphans' = orphans \cup Orphaned
      /\ child' = [no |-> child.no + 1, life |-> "up", lost |-> FALSE]
      /\ faults' = faults \/ (faults < MaxFaults /\ faults' = faults + 1)
  BY DEF Replace
<1>2. /\ child'.no = child.no + 1 /\ child'.life = "up" /\ child.no \in Nat
      /\ child' \in [no : 1 .. MaxChildren, life : {"up", "dead", "lost", "none"},
                     lost : BOOLEAN]
  BY <1>1, ApprovalsAssumption DEF Types, TypeOK
<1>3. \A r \in Requests : asker[r] \in Nat /\ asker[r] # child'.no /\ asker[r] <= child'.no
  BY <1>1, <1>2, ApprovalsAssumption DEF AsksAreKnown, Types, TypeOK
<1>4. Types'
  <2>1. faults' \in 0 .. MaxFaults
    BY <1>1, ApprovalsAssumption DEF Types, TypeOK
  <2>2. orphans' \subseteq Requests
    BY <1>1 DEF Orphaned, Types
  <2>. QED  BY <1>1, <1>2, <2>1, <2>2 DEF Types, TypeOK
<1>5. CallsAreOfAsks' /\ AnsweredOnce'
  BY <1>1 DEF CallsAreOfAsks, Deciding, AnsweredOnce
<1>6. AsksAreKnown'
  BY <1>1, <1>3 DEF AsksAreKnown
<1>7. \A p \in Presses : ~Deciding(p)
  BY <1>1 DEF Unlocked
<1>8. ClaimsAreExclusive'
  BY <1>1, <1>7 DEF ClaimsAreExclusive, Claimed, Deciding
<1>9. DenialsAreNoted'
  BY <1>1, <1>3, <1>7 DEF DenialsAreNoted, Deciding, AnswerOf, Open
<1>10. EndedCardsAreFinal'
  BY <1>1 DEF EndedCardsAreFinal, Final, NothingOf, Verdict, AnswerOf
<1>11. WaitingAsksAreDecidable'
  <2>1. \A q \in Requests : ~Waiting(q)'
    BY <1>1, <1>3 DEF Waiting, Open
  <2>2. \A q \in Presses : calls'[q].pc = "done" => calls'[q].of \in Requests
    BY <1>5 DEF CallsAreOfAsks
  <2>. QED  BY <2>1, <2>2 DEF WaitingAsksAreDecidable
<1>. QED  BY <1>4, <1>5, <1>6, <1>8, <1>9, <1>10, <1>11

-----------------------------------------------------------------------------
(* The window *)

\* A press is recorded in a slot of its own, of an ask that was drawn.
LEMMA PressKeeps ==
    ASSUME IInv, NEW r \in Requests, NEW choice \in {"allow", "deny"},
           PressCard(r, choice) \/ PressTap(r, choice)
    PROVE  IInv'
<1>. USE DEF IInv
<1>1. PICK p : p = pressed + 1
  OBVIOUS
<1>2. PICK via \in {"card", "tap"} : Press(r, choice, via)
  BY DEF PressCard, PressTap
<1>3. /\ UNCHANGED <<kind, child, asks, adapter, wire, card, faults, story>>
      /\ pressed < MaxPresses /\ pressed' = p
      /\ calls' = [calls EXCEPT ![p] =
                    [of |-> r, choice |-> choice, via |-> via, pc |-> "sent", result |-> "none"]]
  BY <1>1, <1>2 DEF Press
<1>4. /\ \A q \in Requests : tap'[q] = tap[q] \/ (q = r /\ tap[r] = "open")
      /\ tap' \in [Requests -> {"none", "open", "sent"}]
      /\ card[r] = "pending" \/ tap[r] = "open"
  <2>1. CASE PressCard(r, choice)
    BY <2>1 DEF PressCard, Types, TypeOK
  <2>2. CASE PressTap(r, choice)
    BY <2>2 DEF PressTap, Types, TypeOK
  <2>. QED  BY <2>1, <2>2
<1>5. asker[r] # 0
  BY <1>4 DEF AsksAreKnown
<1>6. p \in Presses /\ p \in Nat /\ p > pressed /\ pressed \in Nat /\ calls[p].pc = "none"
  <2>1. p \in Presses /\ p > pressed /\ p \in Nat /\ pressed \in Nat
    BY <1>1, <1>3, ApprovalsAssumption DEF Presses, Types, TypeOK
  <2>. QED  BY <2>1 DEF CallsAreOfAsks
<1>7. /\ calls'[p] = [of |-> r, choice |-> choice, via |-> via, pc |-> "sent", result |-> "none"]
      /\ \A q \in Presses : q # p => calls'[q] = calls[q]
  BY <1>3, <1>6 DEF Types
<1>8. Types'
  <2>1. pressed' \in 0 .. MaxPresses
    BY <1>1, <1>3, ApprovalsAssumption DEF Types, TypeOK
  <2>2. TypeOK'
    BY <1>3, <1>4, <2>1 DEF Types, TypeOK
  <2>3. [of |-> r, choice |-> choice, via |-> via, pc |-> "sent", result |-> "none"]
          \in CallRecords
    BY DEF CallRecords
  <2>. QED  BY <1>3, <2>2, <2>3 DEF Types
<1>9. \A q \in Presses : (Deciding(q)' <=> Deciding(q)) /\ (Claimed(q)' <=> Claimed(q))
  BY <1>6, <1>7 DEF Deciding, Claimed
<1>10. CallsAreOfAsks'
  <2>1. \A q \in Presses : q > p => q > pressed
    BY <1>6 DEF Presses
  <2>. QED  BY <1>3, <1>5, <1>6, <1>7, <1>9, <2>1 DEF CallsAreOfAsks
<1>11. AsksAreKnown'
  BY <1>3, <1>4, <1>5 DEF AsksAreKnown
<1>12. AnsweredOnce'
  BY <1>3 DEF AnsweredOnce
<1>13. \A q \in Presses : calls'[q].pc \notin {"none", "sent"} => q # p /\ calls'[q] = calls[q]
  BY <1>7
<1>14. ClaimsAreExclusive'
  BY <1>3, <1>9, <1>13 DEF ClaimsAreExclusive, Claimed
<1>15. DenialsAreNoted'
  <2>1. \A q \in Presses : calls[q].pc = "claimed" => calls'[q] = calls[q]
    BY <1>6, <1>7
  <2>. QED  BY <1>3, <1>13, <2>1 DEF DenialsAreNoted, AnswerOf, Open
<1>16. EndedCardsAreFinal'
  BY <1>3, <1>4 DEF EndedCardsAreFinal, Final, NothingOf, Verdict, AnswerOf
<1>17. WaitingAsksAreDecidable'
  <2>1. \A q \in Presses : calls[q].pc = "claimed" => calls'[q] = calls[q]
    BY <1>6, <1>7
  <2>2. \A q \in Requests : (Waiting(q)' <=> Waiting(q)) /\ (Drawn(q)' <=> Drawn(q))
    BY <1>3 DEF Waiting, Open, Drawn
  <2>3. \A q \in Presses : calls'[q].pc = "done" => calls'[q].of \in Requests
    BY <1>10 DEF CallsAreOfAsks
  <2>. QED  BY <1>3, <1>13, <2>1, <2>2, <2>3 DEF WaitingAsksAreDecidable
<1>. QED  BY <1>8, <1>10, <1>11, <1>12, <1>14, <1>15, <1>16, <1>17

\* The window drops a card on the adapter's word only when nobody waits on it, or it
\* was refused while parking, and never one that is settled.
LEMMA AckedKeeps ==
    ASSUME IInv, NEW p \in Presses, Acked(p), NEW r, r = calls[p].of
    PROVE  IInv'
<1>. USE DEF IInv
<1>1. /\ UNCHANGED <<kind, child, asks, adapter, pressed, wire, faults, story>>
      /\ calls[p].pc = "done" /\ calls' = [calls EXCEPT ![p] = [NoCall EXCEPT !.pc = "over"]]
  BY DEF Acked
<1>2. r \in Requests /\ asker[r] # 0
  BY <1>1 DEF CallsAreOfAsks
<1>3. /\ calls'[p].pc = "over" /\ calls'[p] \in CallRecords
      /\ calls' \in [Presses -> CallRecords]
      /\ \A q \in Presses : q # p => calls'[q] = calls[q]
  <2>1. [NoCall EXCEPT !.pc = "over"] \in CallRecords /\ [NoCall EXCEPT !.pc = "over"].pc = "over"
    BY DEF NoCall, CallRecords
  <2>. QED  BY <1>1, <2>1 DEF Types
<1>4. /\ card' \in [Requests -> {"none", "pending", "allowed", "denied"}]
      /\ tap' \in [Requests -> {"none", "open", "sent"}]
      /\ \A q \in Requests :
           /\ card'[q] = card[q] \/ (card[q] = "pending" /\ card'[q] = "denied")
           /\ card'[q] # card[q] => q = r /\ calls[p].result = "unknown"
           /\ tap[q] = "none" => tap'[q] = "none"
  <2>. USE DEF Types, TypeOK
  <2>1. CASE calls[p].result = "unknown" /\ Dropped(r)
    <3>1. /\ tap' = [tap EXCEPT ![r] = "none"]
          /\ card' = [card EXCEPT ![r] = IF card[r] = "pending" THEN "denied" ELSE card[r]]
      BY <2>1 DEF Dropped
    <3>2. card' \in [Requests -> {"none", "pending", "allowed", "denied"}]
      BY <1>2, <3>1
    <3>3. \A q \in Requests :
            /\ q # r => card'[q] = card[q] /\ tap'[q] = tap[q]
            /\ q = r => tap'[q] = "none"
      BY <1>2, <3>1
    <3>4. card'[r] = IF card[r] = "pending" THEN "denied" ELSE card[r]
      BY <1>2, <3>1
    <3>5. tap' \in [Requests -> {"none", "open", "sent"}]
      BY <1>2, <3>1
    <3>. QED  BY <2>1, <3>2, <3>3, <3>4, <3>5
  <2>2. CASE card' = card /\ tap' = [tap EXCEPT ![r] = IF @ = "none" THEN @ ELSE "open"]
    BY <1>2, <2>2
  <2>3. CASE UNCHANGED window
    BY <2>3
  <2>. QED  BY <2>1, <2>2, <2>3 DEF Acked
<1>5. Types'
  <2>1. TypeOK'
    BY <1>1, <1>4 DEF Types, TypeOK
  <2>. QED  BY <1>1, <1>3, <2>1 DEF Types
<1>6. \A q \in Presses : (Deciding(q)' <=> Deciding(q)) /\ (Claimed(q)' <=> Claimed(q))
  BY <1>1, <1>3 DEF Deciding, Claimed
<1>7. \A q \in Presses : calls'[q].pc \notin {"none", "over"} => calls'[q] = calls[q] /\ q # p
  BY <1>3
<1>8. CallsAreOfAsks'
  <2>1. ~(p > pressed)
    BY <1>1 DEF CallsAreOfAsks
  <2>. QED  BY <1>1, <1>3, <1>6, <2>1 DEF CallsAreOfAsks
<1>9. AsksAreKnown'
  <2>1. \A q \in Requests : card'[q] # "none" \/ tap'[q] # "none" =>
          card[q] # "none" \/ tap[q] # "none"
    BY <1>4
  <2>. QED  BY <1>1, <2>1 DEF AsksAreKnown
<1>10. AnsweredOnce'
  BY <1>1 DEF AnsweredOnce
<1>11. ClaimsAreExclusive'
  BY <1>1, <1>6, <1>7 DEF ClaimsAreExclusive, Claimed
<1>12. \A q \in Presses : calls[q].pc = "claimed" => calls'[q] = calls[q]
  BY <1>1, <1>3
<1>13. DenialsAreNoted'
  BY <1>1, <1>7, <1>12 DEF DenialsAreNoted, AnswerOf, Open
<1>14. EndedCardsAreFinal'
  <2>1. \A q \in Requests : Verdict(q) # "pending" /\ (Verdict(q)' = Verdict(q))
    BY <1>1 DEF Verdict, AnswerOf
  <2>2. \A q \in Requests : \A v : v # "pending" /\ Final(q, v) => Final(q, v)'
    BY <1>1, <1>4 DEF Final, NothingOf
  <2>3. ASSUME NEW q \in Requests, Final(q, Verdict(q)) PROVE Final(q, Verdict(q))'
    <3>1. PICK v : v = Verdict(q)
      OBVIOUS
    <3>2. Final(q, v)'
      BY <2>1, <2>2, <2>3, <3>1
    <3>. QED  BY <2>1, <3>1, <3>2
  <2>. QED  BY <1>1, <2>3 DEF EndedCardsAreFinal
<1>15. WaitingAsksAreDecidable'
  <2>1. \A q \in Requests : Waiting(q)' <=> Waiting(q)
    BY <1>1 DEF Waiting, Open
  <2>2. \A q \in Requests : Drawn(q) /\ card'[q] = card[q] => Drawn(q)'
    BY <1>1 DEF Drawn
  <2>3. calls[p].result = "unknown" => r \in early \/ ~Waiting(r)
    BY <1>1 DEF WaitingAsksAreDecidable
  <2>4. \A q \in Requests : Waiting(q) => q \in early \/ Drawn(q)'
    BY <1>4, <2>2, <2>3 DEF WaitingAsksAreDecidable
  <2>5. \A q \in Presses : calls'[q].pc = "done" => calls'[q].of \in Requests
    BY <1>8 DEF CallsAreOfAsks
  <2>. QED  BY <1>1, <1>7, <1>12, <2>1, <2>4, <2>5 DEF WaitingAsksAreDecidable
<1>. QED  BY <1>5, <1>8, <1>9, <1>10, <1>11, <1>13, <1>14, <1>15

\* What was true of an event on the wire becomes true of the card it draws.
LEMMA ShowsKeeps == ASSUME IInv, Shows PROVE IInv'
<1>. USE DEF IInv
<1>1. PICK e : e = wire[1]
  OBVIOUS
<1>2. /\ UNCHANGED <<kind, child, asks, adapter, calls, pressed, faults, story>>
      /\ wire # <<>> /\ wire' = Tail(wire) /\ Head(wire) = e /\ 1 \in DOMAIN wire
      /\ wire' \in Seq(Events) /\ e \in Events
      /\ \A i \in DOMAIN wire' : i + 1 \in DOMAIN wire /\ wire'[i] = wire[i + 1]
      /\ \A i \in DOMAIN wire : i # 1 => i - 1 \in DOMAIN wire' /\ wire'[i - 1] = wire[i]
  <2>1. wire \in Seq(Events)
    BY DEF Types
  <2>2. wire # <<>> /\ wire' = Tail(wire)
    BY DEF Shows
  <2>. QED  BY <1>1, <2>1, <2>2, Shifts DEF Shows
<1>3. /\ e.type \in {"card", "tap"}
      /\ card' = IF e.type = "card" THEN [card EXCEPT ![e.of] = e.state] ELSE card
      /\ tap' = IF e.type = "tap" THEN [tap EXCEPT ![e.of] = "open"]
                ELSE IF e.state # "pending" THEN [tap EXCEPT ![e.of] = "none"] ELSE tap
  BY <1>2 DEF Shows, Events
<1>4. e.of \in Requests => asker[e.of] # 0
  BY <1>1, <1>2 DEF AsksAreKnown
<1>5. /\ card' \in [Requests -> {"none", "pending", "allowed", "denied"}]
      /\ tap' \in [Requests -> {"none", "open", "sent"}]
      /\ \A q \in Requests :
           /\ q # e.of => card'[q] = card[q] /\ tap'[q] = tap[q]
           /\ q = e.of =>
                /\ card'[q] = IF e.type = "card" THEN e.state ELSE card[q]
                /\ e.type = "card" /\ e.state # "pending" => tap'[q] = "none"
  <2>1. e.state \in {"none", "pending", "allowed", "denied"}
    BY <1>2 DEF Events
  <2>2. /\ card' \in [Requests -> {"none", "pending", "allowed", "denied"}]
        /\ \A q \in Requests :
             /\ q # e.of => card'[q] = card[q]
             /\ q = e.of => card'[q] = IF e.type = "card" THEN e.state ELSE card[q]
    <3>1. CASE e.type = "card"
      BY <1>3, <2>1, <3>1 DEF Types, TypeOK
    <3>2. CASE e.type # "card"
      BY <1>3, <3>2 DEF Types, TypeOK
    <3>. QED  BY <3>1, <3>2
  <2>3. /\ tap' \in [Requests -> {"none", "open", "sent"}]
        /\ \A q \in Requests :
             /\ q # e.of => tap'[q] = tap[q]
             /\ q = e.of /\ e.type = "card" /\ e.state # "pending" => tap'[q] = "none"
    <3>1. CASE e.type = "tap"
      BY <1>3, <3>1 DEF Types, TypeOK
    <3>2. CASE e.type # "tap" /\ e.state # "pending"
      BY <1>3, <3>2 DEF Types, TypeOK
    <3>3. CASE e.type # "tap" /\ e.state = "pending"
      BY <1>3, <3>3 DEF Types, TypeOK
    <3>. QED  BY <3>1, <3>2, <3>3
  <2>. QED  BY <2>2, <2>3
<1>6. Types'
  <2>1. TypeOK'
    BY <1>2, <1>5 DEF Types, TypeOK
  <2>. QED  BY <1>2, <2>1 DEF Types
<1>7. CallsAreOfAsks' /\ AnsweredOnce' /\ ClaimsAreExclusive' /\ DenialsAreNoted'
  BY <1>2 DEF CallsAreOfAsks, AnsweredOnce, ClaimsAreExclusive, DenialsAreNoted, Deciding,
     Claimed, AnswerOf, Open
<1>8. AsksAreKnown'
  <2>1. \A q \in Requests : card'[q] # "none" \/ tap'[q] # "none" =>
          q = e.of \/ card[q] # "none" \/ tap[q] # "none"
    BY <1>5
  <2>2. \A i \in DOMAIN wire' : wire'[i].of \in Requests => asker[wire'[i].of] # 0
    BY <1>2 DEF AsksAreKnown
  <2>. QED  BY <1>2, <1>4, <2>1, <2>2 DEF AsksAreKnown
<1>9. \A q \in Requests, i \in DOMAIN wire : i # 1 /\ NothingOf(q, i) => NothingOf(q, i - 1)'
  <2>. SUFFICES ASSUME NEW q \in Requests, NEW i \in DOMAIN wire, i # 1, NothingOf(q, i),
                       NEW n, n = i - 1
       PROVE  NothingOf(q, n)'
    OBVIOUS
  <2>1. i \in Nat /\ DOMAIN wire' \subseteq Nat
    BY <1>2 DEF Types
  <2>2. \A j \in DOMAIN wire' : j > n => j + 1 \in DOMAIN wire /\ j + 1 > i
    BY <1>2, <2>1
  <2>. QED  BY <1>2, <2>2 DEF NothingOf
<1>10. \A q \in Requests : NothingOf(q, 1) \/ NothingOf(q, 0) => NothingOf(q, 0)'
  <2>1. DOMAIN wire' \subseteq Nat /\ \A j \in DOMAIN wire' : j > 0
    BY <1>2
  <2>2. \A j \in DOMAIN wire' : j + 1 > 1 /\ j + 1 > 0
    BY <2>1
  <2>. QED  BY <1>2, <2>2 DEF NothingOf
<1>11. ASSUME NEW q \in Requests, NEW v, v # "pending", Final(q, v)
       PROVE  Final(q, v)'
  <2>1. CASE NothingOf(q, 0) /\ card[q] = v /\ tap[q] = "none"
    <3>1. e.of # q
      BY <1>1, <1>2, <2>1 DEF NothingOf
    <3>. QED  BY <1>5, <1>10, <2>1, <3>1 DEF Final
  <2>2. CASE \E i \in DOMAIN wire : wire[i] = Card(q, v) /\ NothingOf(q, i)
    <3>1. PICK i \in DOMAIN wire : wire[i] = Card(q, v) /\ NothingOf(q, i)
      BY <2>2
    <3>2. CASE i = 1
      <4>1. e = Card(q, v) /\ NothingOf(q, 0)'
        BY <1>1, <1>10, <3>1, <3>2
      <4>2. e.of = q /\ e.type = "card" /\ e.state = v
        BY <4>1 DEF Card
      <4>. QED  BY <1>5, <1>11, <4>1, <4>2 DEF Final
    <3>3. CASE i # 1
      <4>1. PICK n : n = i - 1
        OBVIOUS
      <4>2. NothingOf(q, i - 1)'
        BY <1>9, <3>1, <3>3
      <4>3. NothingOf(q, n)'
        BY <4>1, <4>2 DEF NothingOf
      <4>4. n \in DOMAIN wire' /\ wire'[n] = Card(q, v)
        BY <1>2, <3>1, <3>3, <4>1
      <4>. QED  BY <4>3, <4>4 DEF Final
    <3>. QED  BY <3>2, <3>3
  <2>. QED  BY <1>11, <2>1, <2>2 DEF Final
<1>12. EndedCardsAreFinal'
  <2>1. ASSUME NEW q \in Requests, Final(q, Verdict(q)) PROVE Final(q, Verdict(q))'
    <3>1. PICK v : v = Verdict(q)
      OBVIOUS
    <3>2. v # "pending" /\ Verdict(q)' = v
      BY <1>2, <3>1 DEF Verdict, AnswerOf
    <3>3. Final(q, v)'
      BY <1>11, <2>1, <3>1, <3>2
    <3>. QED  BY <3>2, <3>3
  <2>. QED  BY <1>2, <2>1 DEF EndedCardsAreFinal
<1>13. WaitingAsksAreDecidable'
  <2>1. \A q \in Requests : Waiting(q)' <=> Waiting(q)
    BY <1>2 DEF Waiting, Open
  <2>2. ASSUME NEW q \in Requests, Drawn(q) PROVE Drawn(q)'
    <3>1. \A i \in DOMAIN wire' : wire'[i].type = "card" /\ wire'[i].of = q =>
            wire'[i].state = "pending"
      BY <1>2, <2>2 DEF Drawn
    <3>2. CASE e.of = q /\ e.type = "card"
      <4>1. e.state = "pending"
        BY <1>1, <1>2, <2>2, <3>2 DEF Drawn
      <4>. QED  BY <1>5, <3>1, <3>2, <4>1 DEF Drawn
    <3>3. CASE ~(e.of = q /\ e.type = "card")
      <4>1. card'[q] = card[q]
        BY <1>5, <3>3
      <4>2. \A i \in DOMAIN wire : wire[i] = Card(q, "pending") => i # 1
        BY <1>1, <3>3 DEF Card
      <4>3. (\E i \in DOMAIN wire : wire[i] = Card(q, "pending")) =>
              \E i \in DOMAIN wire' : wire'[i] = Card(q, "pending")
        BY <1>2, <4>2
      <4>. QED  BY <2>2, <3>1, <4>1, <4>3 DEF Drawn
    <3>. QED  BY <3>2, <3>3
  <2>3. \A p \in Presses : calls[p].pc = "done" => calls[p].of \in Requests
    BY DEF CallsAreOfAsks
  <2>. QED  BY <1>2, <2>1, <2>2, <2>3 DEF WaitingAsksAreDecidable
<1>. QED  BY <1>6, <1>7, <1>8, <1>12, <1>13

\* Hanging up forgets the taps, and no card.
LEMMA ShowsLostKeeps == ASSUME IInv, ShowsLost PROVE IInv'
<1>. USE DEF IInv
<1>1. /\ UNCHANGED <<kind, asks, adapter, calls, pressed, card, faults, early, rewritten>>
      /\ wire # <<>> /\ Head(wire).type = "lost" /\ wire' = Tail(wire)
      /\ child' = [child EXCEPT !.life = "none"]
      /\ tap' = [r \in Requests |-> "none"] /\ orphans' = orphans \cup Orphaned
  BY DEF ShowsLost
<1>2. child'.no = child.no /\ child'.life = "none"
  BY <1>1 DEF Types, TypeOK
<1>3. /\ wire' \in Seq(Events) /\ wire[1].type = "lost" /\ 1 \in DOMAIN wire
      /\ \A i \in DOMAIN wire' : i + 1 \in DOMAIN wire /\ wire'[i] = wire[i + 1]
      /\ \A i \in DOMAIN wire : i # 1 => i - 1 \in DOMAIN wire' /\ wire'[i - 1] = wire[i]
  <2>1. wire \in Seq(Events)
    BY DEF Types
  <2>. QED  BY <1>1, <2>1, Shifts
<1>4. Types'
  <2>1. child' \in [no : 1 .. MaxChildren, life : {"up", "dead", "lost", "none"},
                    lost : BOOLEAN]
    BY <1>1 DEF Types, TypeOK
  <2>2. orphans' \subseteq Requests
    BY <1>1 DEF Orphaned, Types
  <2>3. TypeOK'
    BY <1>1, <2>1 DEF Types, TypeOK
  <2>. QED  BY <1>1, <1>3, <2>2, <2>3 DEF Types
<1>5. CallsAreOfAsks' /\ AnsweredOnce'
  BY <1>1 DEF CallsAreOfAsks, AnsweredOnce, Deciding
<1>6. ClaimsAreExclusive' /\ DenialsAreNoted'
  BY <1>1, <1>2 DEF ClaimsAreExclusive, DenialsAreNoted, Claimed, AnswerOf
<1>7. AsksAreKnown'
  <2>1. \A i \in DOMAIN wire' : wire'[i].of \in Requests => asker[wire'[i].of] # 0
    BY <1>3 DEF AsksAreKnown
  <2>. QED  BY <1>1, <1>2, <2>1 DEF AsksAreKnown
<1>8. \A q \in Requests : \A v : Final(q, v) => Final(q, v)'
  <2>. SUFFICES ASSUME NEW q \in Requests, NEW v, Final(q, v) PROVE Final(q, v)'
    OBVIOUS
  <2>1. DOMAIN wire' \subseteq Nat /\ DOMAIN wire \subseteq Nat /\ \A j \in DOMAIN wire' : j > 0
    BY <1>3 DEF Types
  <2>2. CASE NothingOf(q, 0) /\ card[q] = v /\ tap[q] = "none"
    <3>1. NothingOf(q, 0)'
      <4>1. \A j \in DOMAIN wire' : j + 1 > 0
        BY <2>1
      <4>. QED  BY <1>3, <2>2, <4>1 DEF NothingOf
    <3>. QED  BY <1>1, <2>2, <3>1 DEF Final
  <2>3. CASE \E i \in DOMAIN wire : wire[i] = Card(q, v) /\ NothingOf(q, i)
    <3>1. PICK i \in DOMAIN wire : wire[i] = Card(q, v) /\ NothingOf(q, i)
      BY <2>3
    <3>2. i # 1
      BY <1>3, <3>1 DEF Card
    <3>3. PICK n : n = i - 1
      OBVIOUS
    <3>4. n \in DOMAIN wire' /\ wire'[n] = Card(q, v)
      BY <1>3, <3>1, <3>2, <3>3
    <3>5. \A j \in DOMAIN wire' : j > n => j + 1 \in DOMAIN wire /\ j + 1 > i
      BY <1>3, <2>1, <3>3
    <3>6. NothingOf(q, n)'
      BY <1>3, <3>1, <3>5 DEF NothingOf
    <3>. HIDE <3>3
    <3>. QED  BY <3>4, <3>6 DEF Final
  <2>. QED  BY <2>2, <2>3 DEF Final
<1>9. EndedCardsAreFinal'
  <2>1. ASSUME NEW q \in Requests, Final(q, Verdict(q)) PROVE Final(q, Verdict(q))'
    <3>1. PICK v : v = Verdict(q)
      OBVIOUS
    <3>2. Verdict(q)' = v
      BY <1>1, <3>1 DEF Verdict, AnswerOf
    <3>3. Final(q, v)'
      BY <1>8, <2>1, <3>1
    <3>. QED  BY <3>2, <3>3
  <2>. QED  BY <1>1, <2>1 DEF EndedCardsAreFinal
<1>10. WaitingAsksAreDecidable'
  <2>1. \A q \in Requests : ~Waiting(q)'
    BY <1>2 DEF Waiting
  <2>2. \A q \in Presses : calls[q].pc = "done" => calls[q].of \in Requests
    BY DEF CallsAreOfAsks
  <2>. QED  BY <1>1, <2>1, <2>2 DEF WaitingAsksAreDecidable
<1>. QED  BY <1>4, <1>5, <1>6, <1>7, <1>9, <1>10

-----------------------------------------------------------------------------
(* Every step, and what follows *)

\* A step that changes nothing.
LEMMA QuietStepKeeps == ASSUME IInv, UNCHANGED vars PROVE IInv'
<1>1. UNCHANGED <<kind, child, asker, told, over, table, shelf, sites, denied, parking, calls,
                  pressed, wire, card, tap, faults, orphans, early, rewritten>>
  BY DEF vars
<1>. USE <1>1 DEF IInv
<1>2. Types' /\ CallsAreOfAsks' /\ AsksAreKnown'
  BY DEF Types, TypeOK, CallsAreOfAsks, AsksAreKnown, Deciding
<1>3. ClaimsAreExclusive' /\ DenialsAreNoted' /\ AnsweredOnce'
  BY DEF ClaimsAreExclusive, DenialsAreNoted, AnsweredOnce, Claimed, AnswerOf, Open
<1>4. EndedCardsAreFinal'
  BY DEF EndedCardsAreFinal, Final, NothingOf, Verdict, AnswerOf
<1>5. WaitingAsksAreDecidable'
  BY DEF WaitingAsksAreDecidable, Waiting, Open, Drawn
<1>. QED  BY <1>2, <1>3, <1>4, <1>5

\* Every step of the lane.
LEMMA StepKeeps == ASSUME IInv, [Next]_vars PROVE IInv'
<1>1. CASE Pump
  BY <1>1, AskKeeps, FinishKeeps, ParkKeeps, CutKeeps, DieKeeps, EndOfStreamKeeps DEF Pump
<1>2. CASE Dispatch
  <2>1. \A p \in Presses : (Look(p) \/ Claim(p)) => IInv'
    BY LookKeeps, ClaimKeeps
  <2>2. ASSUME NEW p \in Presses, Deliver(p) PROVE IInv'
    <3>1. PICK r : r = calls[p].of
      OBVIOUS
    <3>. QED  BY <2>2, <3>1, DeliverKeeps
  <2>3. ASSUME NEW p \in Presses, Requeue(p) PROVE IInv'
    <3>1. PICK r : r = calls[p].of
      OBVIOUS
    <3>. QED  BY <2>3, <3>1, RequeueKeeps
  <2>4. Replace => IInv'
    BY ReplaceKeeps
  <2>. QED  BY <1>2, <2>1, <2>2, <2>3, <2>4 DEF Dispatch
<1>3. CASE Window
  <2>1. ASSUME NEW p \in Presses, Acked(p) PROVE IInv'
    <3>1. PICK r : r = calls[p].of
      OBVIOUS
    <3>. QED  BY <2>1, <3>1, AckedKeeps
  <2>. QED  BY <1>3, <2>1, PressKeeps, ShowsKeeps, ShowsLostKeeps DEF Window
<1>4. CASE UNCHANGED vars
  BY <1>4, QuietStepKeeps
<1>. QED  BY <1>1, <1>2, <1>3, <1>4 DEF Next, Finished

\* The inductive invariant holds throughout.
THEOREM Invariant == Spec => []IInv
<1>1. Init => IInv
  BY InitEstablishes
<1>2. IInv /\ [Next]_vars => IInv'
  BY StepKeeps
<1>. QED  BY <1>1, <1>2, PTL DEF Spec

\* Every variable has its type.
THEOREM TypeCorrect == Spec => []TypeOK
<1>1. IInv => TypeOK
  BY DEF IInv, Types
<1>. QED  BY <1>1, Invariant, PTL

\* A child is told once what was decided of an ask, however many presses of it are on
\* their way (take-then-send: lib.rs decide_approval, child.rs answer_result).
THEOREM AnsweredOnceAlways == Spec => []AnsweredOnce
<1>1. IInv => AnsweredOnce
  BY DEF IInv
<1>. QED  BY <1>1, Invariant, PTL

\* Once the lane is quiet the card of a call that ended says what the child was told
\* of it, and its tap is gone, but for the calls that were allowed and failed and that
\* the loss of their child, before their turn ended, redrew as denied.
THEOREM CompletedCardsAreTrueAlways == Spec => []CompletedCardsAreTrue
<1>1. IInv => CompletedCardsAreTrue
  <2>. SUFFICES ASSUME IInv, Quiet, NEW r \in Requests, over[r] = "ran", r \notin rewritten
       PROVE  card[r] = Verdict(r) /\ tap[r] = "none"
    BY DEF CompletedCardsAreTrue, Verdict
  <2>1. DOMAIN wire = {}
    BY DEF Quiet
  <2>. QED  BY <2>1 DEF IInv, EndedCardsAreFinal, Final
<1>. QED  BY <1>1, Invariant, PTL

\* Once the lane is quiet an ask the child still waits on is on the adapter's queue
\* and a pending card: no refused or lost press leaves the child waiting on nothing.
\* (A Codex ask pressed before it is parked may lose its card.)
THEOREM OpenAsksStayDecidableAlways == Spec => []OpenAsksStayDecidable
<1>1. IInv => OpenAsksStayDecidable
  <2>. SUFFICES ASSUME IInv, Quiet, NEW r \in Requests, Waiting(r)
       PROVE  r \in table /\ (card[r] = "pending" \/ r \in early)
    BY DEF OpenAsksStayDecidable, Waiting
  <2>1. DOMAIN wire = {} /\ r # parking /\ \A p \in Presses : calls[p].pc # "claimed"
    BY ApprovalsAssumption DEF Quiet
  <2>. QED  BY <2>1 DEF IInv, WaitingAsksAreDecidable, Drawn
<1>. QED  BY <1>1, Invariant, PTL

=============================================================================

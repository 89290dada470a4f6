------------------------- MODULE TerminalRunsProofs -------------------------
(***************************************************************************)
(* What TerminalRuns promises, proved for every set of calls and requests, *)
(* any number of tabs and whatever the person does: a call gets one        *)
(* answer, and a quiet run whose line was not lost its own; a quiet run's  *)
(* block earns the agent's mark; what the person starts in a calm tab      *)
(* stays the person's.                                                     *)
(*                                                                         *)
(* A run knows its block only by a count taken when it was pasted, so the  *)
(* argument is about what lies between the count and the block.  The dock  *)
(* is in order (Dock) when every watch is Sound: until its block has       *)
(* formed nothing runs in its tab and its own line is lost or still        *)
(* unread, the first one if the run is quiet; once the block has formed,   *)
(* the one at the count is a quiet run's own, unless its line was lost     *)
(* and the block another's.  A quiet line therefore has a watch            *)
(* that counts exactly the blocks before it (QuietLinesLead), its block    *)
(* has the mark or a watch that will set it (QuietBlocksAreClaimed), and   *)
(* no watch of a tab reaches back to what the person started there while   *)
(* it was calm (PersonsBlocksAreFree, CalmTabsAreUnwatched): a pass calls  *)
(* no tab calm where the watch of a lost line is left.                     *)
(*                                                                         *)
(* Dock speaks of values, not of variables: each way a tab can change is a *)
(* lemma about Dock alone (LineTyped, TabAdded, TabClosed, LinePasted,     *)
(* LineRead, LinesLost, ProgramMoves, Polled), and an action's lemma says  *)
(* which of them it is.                                                    *)
(***************************************************************************)
EXTENDS TerminalRuns, FiniteSetTheorems, SequenceTheorems, WellFoundedInduction, TLAPS

-----------------------------------------------------------------------------
(* The invariant *)

\* What a block and a tab look like, the calls a pass has executed, and the watches of both kinds.
Blocks == [by : Lines, running : BOOLEAN, author : {"human", "agent"}, calm : BOOLEAN]
Tabs == [owner : {"user", "agent"}, open : BOOLEAN, input : Seq(Lines), blocks : Seq(Blocks)]
Executed == {c \in Calls : call[c] \in {"waiting", "answered"}}
Watching == pending \cup marks

\* The types TypeOK leaves out, and those of the variables no tab depends on.
WellTyped ==
    /\ call \in [Calls -> {"unsent", "queued", "taken", "waiting", "answered"}]
    /\ asked \in [Calls -> Requests \cup {NoRequest}]
    /\ queue \in Seq(Calls) /\ batch \in Seq(Calls)
    /\ ui \in {"idle", "jobs"}
    /\ active = 0 \/ Open(active)
    /\ pending \subseteq Watches /\ marks \subseteq Watches
    /\ due \subseteq Calls /\ lost \subseteq Calls /\ reached \subseteq Lines
    /\ answer \in [Calls -> Seq(Lines)]

\* A sequence without repetition.
Once(s) == \A i, j \in DOMAIN s : s[i] = s[j] => i = j

\* A call is in the queue, or in the pass, exactly while it says so, and once. The
\* UI thread rests only with no job in hand.
JobsAreOnce ==
    /\ Once(queue) /\ Once(batch)
    /\ \A c \in Calls : call[c] = "queued" <=> \E i \in DOMAIN queue : queue[i] = c
    /\ \A c \in Calls : call[c] = "taken" <=> \E i \in DOMAIN batch : batch[i] = c
    /\ ui = "idle" => batch = <<>>
    /\ \A c \in Calls : call[c] \in {"queued", "taken"} => asked[c] \in Requests

\* A pending run is of a call that waits, a mark of one that is answered, and a call
\* has one watch at most.
WaitsAreWatched ==
    /\ \A w \in pending : call[w.of] = "waiting"
    /\ \A w \in marks : call[w.of] = "answered"
    /\ \A w, v \in Watching : w.of = v.of => w = v

\* The blocks that run in a tab, and whether a watch's block has formed there.
Runs(tab) == {i \in DOMAIN tab.blocks : tab.blocks[i].running}
Formed(tab, w) == w.before < Len(tab.blocks)

\* A watch and its tab. Before its block there is only its line, first in the queue
\* when the run is quiet; the block at the count is a quiet run's own. A lost line (ls)
\* leaves the watch with neither.
Sound(tab, w, qs, ls) ==
    tab.open =>
        /\ w.before <= Len(tab.blocks)
        /\ ~Formed(tab, w) =>
             /\ Runs(tab) = {}
             /\ w.of \in ls \/ \E j \in DOMAIN tab.input : tab.input[j] = w.of
             /\ w.of \in qs /\ w.of \notin ls => tab.input[1] = w.of
        /\ Formed(tab, w) /\ w.of \in qs /\ w.of \notin ls => tab.blocks[w.before + 1].by = w.of

\* Every watch is of a tab there is, and sound in it.
WatchesAreSound(ts, ws, qs, ls) ==
    \A w \in ws : w.tab \in DOMAIN ts /\ Sound(ts[w.tab], w, qs, ls)

\* A quiet run's line is the first of its tab, at the prompt, and the run's watch
\* counts exactly the blocks there are.
QuietLinesLead(ts, ws, qs) ==
    \A t \in DOMAIN ts : \A j \in DOMAIN ts[t].input : ts[t].input[j] \in qs =>
        /\ j = 1 /\ Runs(ts[t]) = {}
        /\ \E w \in ws : w.of = ts[t].input[j] /\ w.tab = t /\ w.before = Len(ts[t].blocks)

\* A quiet run's block has the agent's mark, or a watch that will give it one.
QuietBlocksAreClaimed(ts, ws, qs) ==
    \A t \in DOMAIN ts : \A i \in DOMAIN ts[t].blocks : ts[t].blocks[i].by \in qs =>
        \/ ts[t].blocks[i].author = "agent"
        \/ \E w \in ws : w.of = ts[t].blocks[i].by /\ w.tab = t /\ w.before < i

\* What the person started in a calm tab is not marked, and within no watch's reach.
PersonsBlocksAreFree(ts, ws) ==
    \A t \in DOMAIN ts : \A i \in DOMAIN ts[t].blocks :
        ts[t].blocks[i].by = Person /\ ts[t].blocks[i].calm =>
            /\ ts[t].blocks[i].author = "human"
            /\ \A w \in ws : w.tab = t => i <= w.before

\* No watch is of a calm tab.
CalmTabsAreUnwatched(ts, ws, cs) == \A w \in ws : w.tab \notin cs

\* A closed tab has neither lines nor blocks.
ClosedTabsAreEmpty(ts) ==
    \A t \in DOMAIN ts : ~ts[t].open => ts[t].input = <<>> /\ ts[t].blocks = <<>>

\* Every line and block is of a call a pass has executed, or the person's.
LinesAreExecuted(ts, es) ==
    \A t \in DOMAIN ts :
        /\ \A j \in DOMAIN ts[t].input : ts[t].input[j] \in es \cup {Person}
        /\ \A i \in DOMAIN ts[t].blocks : ts[t].blocks[i].by \in es \cup {Person}

\* The dock in order: the tabs ts, the watches ws, the quiet runs qs, the lost lines ls,
\* the calm tabs cs and the executed calls es.
Dock(ts, ws, qs, ls, cs, es) ==
    /\ ts \in Seq(Tabs) /\ ws \subseteq Watches /\ cs \subseteq DOMAIN ts
    /\ qs \subseteq es /\ es \subseteq Calls
    /\ WatchesAreSound(ts, ws, qs, ls)
    /\ QuietLinesLead(ts, ws, qs)
    /\ QuietBlocksAreClaimed(ts, ws, qs)
    /\ PersonsBlocksAreFree(ts, ws)
    /\ CalmTabsAreUnwatched(ts, ws, cs)
    /\ ClosedTabsAreEmpty(ts)
    /\ LinesAreExecuted(ts, es)

\* The inductive invariant.
IInv ==
    /\ WellTyped
    /\ JobsAreOnce
    /\ WaitsAreWatched
    /\ OneAnswerOfItsOwn
    /\ Dock(tabs, Watching, quiet, lost, calm, Executed)

-----------------------------------------------------------------------------

(* Sequences and sets *)

\* What Append does to a sequence.
LEMMA Appended ==
    ASSUME NEW S, NEW s \in Seq(S), NEW x \in S
    PROVE  /\ Append(s, x) \in Seq(S) /\ Len(Append(s, x)) = Len(s) + 1
           /\ Append(s, x)[Len(s) + 1] = x
           /\ \A j \in DOMAIN s : j \in DOMAIN Append(s, x) /\ Append(s, x)[j] = s[j]
           /\ \A j \in DOMAIN Append(s, x) : j \in DOMAIN s \/ Append(s, x)[j] = x
           /\ DOMAIN s # {} => 1 \in DOMAIN s
OBVIOUS

\* An element of a sequence.
LEMMA Element ==
    ASSUME NEW S, NEW s \in Seq(S), NEW i \in DOMAIN s
    PROVE  s[i] \in S
OBVIOUS

\* The first element of a sequence and the rest.
LEMMA Shortened ==
    ASSUME NEW S, NEW s \in Seq(S), s # <<>>
    PROVE  Tail(s) \in Seq(S) /\ Head(s) = s[1] /\ s[1] \in S
OBVIOUS

\* Without its first element, a sequence without repetition has all the others, once.
LEMMA Shifted ==
    ASSUME NEW S, NEW s \in Seq(S), s # <<>>, Once(s)
    PROVE  /\ Once(Tail(s))
           /\ \A x : (\E i \in DOMAIN Tail(s) : Tail(s)[i] = x)
                       <=> (\E i \in DOMAIN s : s[i] = x) /\ x # Head(s)
<1>1. PICK u \in Seq(S) : u = Tail(s)
  BY Shortened
<1>2. /\ \A i \in DOMAIN u : i + 1 \in DOMAIN s /\ u[i] = s[i + 1] /\ i \in Nat /\ i + 1 # 1
      /\ \A i \in DOMAIN s : i # 1 => i - 1 \in DOMAIN u /\ u[i - 1] = s[i]
      /\ Head(s) = s[1] /\ 1 \in DOMAIN s
  BY <1>1
<1>3. Once(u)
  <2>. SUFFICES ASSUME NEW i \in DOMAIN u, NEW j \in DOMAIN u, u[i] = u[j] PROVE i = j
    BY DEF Once
  <2>1. i + 1 = j + 1
    BY <1>2 DEF Once
  <2>. QED  BY <1>2, <2>1
<1>4. \A x : (\E i \in DOMAIN u : u[i] = x)
               <=> (\E i \in DOMAIN s : s[i] = x) /\ x # Head(s)
  BY <1>2 DEF Once
<1>. QED  BY <1>1, <1>3, <1>4

\* X includes no other set of T.
Smallest(X, T) == \A Y \in T : Y \subseteq X => Y = X

\* Among some subsets of an interval one is smallest: strict inclusion is well-founded there.
LEMMA LeastSet ==
    ASSUME NEW n \in Nat, NEW T, T \subseteq SUBSET (1 .. n), T # {}
    PROVE  \E X \in T : Smallest(X, T)
<1>1. IsFiniteSet(1 .. n) /\ FiniteSubsetsOf(1 .. n) = SUBSET (1 .. n)
  BY FS_Interval, FS_FiniteSubsetsOfFinite
<1>2. PICK X \in T : \A Y \in T : <<Y, X>> \notin StrictSubsetOrdering(1 .. n)
  <2>1. IsWellFoundedOn(StrictSubsetOrdering(1 .. n), SUBSET (1 .. n))
    BY <1>1, FS_StrictSubsetOrderingWellFounded
  <2>. QED  BY <2>1, WFMin
<1>3. ASSUME NEW Y \in T, Y \subseteq X, Y # X
      PROVE  <<Y, X>> \in StrictSubsetOrdering(1 .. n)
  <2>1. PICK S : S = SUBSET (1 .. n)
    OBVIOUS
  <2>2. <<Y, X>> \in S \X S
    BY <2>1
  <2>. QED  BY <1>3, <2>1, <2>2 DEF StrictSubsetOrdering
<1>4. Smallest(X, T)
  BY <1>2, <1>3 DEF Smallest
<1>. QED  BY <1>4

\* The least number of a set of numbers up to n is one of them.
LEMMA MinIn == ASSUME NEW n \in Nat, NEW S \in SUBSET (1 .. n), S # {} PROVE Min(S) \in S
<1>. DEFINE T == {1 .. x : x \in S}
<1>1. T \subseteq SUBSET (1 .. n) /\ T # {}
  <2>1. \A x \in S : 1 .. x \subseteq 1 .. n
    OBVIOUS
  <2>2. PICK x \in S : TRUE
    OBVIOUS
  <2>3. 1 .. x \in T
    BY <2>2
  <2>. QED  BY <2>1, <2>3
<1>2. PICK X \in T : Smallest(X, T)
  <2>. HIDE DEF T
  <2>. QED  BY <1>1, LeastSet
<1>3. PICK x \in S : X = 1 .. x
  BY <1>2
<1>4. ASSUME NEW y \in S PROVE x =< y
  <2>1. ~(1 .. y \subseteq 1 .. x /\ 1 .. y # 1 .. x)
    BY <1>2, <1>3 DEF Smallest
  <2>2. x \in Nat /\ y \in Nat /\ (y < x => x \notin 1 .. y /\ x \in 1 .. x)
    OBVIOUS
  <2>. QED  BY <2>1, <2>2
<1>. QED  BY <1>4 DEF Min

\* So is the greatest.
LEMMA MaxIn == ASSUME NEW n \in Nat, NEW S \in SUBSET (1 .. n), S # {} PROVE Max(S) \in S
<1>. DEFINE T == {x .. n : x \in S}
<1>1. T \subseteq SUBSET (1 .. n) /\ T # {}
  <2>1. \A x \in S : x .. n \subseteq 1 .. n
    OBVIOUS
  <2>2. PICK x \in S : TRUE
    OBVIOUS
  <2>3. x .. n \in T
    BY <2>2
  <2>. QED  BY <2>1, <2>3
<1>2. PICK X \in T : Smallest(X, T)
  <2>. HIDE DEF T
  <2>. QED  BY <1>1, LeastSet
<1>3. PICK x \in S : X = x .. n
  BY <1>2
<1>4. ASSUME NEW y \in S PROVE x >= y
  <2>1. ~(y .. n \subseteq x .. n /\ y .. n # x .. n)
    BY <1>2, <1>3 DEF Smallest
  <2>2. x \in 1 .. n /\ y \in 1 .. n /\ (x < y => x \notin y .. n /\ x \in x .. n)
    OBVIOUS
  <2>. QED  BY <2>1, <2>2
<1>. QED  BY <1>4 DEF Max

\* What SetToSeq makes of no element.
LEMMA SequenceOfNone == SetToSeq({}) = <<>>
<1>1. Cardinality({}) = 0 /\ 1 .. 0 = {}
  BY FS_EmptySet
<1>2. <<>> \in [1 .. 0 -> {}] /\ IsInjective(<<>>)
  BY DEF IsInjective
<1>3. SetToSeq({}) \in [1 .. 0 -> {}]
  BY <1>1, <1>2 DEF SetToSeq
<1>. QED  BY <1>3

\* What SetToSeq makes of one element.
LEMMA SequenceOfOne == ASSUME NEW x PROVE SetToSeq({x}) = <<x>>
<1>1. Cardinality({x}) = 1
  BY FS_Singleton
<1>2. <<x>> \in [1 .. 1 -> {x}] /\ IsInjective(<<x>>)
  BY DEF IsInjective
<1>3. PICK f : f = SetToSeq({x})
  OBVIOUS
<1>4. f \in [1 .. 1 -> {x}]
  BY <1>1, <1>2, <1>3 DEF SetToSeq
<1>5. f = <<x>>
  BY <1>4
<1>. QED  BY <1>3, <1>5

-----------------------------------------------------------------------------
(* One tab replaced by another *)

\* The types of a tab's fields.
LEMMA TabsHave ==
    ASSUME NEW ts \in Seq(Tabs), NEW t \in DOMAIN ts
    PROVE  /\ t \in 1 .. Len(ts) /\ ts[t] \in Tabs
           /\ ts[t].input \in Seq(Lines) /\ ts[t].blocks \in Seq(Blocks)
<1>1. t \in 1 .. Len(ts) /\ ts[t] \in Tabs
  OBVIOUS
<1>. QED  BY <1>1 DEF Tabs

\* One tab replaced.
LEMMA TabReplaced ==
    ASSUME NEW ts \in Seq(Tabs), NEW t \in DOMAIN ts, NEW tab \in Tabs,
           NEW ts2, ts2 = [ts EXCEPT ![t] = tab]
    PROVE  /\ ts2 \in Seq(Tabs) /\ DOMAIN ts2 = DOMAIN ts /\ ts2[t] = tab
           /\ \A u \in DOMAIN ts : u # t => ts2[u] = ts[u]
BY ExceptSeq

\* One more line for the shell of tab t.
Typed(ts, t, x) == [ts EXCEPT ![t].input = Append(@, x)]

\* What tab t is then.
Grows(tab, old, x) ==
    /\ tab.open = old.open /\ tab.owner = old.owner
    /\ tab.blocks = old.blocks /\ tab.input = Append(old.input, x)

\* A typed line replaces the tab by one that grew.
LEMMA InputGrows ==
    ASSUME NEW ts \in Seq(Tabs), NEW t \in DOMAIN ts, NEW x \in Lines
    PROVE  \E tab \in Tabs :
             /\ Typed(ts, t, x) = [ts EXCEPT ![t] = tab]
             /\ Grows(tab, ts[t], x)
<1>1. PICK line \in Seq(Lines) : line = Append(ts[t].input, x)
  BY TabsHave, Appended
<1>2. PICK old \in Tabs : old = ts[t]
  BY TabsHave
<1>. DEFINE tab == [old EXCEPT !.input = line]
<1>3. /\ tab \in Tabs /\ tab.open = old.open /\ tab.owner = old.owner
      /\ tab.blocks = old.blocks /\ tab.input = line
  BY DEF Tabs
<1>4. Typed(ts, t, x) = [ts EXCEPT ![t] = [ts[t] EXCEPT !.input = Append(@, x)]]
  BY DEF Typed
<1>5. [ts[t] EXCEPT !.input = Append(@, x)] = tab
  BY <1>1, <1>2
<1>6. Typed(ts, t, x) = [ts EXCEPT ![t] = tab]
  BY <1>4, <1>5
<1>. HIDE DEF tab
<1>7. Grows(tab, ts[t], x)
  BY <1>1, <1>2, <1>3 DEF Grows
<1>. QED  BY <1>3, <1>6, <1>7

\* Tab t with other lines and blocks.
Rewritten(ts, t, line, blocks) == [ts EXCEPT ![t].input = line, ![t].blocks = blocks]

\* Other lines and blocks replace the tab.
LEMMA TabRewritten ==
    ASSUME NEW ts \in Seq(Tabs), NEW t \in DOMAIN ts, NEW line \in Seq(Lines),
           NEW blocks \in Seq(Blocks)
    PROVE  \E tab \in Tabs :
             /\ Rewritten(ts, t, line, blocks) = [ts EXCEPT ![t] = tab]
             /\ tab.open = ts[t].open /\ tab.input = line /\ tab.blocks = blocks
<1>1. PICK old \in Tabs : old = ts[t]
  BY TabsHave
<1>. DEFINE tab == [old EXCEPT !.input = line, !.blocks = blocks]
<1>2. tab \in Tabs /\ tab.open = old.open /\ tab.input = line /\ tab.blocks = blocks
  BY DEF Tabs
<1>3. Rewritten(ts, t, line, blocks) =
        [ts EXCEPT ![t] = [ts[t] EXCEPT !.input = line, !.blocks = blocks]]
  BY DEF Rewritten
<1>4. [ts[t] EXCEPT !.input = line, !.blocks = blocks] = tab
  BY <1>1
<1>5. Rewritten(ts, t, line, blocks) = [ts EXCEPT ![t] = tab]
  BY <1>3, <1>4
<1>. HIDE DEF tab
<1>. QED  BY <1>1, <1>2, <1>5

\* Block i of tab t has ended.
Ended(ts, t, i) == [ts EXCEPT ![t].blocks[i].running = FALSE]

\* What tab t is then: all but `running` is as it was.
Closes(tab, old) ==
    /\ tab.open = old.open /\ tab.input = old.input
    /\ Len(tab.blocks) = Len(old.blocks)
    /\ \A k \in DOMAIN old.blocks : /\ tab.blocks[k].by = old.blocks[k].by
                                    /\ tab.blocks[k].author = old.blocks[k].author
                                    /\ tab.blocks[k].calm = old.blocks[k].calm

\* A block that ends replaces the tab by one that differs only in what runs.
LEMMA BlockCloses ==
    ASSUME NEW ts \in Seq(Tabs), NEW t \in DOMAIN ts, NEW i \in DOMAIN ts[t].blocks
    PROVE  \E tab \in Tabs :
             /\ Ended(ts, t, i) = [ts EXCEPT ![t] = tab]
             /\ Closes(tab, ts[t])
<1>1. PICK old \in Tabs : old = ts[t]
  BY TabsHave
<1>2. PICK bs \in Seq(Blocks) : bs = old.blocks /\ i \in DOMAIN bs
  BY <1>1 DEF Tabs
<1>. DEFINE ended == [bs[i] EXCEPT !.running = FALSE]
            bs2 == [bs EXCEPT ![i] = ended]
            tab == [old EXCEPT !.blocks = bs2]
<1>3. /\ ended \in Blocks /\ ended.by = bs[i].by /\ ended.author = bs[i].author
      /\ ended.calm = bs[i].calm
  <2>1. bs[i] \in Blocks
    BY <1>2, Element
  <2>. HIDE DEF bs2, tab
  <2>. QED  BY <2>1 DEF Blocks
<1>4. Ended(ts, t, i) =
        [ts EXCEPT ![t] = [ts[t] EXCEPT !.blocks = [ts[t].blocks EXCEPT ![i] = 
            [ts[t].blocks[i] EXCEPT !.running = FALSE]]]]
  BY DEF Ended
<1>5. [ts[t] EXCEPT !.blocks = [ts[t].blocks EXCEPT ![i] =
            [ts[t].blocks[i] EXCEPT !.running = FALSE]]] = tab
  BY <1>1, <1>2
<1>6. Ended(ts, t, i) = [ts EXCEPT ![t] = tab]
  BY <1>4, <1>5
<1>. HIDE DEF ended
<1>7. /\ bs2 \in Seq(Blocks) /\ Len(bs2) = Len(bs)
      /\ \A k \in DOMAIN bs : bs2[k] = IF k = i THEN ended ELSE bs[k]
  BY <1>2, <1>3, ExceptSeq
<1>. HIDE DEF bs2
<1>8. tab \in Tabs /\ tab.open = old.open /\ tab.input = old.input /\ tab.blocks = bs2
  BY <1>7 DEF Tabs
<1>. HIDE DEF tab
<1>9. \A k \in DOMAIN bs : /\ bs2[k].by = bs[k].by /\ bs2[k].author = bs[k].author
                           /\ bs2[k].calm = bs[k].calm
  BY <1>3, <1>7
<1>10. Closes(tab, old)
  BY <1>2, <1>7, <1>8, <1>9 DEF Closes
<1>. QED  BY <1>1, <1>6, <1>8, <1>10

\* The shell of tab t has taken its next line.
Taken(ts, t, cs) ==
    [ts EXCEPT ![t].input = Tail(@),
               ![t].blocks = Append(@, [by |-> Head(ts[t].input), running |-> TRUE,
                                        author |-> "human", calm |-> t \in cs])]

\* What tab t is then: one line less, and the line's block.
Reads(ts, t, cs, tab, block) ==
    /\ tab.open = ts[t].open /\ tab.input = Tail(ts[t].input)
    /\ tab.blocks = Append(ts[t].blocks, block)
    /\ block.by = ts[t].input[1] /\ block.author = "human"
    /\ block.calm = (t \in cs)

\* A line the shell takes replaces the tab by one with its block.
LEMMA ShellTakes ==
    ASSUME NEW ts \in Seq(Tabs), NEW t \in DOMAIN ts, ts[t].input # <<>>, NEW cs
    PROVE  \E tab \in Tabs, block \in Blocks :
             Taken(ts, t, cs) = [ts EXCEPT ![t] = tab] /\ Reads(ts, t, cs, tab, block)
<1>1. PICK old \in Tabs : old = ts[t] /\ old.input \in Seq(Lines) /\ old.blocks \in Seq(Blocks)
  BY TabsHave
<1>2. PICK line \in Seq(Lines) : line = Tail(old.input)
  BY <1>1, Shortened
<1>3. PICK x \in Lines : x = Head(old.input) /\ x = old.input[1]
  BY <1>1, Shortened
<1>. DEFINE block == [by |-> x, running |-> TRUE, author |-> "human", calm |-> t \in cs]
<1>4. /\ block \in Blocks /\ block.by = x /\ block.author = "human"
      /\ block.calm = (t \in cs)
  <2>1. (t \in cs) \in BOOLEAN
    OBVIOUS
  <2>. QED  BY <2>1 DEF Blocks
<1>5. [by |-> Head(ts[t].input), running |-> TRUE, author |-> "human", calm |-> t \in cs] = block
  BY <1>1, <1>3
<1>6. Taken(ts, t, cs) = Rewritten(ts, t, line, Append(ts[t].blocks, block))
  BY <1>1, <1>2, <1>5 DEF Taken, Rewritten
<1>. HIDE DEF block
<1>7. PICK blocks \in Seq(Blocks) : blocks = Append(old.blocks, block)
  BY <1>1, <1>4, Appended
<1>8. PICK tab \in Tabs : /\ Rewritten(ts, t, line, blocks) = [ts EXCEPT ![t] = tab]
                          /\ tab.open = ts[t].open /\ tab.input = line /\ tab.blocks = blocks
  BY TabRewritten
<1>9. Reads(ts, t, cs, tab, block)
  BY <1>1, <1>2, <1>3, <1>4, <1>7, <1>8 DEF Reads
<1>. QED  BY <1>1, <1>4, <1>6, <1>7, <1>8, <1>9

\* A program of tab t has taken the next line.
Dropped(ts, t) == [ts EXCEPT ![t].input = Tail(@)]

\* What tab t is then: the same blocks, no line it did not have.
Drops(tab, old) ==
    /\ tab.open = old.open /\ tab.blocks = old.blocks
    /\ \A j \in DOMAIN tab.input : \E k \in DOMAIN old.input : tab.input[j] = old.input[k]

\* A line a program takes replaces the tab by one that lost it.
LEMMA InputDrops ==
    ASSUME NEW ts \in Seq(Tabs), NEW t \in DOMAIN ts, ts[t].input # <<>>
    PROVE  \E tab \in Tabs :
             /\ Dropped(ts, t) = [ts EXCEPT ![t] = tab]
             /\ Drops(tab, ts[t]) /\ tab.input = Tail(ts[t].input)
<1>1. PICK old \in Tabs : old = ts[t] /\ old.input \in Seq(Lines) /\ old.blocks \in Seq(Blocks)
  BY TabsHave
<1>2. PICK line \in Seq(Lines) : line = Tail(old.input)
  BY <1>1, Shortened
<1>3. PICK blocks \in Seq(Blocks) : blocks = old.blocks
  BY <1>1
<1>4. PICK tab \in Tabs : /\ Rewritten(ts, t, line, blocks) = [ts EXCEPT ![t] = tab]
                          /\ tab.open = ts[t].open /\ tab.input = line
                          /\ tab.blocks = blocks
  BY TabRewritten
<1>5. Dropped(ts, t) = Rewritten(ts, t, line, blocks)
  <2>1. Dropped(ts, t) = [ts EXCEPT ![t] = [ts[t] EXCEPT !.input = Tail(@)]]
    BY DEF Dropped
  <2>2. Rewritten(ts, t, line, blocks) =
          [ts EXCEPT ![t] = [ts[t] EXCEPT !.input = line, !.blocks = blocks]]
    BY DEF Rewritten
  <2>3. [ts[t] EXCEPT !.input = Tail(@)] = [ts[t] EXCEPT !.input = line, !.blocks = blocks]
    BY <1>1, <1>2, <1>3 DEF Tabs
  <2>. QED  BY <2>1, <2>2, <2>3
<1>6. \A j \in DOMAIN line : j + 1 \in DOMAIN old.input /\ line[j] = old.input[j + 1]
  BY <1>1, <1>2
<1>7. Drops(tab, old) /\ tab.input = Tail(ts[t].input)
  BY <1>1, <1>2, <1>4, <1>6, <1>3 DEF Drops
<1>. QED  BY <1>1, <1>4, <1>5, <1>7

\* What a new tab is, with lines or closed.
LEMMA NewTabIs ==
    ASSUME NEW owner \in {"user", "agent"}, NEW lines \in Seq(Lines)
    PROVE  /\ [NewTab(owner) EXCEPT !.input = lines] \in Tabs
           /\ [NewTab(owner) EXCEPT !.input = lines].open
           /\ [NewTab(owner) EXCEPT !.input = lines].blocks = <<>>
           /\ [NewTab(owner) EXCEPT !.input = lines].input = lines
           /\ [NewTab(owner) EXCEPT !.open = FALSE] \in Tabs
           /\ ~[NewTab(owner) EXCEPT !.open = FALSE].open
           /\ [NewTab(owner) EXCEPT !.open = FALSE].blocks = <<>>
           /\ [NewTab(owner) EXCEPT !.open = FALSE].input = <<>>
           /\ NewTab(owner) \in Tabs /\ NewTab(owner).open
           /\ NewTab(owner).input = <<>> /\ NewTab(owner).blocks = <<>>
<1>1. <<>> \in Seq(Lines) /\ <<>> \in Seq(Blocks)
  OBVIOUS
<1>2. /\ NewTab(owner) \in Tabs /\ NewTab(owner).open
      /\ NewTab(owner).input = <<>> /\ NewTab(owner).blocks = <<>>
  BY <1>1 DEF NewTab, Tabs
<1>3. PICK tab \in Tabs : tab = NewTab(owner)
  BY <1>2
<1>4. /\ [tab EXCEPT !.input = lines] \in Tabs
      /\ [tab EXCEPT !.input = lines].open = tab.open
      /\ [tab EXCEPT !.input = lines].blocks = tab.blocks
      /\ [tab EXCEPT !.input = lines].input = lines
  BY DEF Tabs
<1>5. /\ [tab EXCEPT !.open = FALSE] \in Tabs
      /\ [tab EXCEPT !.open = FALSE].open = FALSE
      /\ [tab EXCEPT !.open = FALSE].blocks = tab.blocks
      /\ [tab EXCEPT !.open = FALSE].input = tab.input
  BY DEF Tabs
<1>. QED  BY <1>2, <1>3, <1>4, <1>5

\* What a tab the agent opens is.
LEMMA AgentsTab ==
    /\ NewTab("agent") \in Tabs /\ NewTab("agent").open
    /\ NewTab("agent").input = <<>> /\ NewTab("agent").blocks = <<>>
<1>1. <<>> \in Seq(Lines)
  OBVIOUS
<1>. QED  BY <1>1, NewTabIs

-----------------------------------------------------------------------------
(* What keeps the dock in order *)

\* A line that is no quiet run's is added behind the others: no watch and no block
\* is touched by it, and a quiet line stays in front.
LEMMA LineTyped ==
    ASSUME NEW ts, NEW ws, NEW qs, NEW ls, NEW cs, NEW es, Dock(ts, ws, qs, ls, cs, es),
           NEW t \in DOMAIN ts, ts[t].open,
           NEW es2 \in SUBSET Calls, es \subseteq es2, NEW cs2 \in SUBSET cs,
           NEW x \in es2 \cup {Person}, x \notin qs,
           NEW tab \in Tabs, tab.open, tab.blocks = ts[t].blocks,
           tab.input = Append(ts[t].input, x),
           NEW ts2, ts2 = [ts EXCEPT ![t] = tab]
    PROVE  Dock(ts2, ws, qs, ls, cs2, es2)
<1>. USE DEF Dock
<1>1. /\ ts2 \in Seq(Tabs) /\ DOMAIN ts2 = DOMAIN ts
      /\ \A u \in DOMAIN ts : u # t => ts2[u] = ts[u]
      /\ ts2[t].open /\ ts2[t].blocks = ts[t].blocks
      /\ ts2[t].input = Append(ts[t].input, x)
  BY TabReplaced
<1>2. /\ \A j \in DOMAIN ts[t].input :
           j \in DOMAIN ts2[t].input /\ ts2[t].input[j] = ts[t].input[j]
      /\ \A j \in DOMAIN ts2[t].input : j \in DOMAIN ts[t].input \/ ts2[t].input[j] = x
      /\ DOMAIN ts[t].input # {} => 1 \in DOMAIN ts[t].input
  <2>1. ts[t].input \in Seq(Lines) /\ x \in Lines
    BY TabsHave DEF Lines
  <2>2. PICK s \in Seq(Lines) : s = ts[t].input
    BY <2>1
  <2>3. /\ \A j \in DOMAIN s : j \in DOMAIN Append(s, x) /\ Append(s, x)[j] = s[j]
        /\ \A j \in DOMAIN Append(s, x) : j \in DOMAIN s \/ Append(s, x)[j] = x
        /\ DOMAIN s # {} => 1 \in DOMAIN s
    BY <2>1, Appended
  <2>. QED  BY <1>1, <2>2, <2>3
<1>3. WatchesAreSound(ts2, ws, qs, ls)
  <2>. SUFFICES ASSUME NEW w \in ws PROVE w.tab \in DOMAIN ts2 /\ Sound(ts2[w.tab], w, qs, ls)
    BY DEF WatchesAreSound
  <2>1. w.tab \in DOMAIN ts /\ Sound(ts[w.tab], w, qs, ls)
    BY DEF WatchesAreSound
  <2>2. CASE w.tab = t
    <3>1. Sound(ts[t], w, qs, ls)
      BY <2>1, <2>2
    <3>2. Runs(ts2[t]) = Runs(ts[t]) /\ (Formed(ts2[t], w) <=> Formed(ts[t], w))
      BY <1>1 DEF Runs, Formed
    <3>. QED  BY <1>1, <1>2, <2>2, <3>1, <3>2 DEF Sound
  <2>3. CASE w.tab # t
    BY <1>1, <2>1, <2>3
  <2>. QED  BY <2>2, <2>3
<1>4. QuietLinesLead(ts2, ws, qs)
  <2>. SUFFICES ASSUME NEW u \in DOMAIN ts, NEW j \in DOMAIN ts2[u].input,
                       ts2[u].input[j] \in qs
       PROVE  /\ j = 1 /\ Runs(ts2[u]) = {}
              /\ \E w \in ws : /\ w.of = ts2[u].input[j] /\ w.tab = u
                               /\ w.before = Len(ts2[u].blocks)
    BY <1>1 DEF QuietLinesLead
  <2>1. j \in DOMAIN ts[u].input /\ ts2[u].input[j] = ts[u].input[j]
        /\ ts2[u].blocks = ts[u].blocks
    BY <1>1, <1>2
  <2>. QED  BY <2>1 DEF QuietLinesLead, Runs
<1>5. /\ QuietBlocksAreClaimed(ts2, ws, qs) /\ PersonsBlocksAreFree(ts2, ws)
      /\ CalmTabsAreUnwatched(ts2, ws, cs2) /\ ClosedTabsAreEmpty(ts2)
  <2>1. \A u \in DOMAIN ts : ts2[u].blocks = ts[u].blocks
    BY <1>1
  <2>2. QuietBlocksAreClaimed(ts2, ws, qs)
    BY <1>1, <2>1 DEF QuietBlocksAreClaimed
  <2>4. PersonsBlocksAreFree(ts2, ws)
    BY <1>1, <2>1 DEF PersonsBlocksAreFree
  <2>3. CalmTabsAreUnwatched(ts2, ws, cs2) /\ ClosedTabsAreEmpty(ts2)
    BY <1>1 DEF CalmTabsAreUnwatched, ClosedTabsAreEmpty
  <2>. QED  BY <2>2, <2>3, <2>4
<1>6. LinesAreExecuted(ts2, es2)
  BY <1>1, <1>2 DEF LinesAreExecuted
<1>. QED  BY <1>1, <1>3, <1>4, <1>5, <1>6

\* Lines have left the tab: no quiet run's is among those it has yet, and of the calls'
\* lines the others are lost.
Loses(tab, old, qs, ls) ==
    /\ tab.open = old.open /\ tab.blocks = old.blocks
    /\ \A j \in DOMAIN tab.input :
         tab.input[j] \notin qs /\ \E k \in DOMAIN old.input : tab.input[j] = old.input[k]
    /\ \A k \in DOMAIN old.input :
         \/ old.input[k] \notin Calls \/ old.input[k] \in ls
         \/ \E j \in DOMAIN tab.input : tab.input[j] = old.input[k]

\* Lines that leave a tab keep the dock in order: the watch of a lost line waits on.
LEMMA LinesLost ==
    ASSUME NEW ts, NEW ws, NEW qs, NEW ls, NEW cs, NEW es, Dock(ts, ws, qs, ls, cs, es),
           NEW t \in DOMAIN ts, ts[t].open,
           NEW es2 \in SUBSET Calls, es \subseteq es2, NEW cs2 \in SUBSET cs,
           NEW ls2, ls \subseteq ls2,
           NEW tab \in Tabs, Loses(tab, ts[t], qs, ls2),
           NEW ts2, ts2 = [ts EXCEPT ![t] = tab]
    PROVE  Dock(ts2, ws, qs, ls2, cs2, es2)
<1>. USE DEF Loses
<1>1. ts \in Seq(Tabs)
  BY DEF Dock
<1>2. /\ ts2 \in Seq(Tabs) /\ DOMAIN ts2 = DOMAIN ts
      /\ \A u \in DOMAIN ts : u # t => ts2[u] = ts[u]
      /\ ts2[t] = tab
  BY <1>1, TabReplaced
<1>3. WatchesAreSound(ts2, ws, qs, ls2)
  <2>. SUFFICES ASSUME NEW w \in ws PROVE w.tab \in DOMAIN ts2 /\ Sound(ts2[w.tab], w, qs, ls2)
    BY DEF WatchesAreSound
  <2>1. w.tab \in DOMAIN ts /\ Sound(ts[w.tab], w, qs, ls) /\ w.of \in Calls
    BY DEF WatchesAreSound, Dock, Watches
  <2>2. CASE w.tab = t
    <3>1. Runs(tab) = Runs(ts[t]) /\ (Formed(tab, w) <=> Formed(ts[t], w))
      BY DEF Runs, Formed
    <3>2. ~Formed(ts[t], w) => w.of \in ls2 \/ \E j \in DOMAIN tab.input : tab.input[j] = w.of
      BY <2>1, <2>2 DEF Sound
    <3>3. ~Formed(ts[t], w) /\ w.of \in qs => w.of \in ls2
      BY <3>2
    <3>. QED  BY <1>2, <2>1, <2>2, <3>1, <3>2, <3>3 DEF Sound
  <2>3. CASE w.tab # t
    BY <1>2, <2>1, <2>3 DEF Sound
  <2>. QED  BY <2>2, <2>3
<1>4. QuietLinesLead(ts2, ws, qs)
  BY <1>2 DEF QuietLinesLead, Dock
<1>5. \A u \in DOMAIN ts : ts2[u].blocks = ts[u].blocks
  BY <1>2
<1>6. QuietBlocksAreClaimed(ts2, ws, qs) /\ PersonsBlocksAreFree(ts2, ws)
  <2>1. QuietBlocksAreClaimed(ts2, ws, qs)
    BY <1>2, <1>5 DEF QuietBlocksAreClaimed, Dock
  <2>2. PersonsBlocksAreFree(ts2, ws)
    BY <1>2, <1>5 DEF PersonsBlocksAreFree, Dock
  <2>. QED  BY <2>1, <2>2
<1>7. CalmTabsAreUnwatched(ts2, ws, cs2) /\ ClosedTabsAreEmpty(ts2)
  BY <1>2 DEF CalmTabsAreUnwatched, ClosedTabsAreEmpty, Dock
<1>8. LinesAreExecuted(ts2, es2)
  <2>1. \A j \in DOMAIN tab.input : tab.input[j] \in es2 \cup {Person}
    BY DEF LinesAreExecuted, Dock
  <2>2. \A u \in DOMAIN ts : u # t =>
          \A j \in DOMAIN ts2[u].input : ts2[u].input[j] \in es2 \cup {Person}
    BY <1>2 DEF LinesAreExecuted, Dock
  <2>3. \A u \in DOMAIN ts : \A i \in DOMAIN ts2[u].blocks :
          ts2[u].blocks[i].by \in es2 \cup {Person}
    BY <1>5 DEF LinesAreExecuted, Dock
  <2>. QED  BY <1>2, <2>1, <2>2, <2>3 DEF LinesAreExecuted
<1>. QED  BY <1>2, <1>3, <1>4, <1>6, <1>7, <1>8 DEF Dock

\* More calls may have been executed.
LEMMA Wider ==
    ASSUME NEW ts, NEW ws, NEW qs, NEW ls, NEW cs, NEW es, Dock(ts, ws, qs, ls, cs, es),
           NEW es2 \in SUBSET Calls, es \subseteq es2
    PROVE  Dock(ts, ws, qs, ls, cs, es2)
BY DEF Dock, LinesAreExecuted

\* A new tab, empty or with the person's lines.
LEMMA TabAdded ==
    ASSUME NEW ts, NEW ws, NEW qs, NEW ls, NEW cs, NEW es, Dock(ts, ws, qs, ls, cs, es),
           NEW es2 \in SUBSET Calls, es \subseteq es2,
           NEW tab \in Tabs, tab.open, tab.blocks = <<>>,
           \A j \in DOMAIN tab.input : tab.input[j] = Person,
           Person \notin Calls, NEW ts2, ts2 = Append(ts, tab)
    PROVE  Dock(ts2, ws, qs, ls, cs, es2)
<1>. USE DEF Dock
<1>1. PICK n \in Nat : n = Len(ts) + 1
  OBVIOUS
<1>2. /\ ts2 \in Seq(Tabs) /\ DOMAIN ts2 = DOMAIN ts \cup {n} /\ n \notin DOMAIN ts
      /\ ts2[n] = tab /\ \A u \in DOMAIN ts : ts2[u] = ts[u]
  BY <1>1
<1>3. DOMAIN tab.blocks = {}
  OBVIOUS
<1>4. WatchesAreSound(ts2, ws, qs, ls)
  BY <1>2 DEF WatchesAreSound
<1>5. QuietLinesLead(ts2, ws, qs)
  BY <1>2 DEF QuietLinesLead
<1>6. QuietBlocksAreClaimed(ts2, ws, qs) /\ PersonsBlocksAreFree(ts2, ws)
  BY <1>2, <1>3 DEF QuietBlocksAreClaimed, PersonsBlocksAreFree
<1>7. CalmTabsAreUnwatched(ts2, ws, cs) /\ ClosedTabsAreEmpty(ts2)
  BY <1>2 DEF CalmTabsAreUnwatched, ClosedTabsAreEmpty
<1>8. LinesAreExecuted(ts2, es2)
  BY <1>2, <1>3 DEF LinesAreExecuted
<1>9. cs \subseteq DOMAIN ts2
  BY <1>2
<1>. QED  BY <1>2, <1>4, <1>5, <1>6, <1>7, <1>8, <1>9

\* A tab closes, and what was in it is gone.
LEMMA TabClosed ==
    ASSUME NEW ts, NEW ws, NEW qs, NEW ls, NEW cs, NEW es, Dock(ts, ws, qs, ls, cs, es),
           NEW t \in DOMAIN ts, NEW es2 \in SUBSET Calls, es \subseteq es2,
           NEW tab \in Tabs, ~tab.open, tab.blocks = <<>>, tab.input = <<>>,
           NEW ts2, ts2 = [ts EXCEPT ![t] = tab]
    PROVE  Dock(ts2, ws, qs, ls, cs \ {t}, es2)
<1>. USE DEF Dock
<1>1. /\ ts2 \in Seq(Tabs) /\ DOMAIN ts2 = DOMAIN ts
      /\ ts2[t] = tab /\ \A u \in DOMAIN ts : u # t => ts2[u] = ts[u]
  BY ExceptSeq
<1>2. DOMAIN tab.blocks = {} /\ DOMAIN tab.input = {}
  OBVIOUS
<1>3. WatchesAreSound(ts2, ws, qs, ls)
  BY <1>1 DEF WatchesAreSound, Sound
<1>4. QuietLinesLead(ts2, ws, qs)
  BY <1>1, <1>2 DEF QuietLinesLead
<1>5. QuietBlocksAreClaimed(ts2, ws, qs) /\ PersonsBlocksAreFree(ts2, ws)
  BY <1>1, <1>2 DEF QuietBlocksAreClaimed, PersonsBlocksAreFree
<1>6. CalmTabsAreUnwatched(ts2, ws, cs \ {t}) /\ ClosedTabsAreEmpty(ts2)
  BY <1>1 DEF CalmTabsAreUnwatched, ClosedTabsAreEmpty
<1>7. LinesAreExecuted(ts2, es2)
  BY <1>1, <1>2 DEF LinesAreExecuted
<1>. QED  BY <1>1, <1>3, <1>4, <1>5, <1>6, <1>7

\* A run is pasted at a prompt: its watch counts the blocks of the tab as they are,
\* and it is quiet only when no line is ahead of it.
LEMMA LinePasted ==
    ASSUME NEW ts, NEW ws, NEW qs, NEW ls, NEW cs, NEW es, Dock(ts, ws, qs, ls, cs, es),
           NEW t \in DOMAIN ts, ts[t].open, Runs(ts[t]) = {},
           NEW c \in Calls, c \notin es, Person \notin Calls, \A w \in ws : w.of # c,
           NEW tab \in Tabs, tab.open, tab.blocks = ts[t].blocks,
           tab.input = Append(ts[t].input, c),
           NEW ts2, ts2 = [ts EXCEPT ![t] = tab],
           NEW new \in Watches, new.of = c, new.tab = t, new.before = Len(ts[t].blocks),
           NEW qs2, qs \subseteq qs2, qs2 \subseteq qs \cup {c},
           c \in qs2 => ts[t].input = <<>>
    PROVE  Dock(ts2, ws \cup {new}, qs2, ls, cs \ {t}, es \cup {c})
<1>. USE DEF Dock
<1>1. /\ ts2 \in Seq(Tabs) /\ DOMAIN ts2 = DOMAIN ts
      /\ \A u \in DOMAIN ts : u # t => ts2[u] = ts[u]
      /\ ts2[t].open /\ ts2[t].blocks = ts[t].blocks
      /\ ts2[t].input = Append(ts[t].input, c)
  BY TabReplaced
<1>2. /\ \A j \in DOMAIN ts[t].input :
           j \in DOMAIN ts2[t].input /\ ts2[t].input[j] = ts[t].input[j]
      /\ \A j \in DOMAIN ts2[t].input : j \in DOMAIN ts[t].input \/ ts2[t].input[j] = c
      /\ DOMAIN ts[t].input # {} => 1 \in DOMAIN ts[t].input
      /\ \E j \in DOMAIN ts2[t].input : ts2[t].input[j] = c
      /\ ts[t].input = <<>> => DOMAIN ts2[t].input = {1} /\ ts2[t].input[1] = c
  <2>1. ts[t].input \in Seq(Lines) /\ c \in Lines
    BY TabsHave DEF Lines
  <2>2. PICK s \in Seq(Lines) : s = ts[t].input
    BY <2>1
  <2>3. /\ \A j \in DOMAIN s : j \in DOMAIN Append(s, c) /\ Append(s, c)[j] = s[j]
        /\ \A j \in DOMAIN Append(s, c) : j \in DOMAIN s \/ Append(s, c)[j] = c
        /\ DOMAIN s # {} => 1 \in DOMAIN s
    BY <2>1, Appended
  <2>4. \E j \in DOMAIN Append(s, c) : Append(s, c)[j] = c
    <3>1. Len(s) + 1 \in DOMAIN Append(s, c) /\ Append(s, c)[Len(s) + 1] = c
      BY <2>1
    <3>. QED  BY <3>1
  <2>5. s = <<>> => DOMAIN Append(s, c) = {1} /\ Append(s, c)[1] = c
    BY <2>1
  <2>. QED  BY <1>1, <2>2, <2>3, <2>4, <2>5
<1>3. \A u \in DOMAIN ts :
        /\ \A j \in DOMAIN ts[u].input : ts[u].input[j] # c
        /\ \A i \in DOMAIN ts[u].blocks : ts[u].blocks[i].by # c
  BY DEF LinesAreExecuted
<1>4. /\ c \notin qs /\ qs2 \subseteq qs \cup {c} /\ qs \subseteq qs2
      /\ c \in qs2 => ts[t].input = <<>>
  OBVIOUS
<1>. HIDE DEF Dock
<1>5. WatchesAreSound(ts2, ws \cup {new}, qs2, ls)
  <2>1. ASSUME NEW w \in ws PROVE w.tab \in DOMAIN ts2 /\ Sound(ts2[w.tab], w, qs2, ls)
    <3>1. w.tab \in DOMAIN ts /\ Sound(ts[w.tab], w, qs, ls) /\ (w.of \in qs2 => w.of \in qs)
      BY <1>4 DEF WatchesAreSound, Dock
    <3>2. CASE w.tab = t
      <4>1. Sound(ts[t], w, qs, ls)
        BY <3>1, <3>2
      <4>2. Runs(ts2[t]) = Runs(ts[t]) /\ (Formed(ts2[t], w) <=> Formed(ts[t], w))
        BY <1>1 DEF Runs, Formed
      <4>. QED  BY <1>1, <1>2, <3>1, <3>2, <4>1, <4>2 DEF Sound
    <3>3. CASE w.tab # t
      BY <1>1, <3>1, <3>3 DEF Sound
    <3>. QED  BY <3>2, <3>3
  <2>2. Sound(ts2[t], new, qs2, ls)
    <3>1. Len(ts[t].blocks) \in Nat
      BY TabsHave DEF Dock
    <3>2. ~Formed(ts2[t], new) /\ new.before <= Len(ts2[t].blocks) /\ Runs(ts2[t]) = {}
      BY <1>1, <3>1 DEF Runs, Formed
    <3>. QED  BY <1>2, <1>4, <3>2 DEF Sound
  <2>. QED  BY <1>1, <2>1, <2>2 DEF WatchesAreSound
<1>6. QuietLinesLead(ts2, ws \cup {new}, qs2)
  <2>. SUFFICES ASSUME NEW u \in DOMAIN ts, NEW j \in DOMAIN ts2[u].input,
                       ts2[u].input[j] \in qs2
       PROVE  /\ j = 1 /\ Runs(ts2[u]) = {}
              /\ \E w \in ws \cup {new} : /\ w.of = ts2[u].input[j] /\ w.tab = u
                                          /\ w.before = Len(ts2[u].blocks)
    BY <1>1 DEF QuietLinesLead
  <2>1. ts2[u].blocks = ts[u].blocks
    BY <1>1
  <2>2. CASE j \in DOMAIN ts[u].input /\ ts2[u].input[j] = ts[u].input[j]
    <3>1. ts[u].input[j] \in qs
      BY <1>3, <1>4, <2>2
    <3>. QED  BY <2>1, <2>2, <3>1 DEF QuietLinesLead, Runs, Dock
  <2>3. CASE u = t /\ ts2[u].input[j] = c
    <3>1. ts[t].input = <<>>
      BY <1>4, <2>3
    <3>. QED  BY <1>2, <2>1, <2>3, <3>1 DEF Runs
  <2>. QED  BY <1>1, <1>2, <2>2, <2>3
<1>7. \A u \in DOMAIN ts : ts2[u].blocks = ts[u].blocks
  BY <1>1
<1>8. QuietBlocksAreClaimed(ts2, ws \cup {new}, qs2)
  <2>1. \A u \in DOMAIN ts : \A i \in DOMAIN ts[u].blocks :
          ts[u].blocks[i].by \in qs2 => ts[u].blocks[i].by \in qs
    BY <1>3, <1>4
  <2>. QED  BY <1>1, <1>7, <2>1 DEF QuietBlocksAreClaimed, Dock
<1>9. PersonsBlocksAreFree(ts2, ws \cup {new})
  <2>1. \A i \in DOMAIN ts[t].blocks : i <= new.before
    BY TabsHave DEF Dock
  <2>. QED  BY <1>1, <1>7, <2>1 DEF PersonsBlocksAreFree, Dock
<1>10. CalmTabsAreUnwatched(ts2, ws \cup {new}, cs \ {t}) /\ ClosedTabsAreEmpty(ts2)
  BY <1>1 DEF CalmTabsAreUnwatched, ClosedTabsAreEmpty, Dock
<1>11. LinesAreExecuted(ts2, es \cup {c})
  <2>1. \A u \in DOMAIN ts : \A j \in DOMAIN ts2[u].input :
          ts2[u].input[j] \in es \cup {c} \cup {Person}
    BY <1>1, <1>2 DEF LinesAreExecuted, Dock
  <2>. QED  BY <1>1, <1>7, <2>1 DEF LinesAreExecuted, Dock
<1>12. qs2 \subseteq es \cup {c} /\ es \cup {c} \subseteq Calls /\ cs \ {t} \subseteq DOMAIN ts2
       /\ ws \cup {new} \subseteq Watches
  BY <1>1, <1>4 DEF Dock
<1>. QED  BY <1>1, <1>5, <1>6, <1>8, <1>9, <1>10, <1>11, <1>12 DEF Dock

\* The shell takes a line: if a watch's block had not formed, this is it, and it is
\* that of a quiet run when its line was in front.
LEMMA LineRead ==
    ASSUME NEW ts, NEW ws, NEW qs, NEW ls, NEW cs, NEW es, Dock(ts, ws, qs, ls, cs, es),
           NEW t \in DOMAIN ts, ts[t].open, Runs(ts[t]) = {}, ts[t].input # <<>>,
           NEW block \in Blocks, block.by = ts[t].input[1], block.author = "human",
           block.calm = (t \in cs),
           NEW tab \in Tabs, tab.open, tab.blocks = Append(ts[t].blocks, block),
           tab.input = Tail(ts[t].input),
           NEW ts2, ts2 = [ts EXCEPT ![t] = tab]
    PROVE  Dock(ts2, ws, qs, ls, cs, es)
<1>1. /\ ts \in Seq(Tabs) /\ ts[t].input \in Seq(Lines) /\ ts[t].blocks \in Seq(Blocks)
  BY TabsHave DEF Dock
<1>2. /\ ts2 \in Seq(Tabs) /\ DOMAIN ts2 = DOMAIN ts
      /\ \A u \in DOMAIN ts : u # t => ts2[u] = ts[u]
      /\ ts2[t] = tab
  BY <1>1, TabReplaced
<1>3. PICK n \in Nat : n = Len(ts[t].blocks)
  <2>1. Len(ts[t].blocks) \in Nat
    BY <1>1
  <2>. QED  BY <2>1
<1>4. /\ \A j \in DOMAIN tab.input : j + 1 \in DOMAIN ts[t].input
                                     /\ tab.input[j] = ts[t].input[j + 1] /\ j >= 1
      /\ 1 \in DOMAIN ts[t].input
  BY <1>1
<1>5. /\ Len(tab.blocks) = n + 1 /\ tab.blocks[n + 1] = block
      /\ \A i \in DOMAIN ts[t].blocks : i \in DOMAIN tab.blocks /\ tab.blocks[i] = ts[t].blocks[i]
      /\ \A i \in DOMAIN tab.blocks : i \in DOMAIN ts[t].blocks \/ i = n + 1
  BY <1>1, <1>3
<1>6. WatchesAreSound(ts2, ws, qs, ls)
  <2>. SUFFICES ASSUME NEW w \in ws PROVE w.tab \in DOMAIN ts2 /\ Sound(ts2[w.tab], w, qs, ls)
    BY DEF WatchesAreSound
  <2>1. w.tab \in DOMAIN ts /\ Sound(ts[w.tab], w, qs, ls) /\ w.before \in Nat
    BY DEF WatchesAreSound, Dock, Watches
  <2>2. CASE w.tab = t
    <3>1. w.before <= n /\ Formed(tab, w) /\ w.before <= Len(tab.blocks)
      BY <1>3, <1>5, <2>1, <2>2 DEF Sound, Formed
    <3>2. w.of \in qs /\ w.of \notin ls => tab.blocks[w.before + 1].by = w.of
      <4>1. CASE w.before = n
        BY <1>3, <1>5, <2>1, <2>2, <4>1 DEF Sound, Formed
      <4>2. CASE w.before < n
        <5>1. w.before + 1 \in DOMAIN ts[t].blocks
          BY <1>1, <1>3, <2>1, <4>2
        <5>. QED  BY <1>3, <1>5, <2>1, <2>2, <4>2, <5>1 DEF Sound, Formed
      <4>3. w.before = n \/ w.before < n
        BY <2>1, <3>1
      <4>. QED  BY <4>1, <4>2, <4>3
    <3>. QED  BY <1>2, <2>2, <3>1, <3>2 DEF Sound
  <2>3. CASE w.tab # t
    BY <1>2, <2>1, <2>3
  <2>. QED  BY <2>2, <2>3
<1>7. QuietLinesLead(ts2, ws, qs)
  <2>1. \A j \in DOMAIN tab.input : tab.input[j] \notin qs
    <3>. SUFFICES ASSUME NEW j \in DOMAIN tab.input, tab.input[j] \in qs PROVE FALSE
      OBVIOUS
    <3>1. j + 1 = 1
      BY <1>4 DEF QuietLinesLead, Dock
    <3>2. j >= 1 /\ j \in Nat
      BY <1>1, <1>4
    <3>. QED  BY <3>1, <3>2
  <2>. SUFFICES ASSUME NEW u \in DOMAIN ts, NEW j \in DOMAIN ts2[u].input,
                       ts2[u].input[j] \in qs
       PROVE  /\ j = 1 /\ Runs(ts2[u]) = {}
              /\ \E w \in ws : /\ w.of = ts2[u].input[j] /\ w.tab = u
                               /\ w.before = Len(ts2[u].blocks)
    BY <1>2 DEF QuietLinesLead
  <2>2. u # t /\ ts2[u] = ts[u]
    BY <1>2, <2>1
  <2>. QED  BY <2>2 DEF QuietLinesLead, Dock
<1>8. QuietBlocksAreClaimed(ts2, ws, qs)
  <2>1. block.by \in qs => \E w \in ws : w.of = block.by /\ w.tab = t /\ w.before < n + 1
    <3>1. block.by \in qs => \E w \in ws : w.of = block.by /\ w.tab = t /\ w.before = n
      BY <1>3, <1>4 DEF QuietLinesLead, Dock
    <3>. QED  BY <3>1
  <2>. SUFFICES ASSUME NEW u \in DOMAIN ts, NEW i \in DOMAIN ts2[u].blocks,
                       ts2[u].blocks[i].by \in qs
       PROVE  \/ ts2[u].blocks[i].author = "agent"
              \/ \E w \in ws : w.of = ts2[u].blocks[i].by /\ w.tab = u /\ w.before < i
    BY <1>2 DEF QuietBlocksAreClaimed
  <2>2. CASE i \in DOMAIN ts[u].blocks /\ ts2[u].blocks[i] = ts[u].blocks[i]
    BY <2>2 DEF QuietBlocksAreClaimed, Dock
  <2>3. CASE u = t /\ i = n + 1
    BY <1>2, <1>5, <2>1, <2>3
  <2>. QED  BY <1>2, <1>5, <2>2, <2>3
<1>9. PersonsBlocksAreFree(ts2, ws)
  <2>1. block.calm => \A w \in ws : w.tab # t
    BY DEF CalmTabsAreUnwatched, Dock
  <2>. SUFFICES ASSUME NEW u \in DOMAIN ts, NEW i \in DOMAIN ts2[u].blocks,
                       ts2[u].blocks[i].by = Person, ts2[u].blocks[i].calm
       PROVE  /\ ts2[u].blocks[i].author = "human"
              /\ \A w \in ws : w.tab = u => i <= w.before
    BY <1>2 DEF PersonsBlocksAreFree
  <2>2. CASE i \in DOMAIN ts[u].blocks /\ ts2[u].blocks[i] = ts[u].blocks[i]
    BY <2>2 DEF PersonsBlocksAreFree, Dock
  <2>3. CASE u = t /\ i = n + 1
    BY <1>2, <1>5, <2>1, <2>3
  <2>. QED  BY <1>2, <1>5, <2>2, <2>3
<1>10. ClosedTabsAreEmpty(ts2)
  BY <1>2 DEF ClosedTabsAreEmpty, Dock
<1>11. LinesAreExecuted(ts2, es)
  <2>1. \A j \in DOMAIN tab.input : tab.input[j] \in es \cup {Person}
    BY <1>4 DEF LinesAreExecuted, Dock
  <2>2. \A i \in DOMAIN tab.blocks : tab.blocks[i].by \in es \cup {Person}
    BY <1>4, <1>5 DEF LinesAreExecuted, Dock
  <2>3. \A u \in DOMAIN ts : u # t =>
          /\ \A j \in DOMAIN ts2[u].input : ts2[u].input[j] \in es \cup {Person}
          /\ \A i \in DOMAIN ts2[u].blocks : ts2[u].blocks[i].by \in es \cup {Person}
    BY <1>2 DEF LinesAreExecuted, Dock
  <2>. QED  BY <1>2, <2>1, <2>2, <2>3 DEF LinesAreExecuted
<1>12. CalmTabsAreUnwatched(ts2, ws, cs)
  BY DEF CalmTabsAreUnwatched, Dock
<1>. QED  BY <1>2, <1>6, <1>7, <1>8, <1>9, <1>10, <1>11, <1>12 DEF Dock

\* A program takes a line, or a block ends: the tab was running something, so the block
\* of every watch there had formed, and no quiet line was among those waiting.
LEMMA ProgramMoves ==
    ASSUME NEW ts, NEW ws, NEW qs, NEW ls, NEW cs, NEW es, Dock(ts, ws, qs, ls, cs, es),
           NEW t \in DOMAIN ts, ts[t].open, Runs(ts[t]) # {},
           NEW tab \in Tabs, tab.open,
           Len(tab.blocks) = Len(ts[t].blocks),
           \A i \in DOMAIN ts[t].blocks :
             /\ tab.blocks[i].by = ts[t].blocks[i].by
             /\ tab.blocks[i].author = ts[t].blocks[i].author
             /\ tab.blocks[i].calm = ts[t].blocks[i].calm,
           \A j \in DOMAIN tab.input : \E k \in DOMAIN ts[t].input :
             tab.input[j] = ts[t].input[k],
           NEW ts2, ts2 = [ts EXCEPT ![t] = tab]
    PROVE  Dock(ts2, ws, qs, ls, cs, es)
<1>1. /\ ts \in Seq(Tabs) /\ ts[t].input \in Seq(Lines) /\ ts[t].blocks \in Seq(Blocks)
  BY TabsHave DEF Dock
<1>2. /\ ts2 \in Seq(Tabs) /\ DOMAIN ts2 = DOMAIN ts
      /\ \A u \in DOMAIN ts : u # t => ts2[u] = ts[u]
      /\ ts2[t] = tab
  BY <1>1, TabReplaced
<1>3. DOMAIN tab.blocks = DOMAIN ts[t].blocks
  <2>1. tab.blocks \in Seq(Blocks)
    BY DEF Tabs
  <2>. QED  BY <1>1, <2>1
<1>4. WatchesAreSound(ts2, ws, qs, ls)
  <2>. SUFFICES ASSUME NEW w \in ws PROVE w.tab \in DOMAIN ts2 /\ Sound(ts2[w.tab], w, qs, ls)
    BY DEF WatchesAreSound
  <2>1. w.tab \in DOMAIN ts /\ Sound(ts[w.tab], w, qs, ls) /\ w.before \in Nat
    BY DEF WatchesAreSound, Dock, Watches
  <2>2. CASE w.tab = t
    <3>1. Formed(ts[t], w) /\ Formed(tab, w) /\ w.before <= Len(tab.blocks)
      BY <2>1, <2>2 DEF Sound, Formed
    <3>2. w.before + 1 \in DOMAIN ts[t].blocks
      BY <1>1, <2>1, <3>1 DEF Formed
    <3>3. w.of \in qs /\ w.of \notin ls => tab.blocks[w.before + 1].by = w.of
      BY <2>1, <2>2, <3>1, <3>2 DEF Sound
    <3>. QED  BY <1>2, <2>2, <3>1, <3>3 DEF Sound
  <2>3. CASE w.tab # t
    BY <1>2, <2>1, <2>3
  <2>. QED  BY <2>2, <2>3
<1>5. QuietLinesLead(ts2, ws, qs)
  BY <1>2 DEF QuietLinesLead, Dock
<1>6. QuietBlocksAreClaimed(ts2, ws, qs)
  BY <1>2, <1>3 DEF QuietBlocksAreClaimed, Dock
<1>7. PersonsBlocksAreFree(ts2, ws)
  BY <1>2, <1>3 DEF PersonsBlocksAreFree, Dock
<1>8. ClosedTabsAreEmpty(ts2) /\ CalmTabsAreUnwatched(ts2, ws, cs)
  BY <1>2 DEF ClosedTabsAreEmpty, CalmTabsAreUnwatched, Dock
<1>9. LinesAreExecuted(ts2, es)
  BY <1>2, <1>3 DEF LinesAreExecuted, Dock
<1>. QED  BY <1>2, <1>4, <1>5, <1>6, <1>7, <1>8, <1>9 DEF Dock

\* The block of a watch has closed.
Over(tab, w) == Formed(tab, w) /\ ~tab.blocks[w.before + 1].running

\* The polls stamp what every watch reaches, and keep the watches of open tabs whose
\* block has not closed. What is at its prompt then without a call's line is calm.
LEMMA Polled ==
    ASSUME NEW ts, NEW ws, NEW qs, NEW ls, NEW cs, NEW es, Dock(ts, ws, qs, ls, cs, es),
           NEW ts2 \in Seq(Tabs), DOMAIN ts2 = DOMAIN ts, Person \notin Calls,
           \A t \in DOMAIN ts :
             /\ ts2[t].open = ts[t].open /\ ts2[t].input = ts[t].input
             /\ Len(ts2[t].blocks) = Len(ts[t].blocks)
             /\ \A i \in DOMAIN ts[t].blocks :
                  /\ ts2[t].blocks[i].by = ts[t].blocks[i].by
                  /\ ts2[t].blocks[i].running = ts[t].blocks[i].running
                  /\ ts2[t].blocks[i].calm = ts[t].blocks[i].calm
                  /\ ts2[t].blocks[i].author =
                       IF \E w \in ws : w.tab = t /\ i > w.before THEN "agent"
                       ELSE ts[t].blocks[i].author,
           NEW ws2 \in SUBSET ws,
           \A w \in ws : w \in ws2 <=> ts[w.tab].open /\ ~Over(ts[w.tab], w),
           NEW cs2 \in SUBSET DOMAIN ts,
           \A t \in cs2 : /\ ts[t].open /\ Runs(ts[t]) = {}
                          /\ \A j \in DOMAIN ts[t].input : ts[t].input[j] \notin Calls,
           \A w \in ws2 : w.of \in ls => w.tab \notin cs2
    PROVE  Dock(ts2, ws2, qs, ls, cs2, es)
<1>1. \A t \in DOMAIN ts :
        /\ ts2[t].open = ts[t].open /\ ts2[t].input = ts[t].input
        /\ Len(ts2[t].blocks) = Len(ts[t].blocks)
        /\ DOMAIN ts2[t].blocks = DOMAIN ts[t].blocks /\ DOMAIN ts[t].blocks \subseteq Nat
        /\ Runs(ts2[t]) = Runs(ts[t])
        /\ ts[t].blocks \in Seq(Blocks)
  <2>. SUFFICES ASSUME NEW t \in DOMAIN ts
       PROVE  /\ DOMAIN ts2[t].blocks = DOMAIN ts[t].blocks /\ DOMAIN ts[t].blocks \subseteq Nat
              /\ Runs(ts2[t]) = Runs(ts[t]) /\ ts[t].blocks \in Seq(Blocks)
    OBVIOUS
  <2>1. ts[t].blocks \in Seq(Blocks) /\ ts2[t].blocks \in Seq(Blocks)
    BY TabsHave DEF Dock
  <2>2. DOMAIN ts2[t].blocks = DOMAIN ts[t].blocks /\ DOMAIN ts[t].blocks \subseteq Nat
    BY <2>1
  <2>. QED  BY <2>1, <2>2 DEF Runs
<1>2. \A t \in DOMAIN ts : \A i \in DOMAIN ts[t].blocks :
        /\ ts2[t].blocks[i].by = ts[t].blocks[i].by
        /\ ts2[t].blocks[i].calm = ts[t].blocks[i].calm
        /\ (\E w \in ws : w.tab = t /\ i > w.before) => ts2[t].blocks[i].author = "agent"
        /\ (\A w \in ws : w.tab = t => ~(i > w.before)) =>
             ts2[t].blocks[i].author = ts[t].blocks[i].author
        /\ ts[t].blocks[i].author = "agent" => ts2[t].blocks[i].author = "agent"
  OBVIOUS
<1>3. \A w \in ws : w.before \in Nat
  BY DEF Dock, Watches
<1>4. WatchesAreSound(ts2, ws2, qs, ls)
  <2>. SUFFICES ASSUME NEW w \in ws2 PROVE w.tab \in DOMAIN ts2 /\ Sound(ts2[w.tab], w, qs, ls)
    BY DEF WatchesAreSound
  <2>1. w.tab \in DOMAIN ts /\ Sound(ts[w.tab], w, qs, ls) /\ w.before \in Nat
    BY <1>3 DEF WatchesAreSound, Dock
  <2>2. Formed(ts2[w.tab], w) <=> Formed(ts[w.tab], w)
    BY <1>1, <2>1 DEF Formed
  <2>3. Formed(ts[w.tab], w) => w.before + 1 \in DOMAIN ts[w.tab].blocks
    BY <1>1, <2>1 DEF Formed
  <2>. QED  BY <1>1, <1>2, <2>1, <2>2, <2>3 DEF Sound
<1>5. QuietLinesLead(ts2, ws2, qs)
  <2>. SUFFICES ASSUME NEW t \in DOMAIN ts, NEW j \in DOMAIN ts[t].input, ts[t].input[j] \in qs
       PROVE  /\ j = 1 /\ Runs(ts2[t]) = {}
              /\ \E w \in ws2 : /\ w.of = ts[t].input[j] /\ w.tab = t
                                /\ w.before = Len(ts2[t].blocks)
    BY <1>1 DEF QuietLinesLead
  <2>1. PICK w \in ws : w.of = ts[t].input[j] /\ w.tab = t /\ w.before = Len(ts[t].blocks)
    BY DEF QuietLinesLead, Dock
  <2>2. j = 1 /\ Runs(ts[t]) = {} /\ ts[t].open
    BY DEF QuietLinesLead, ClosedTabsAreEmpty, Dock
  <2>3. ~Over(ts[t], w)
    BY <1>3, <2>1 DEF Over, Formed
  <2>. QED  BY <1>1, <2>1, <2>2, <2>3
<1>6. QuietBlocksAreClaimed(ts2, ws2, qs)
  <2>. SUFFICES ASSUME NEW t \in DOMAIN ts, NEW i \in DOMAIN ts[t].blocks,
                       ts[t].blocks[i].by \in qs
       PROVE  ts2[t].blocks[i].author = "agent"
    BY <1>1, <1>2 DEF QuietBlocksAreClaimed
  <2>1. \/ ts[t].blocks[i].author = "agent"
        \/ \E w \in ws : w.tab = t /\ w.before < i
    BY DEF QuietBlocksAreClaimed, Dock
  <2>2. (\E w \in ws : w.tab = t /\ w.before < i) => \E w \in ws : w.tab = t /\ i > w.before
    BY <1>1, <1>3
  <2>. QED  BY <1>2, <2>1, <2>2
<1>7. PersonsBlocksAreFree(ts2, ws2)
  <2>. SUFFICES ASSUME NEW t \in DOMAIN ts, NEW i \in DOMAIN ts[t].blocks,
                       ts[t].blocks[i].by = Person, ts[t].blocks[i].calm
       PROVE  /\ ts2[t].blocks[i].author = "human"
              /\ \A w \in ws2 : w.tab = t => i <= w.before
    <3>1. \A t \in DOMAIN ts2 : \A i \in DOMAIN ts2[t].blocks :
            /\ t \in DOMAIN ts /\ i \in DOMAIN ts[t].blocks
            /\ ts2[t].blocks[i].by = ts[t].blocks[i].by
            /\ ts2[t].blocks[i].calm = ts[t].blocks[i].calm
      BY <1>1, <1>2
    <3>2. SUFFICES ASSUME NEW t \in DOMAIN ts2, NEW i \in DOMAIN ts2[t].blocks,
                          ts2[t].blocks[i].by = Person, ts2[t].blocks[i].calm
          PROVE  /\ ts2[t].blocks[i].author = "human"
                 /\ \A w \in ws2 : w.tab = t => i <= w.before
      BY DEF PersonsBlocksAreFree
    <3>. QED  BY <3>1, <3>2
  <2>1. ts[t].blocks[i].author = "human" /\ \A w \in ws : w.tab = t => i <= w.before
    BY DEF PersonsBlocksAreFree, Dock
  <2>2. \A w \in ws : w.tab = t => ~(i > w.before)
    BY <1>1, <1>3, <2>1
  <2>. QED  BY <1>2, <2>1, <2>2
<1>8. CalmTabsAreUnwatched(ts2, ws2, cs2)
  <2>. SUFFICES ASSUME NEW w \in ws2, w.tab \in cs2 PROVE FALSE
    BY DEF CalmTabsAreUnwatched
  <2>1. w.of \in Calls /\ Sound(ts[w.tab], w, qs, ls) /\ w.before \in Nat
    BY <1>3 DEF WatchesAreSound, Dock, Watches
  <2>2. ts[w.tab].open /\ Runs(ts[w.tab]) = {} /\ ~Over(ts[w.tab], w)
    OBVIOUS
  <2>3. CASE Formed(ts[w.tab], w)
    <3>1. w.before + 1 \in DOMAIN ts[w.tab].blocks
      BY <1>1, <2>1, <2>3 DEF Formed
    <3>. QED  BY <2>2, <2>3, <3>1 DEF Over, Runs
  <2>4. CASE ~Formed(ts[w.tab], w)
    BY <2>1, <2>2, <2>4 DEF Sound
  <2>. QED  BY <2>3, <2>4
<1>9. ClosedTabsAreEmpty(ts2)
  <2>1. \A t \in DOMAIN ts : ts[t].blocks = <<>> => ts2[t].blocks = <<>>
    <3>. SUFFICES ASSUME NEW t \in DOMAIN ts, ts[t].blocks = <<>> PROVE ts2[t].blocks = <<>>
      OBVIOUS
    <3>1. ts2[t].blocks \in Seq(Blocks) /\ Len(ts2[t].blocks) = 0
      BY TabsHave
    <3>. QED  BY <3>1
  <2>. QED  BY <1>1, <2>1 DEF ClosedTabsAreEmpty, Dock
<1>10. LinesAreExecuted(ts2, es)
  <2>1. \A t \in DOMAIN ts : \A j \in DOMAIN ts2[t].input : ts2[t].input[j] \in es \cup {Person}
    BY <1>1 DEF LinesAreExecuted, Dock
  <2>2. \A t \in DOMAIN ts : \A i \in DOMAIN ts2[t].blocks :
          ts2[t].blocks[i].by \in es \cup {Person}
    <3>1. \A t \in DOMAIN ts : \A i \in DOMAIN ts[t].blocks :
            ts[t].blocks[i].by \in es \cup {Person}
      BY DEF LinesAreExecuted, Dock
    <3>. QED  BY <1>1, <1>2, <3>1
  <2>. QED  BY <2>1, <2>2 DEF LinesAreExecuted
<1>. QED  BY <1>4, <1>5, <1>6, <1>7, <1>8, <1>9, <1>10 DEF Dock

\* What stamping changes: the author of the blocks within a watch's reach, nothing else.
LEMMA StampedDoes ==
    ASSUME tabs \in Seq(Tabs), NEW ws
    PROVE  /\ Stamped(ws) \in Seq(Tabs) /\ DOMAIN Stamped(ws) = DOMAIN tabs
           /\ \A t \in DOMAIN tabs :
                /\ Stamped(ws)[t].open = tabs[t].open /\ Stamped(ws)[t].input = tabs[t].input
                /\ Stamped(ws)[t].owner = tabs[t].owner
                /\ Len(Stamped(ws)[t].blocks) = Len(tabs[t].blocks)
                /\ \A i \in DOMAIN tabs[t].blocks :
                     /\ Stamped(ws)[t].blocks[i].by = tabs[t].blocks[i].by
                     /\ Stamped(ws)[t].blocks[i].running = tabs[t].blocks[i].running
                     /\ Stamped(ws)[t].blocks[i].calm = tabs[t].blocks[i].calm
                     /\ Stamped(ws)[t].blocks[i].author =
                          IF \E w \in ws : w.tab = t /\ i > w.before THEN "agent"
                          ELSE tabs[t].blocks[i].author
<1>. DEFINE bs(t) == [i \in DOMAIN tabs[t].blocks |->
                        IF \E w \in ws : w.tab = t /\ i > w.before
                        THEN [tabs[t].blocks[i] EXCEPT !.author = "agent"]
                        ELSE tabs[t].blocks[i]]
            tab(t) == [tabs[t] EXCEPT !.blocks = bs(t)]
<1>1. Stamped(ws) = [t \in TabIds |-> tab(t)]
  BY DEF Stamped
<1>2. ASSUME NEW t \in DOMAIN tabs
      PROVE  /\ bs(t) \in Seq(Blocks) /\ Len(bs(t)) = Len(tabs[t].blocks)
             /\ \A i \in DOMAIN tabs[t].blocks :
                  /\ bs(t)[i].by = tabs[t].blocks[i].by
                  /\ bs(t)[i].running = tabs[t].blocks[i].running
                  /\ bs(t)[i].calm = tabs[t].blocks[i].calm
                  /\ bs(t)[i].author =
                       IF \E w \in ws : w.tab = t /\ i > w.before THEN "agent"
                       ELSE tabs[t].blocks[i].author
  <2>1. PICK old \in Seq(Blocks) : old = tabs[t].blocks
    BY TabsHave
  <2>2. \A i \in DOMAIN old :
          /\ bs(t)[i] \in Blocks
          /\ bs(t)[i].by = old[i].by /\ bs(t)[i].running = old[i].running
          /\ bs(t)[i].calm = old[i].calm
          /\ bs(t)[i].author = IF \E w \in ws : w.tab = t /\ i > w.before THEN "agent"
                               ELSE old[i].author
    <3>. SUFFICES ASSUME NEW i \in DOMAIN old
         PROVE  /\ bs(t)[i] \in Blocks
                /\ bs(t)[i].by = old[i].by /\ bs(t)[i].running = old[i].running
                /\ bs(t)[i].calm = old[i].calm
                /\ bs(t)[i].author = IF \E w \in ws : w.tab = t /\ i > w.before THEN "agent"
                                     ELSE old[i].author
      OBVIOUS
    <3>1. old[i] \in Blocks
      OBVIOUS
    <3>2. bs(t)[i] = IF \E w \in ws : w.tab = t /\ i > w.before
                     THEN [old[i] EXCEPT !.author = "agent"] ELSE old[i]
      BY <2>1
    <3>. HIDE DEF bs
    <3>. QED  BY <3>1, <3>2 DEF Blocks
  <2>3. DOMAIN bs(t) = 1 .. Len(old) /\ bs(t) = [i \in 1 .. Len(old) |-> bs(t)[i]]
    BY <2>1
  <2>. HIDE DEF bs
  <2>4. PICK g : g = bs(t)
    OBVIOUS
  <2>5. g \in [1 .. Len(old) -> Blocks]
    <3>1. \A i \in 1 .. Len(old) : g[i] \in Blocks
      BY <2>1, <2>2, <2>4
    <3>2. g = [i \in 1 .. Len(old) |-> g[i]]
      BY <2>3, <2>4
    <3>. QED  BY <3>1, <3>2
  <2>6. bs(t) \in Seq(Blocks) /\ Len(bs(t)) = Len(old)
    BY <2>1, <2>4, <2>5
  <2>. QED  BY <2>1, <2>2, <2>6
<1>. HIDE DEF bs
<1>3. ASSUME NEW t \in DOMAIN tabs
      PROVE  /\ tab(t) \in Tabs /\ tab(t).open = tabs[t].open /\ tab(t).input = tabs[t].input
             /\ tab(t).owner = tabs[t].owner /\ tab(t).blocks = bs(t)
  <2>1. tabs[t] \in Tabs
    BY TabsHave
  <2>. QED  BY <1>2, <2>1 DEF Tabs
<1>. HIDE DEF tab
<1>4. TabIds = 1 .. Len(tabs) /\ DOMAIN tabs = 1 .. Len(tabs)
  BY DEF TabIds
<1>5. /\ Stamped(ws) \in Seq(Tabs) /\ DOMAIN Stamped(ws) = DOMAIN tabs
      /\ \A t \in DOMAIN tabs : Stamped(ws)[t] = tab(t)
  <2>1. PICK g : g = Stamped(ws)
    OBVIOUS
  <2>2. g \in [1 .. Len(tabs) -> Tabs] /\ \A t \in DOMAIN tabs : g[t] = tab(t)
    BY <1>1, <1>3, <1>4, <2>1
  <2>3. Len(tabs) \in Nat
    OBVIOUS
  <2>. QED  BY <1>4, <2>1, <2>2, <2>3
<1>6. ASSUME NEW t \in DOMAIN tabs
      PROVE  /\ Stamped(ws)[t].open = tabs[t].open /\ Stamped(ws)[t].input = tabs[t].input
             /\ Stamped(ws)[t].owner = tabs[t].owner /\ Stamped(ws)[t].blocks = bs(t)
  BY <1>3, <1>5
<1>7. ASSUME NEW t \in DOMAIN tabs
      PROVE  /\ Len(Stamped(ws)[t].blocks) = Len(tabs[t].blocks)
             /\ \A i \in DOMAIN tabs[t].blocks :
                  /\ Stamped(ws)[t].blocks[i].by = tabs[t].blocks[i].by
                  /\ Stamped(ws)[t].blocks[i].running = tabs[t].blocks[i].running
                  /\ Stamped(ws)[t].blocks[i].calm = tabs[t].blocks[i].calm
                  /\ Stamped(ws)[t].blocks[i].author =
                       IF \E w \in ws : w.tab = t /\ i > w.before THEN "agent"
                       ELSE tabs[t].blocks[i].author
  <2>1. Stamped(ws)[t].blocks = bs(t)
    BY <1>6
  <2>2. PICK b : b = bs(t)
    OBVIOUS
  <2>3. /\ Len(b) = Len(tabs[t].blocks)
        /\ \A i \in DOMAIN tabs[t].blocks :
             /\ b[i].by = tabs[t].blocks[i].by
             /\ b[i].running = tabs[t].blocks[i].running
             /\ b[i].calm = tabs[t].blocks[i].calm
             /\ b[i].author = IF \E w \in ws : w.tab = t /\ i > w.before THEN "agent"
                              ELSE tabs[t].blocks[i].author
    BY <1>2, <2>2
  <2>4. Stamped(ws)[t].blocks = b
    BY <2>1, <2>2
  <2>. QED  BY <2>3, <2>4
<1>. QED  BY <1>5, <1>6, <1>7

-----------------------------------------------------------------------------

(* The actions *)

USE DEF callVars, waitVars, historyVars, serviceVars

\* The dock of a state that satisfies the invariant, and the model's words for it.
LEMMA TabsAreDomain ==
    ASSUME IInv
    PROVE  /\ tabs \in Seq(Tabs) /\ TabIds = DOMAIN tabs
           /\ Dock(tabs, Watching, quiet, lost, calm, Executed)
           /\ \A t \in DOMAIN tabs : Running(t) = Runs(tabs[t])
           /\ \A t : Open(t) <=> t \in DOMAIN tabs /\ tabs[t].open
BY DEF IInv, Dock, TabIds, Running, Runs, Open

\* A step that answers nobody keeps the invariant if it keeps the dock in order.
LEMMA TabsMove ==
    ASSUME IInv,
           UNCHANGED <<call, asked, queue, batch, answer, ui, pending, marks, quiet, reached>>,
           due' \subseteq Calls, lost' \subseteq Calls, lost \subseteq lost',
           active' = 0 \/ Open(active)', Dock(tabs', Watching, quiet, lost', calm', Executed)
    PROVE  IInv'
<1>. USE DEF IInv
<1>1. WellTyped'
  BY DEF WellTyped
<1>2. JobsAreOnce' /\ WaitsAreWatched'
  BY DEF JobsAreOnce, WaitsAreWatched, Watching
<1>3. OneAnswerOfItsOwn'
  BY DEF OneAnswerOfItsOwn, OneReply, AnswerIsItsOwn
<1>4. Dock(tabs, Watching, quiet, lost, calm, Executed)'
  <2>1. Watching' = Watching /\ quiet' = quiet /\ Executed' = Executed
    BY DEF Watching, Executed
  <2>. QED  BY <2>1
<1>. QED  BY <1>1, <1>2, <1>3, <1>4

\* A call is queued once, behind the others.
LEMMA AskKeeps == ASSUME IInv, NEW c \in Calls, NEW r \in Requests, Ask(c, r) PROVE IInv'
<1>. USE DEF IInv
<1>1. /\ UNCHANGED <<batch, ui, tabs, active, pending, marks, due, acts, answer, historyVars>>
      /\ call[c] = "unsent" /\ call' = [call EXCEPT ![c] = "queued"]
      /\ asked' = [asked EXCEPT ![c] = r] /\ queue' = Append(queue, c)
  BY DEF Ask
<1>2. WellTyped'
  BY <1>1 DEF WellTyped, Open, TabIds
<1>3. /\ call'[c] = "queued" /\ asked'[c] = r
      /\ \A d \in Calls : d # c => call'[d] = call[d] /\ asked'[d] = asked[d]
  BY <1>1 DEF WellTyped
<1>4. JobsAreOnce'
  <2>1. queue \in Seq(Calls) /\ \A i \in DOMAIN queue : queue[i] # c
    BY <1>1 DEF WellTyped, JobsAreOnce
  <2>2. /\ \A i \in DOMAIN queue : i \in DOMAIN queue' /\ queue'[i] = queue[i]
        /\ \A i \in DOMAIN queue' : i \in DOMAIN queue \/ (i = Len(queue) + 1 /\ queue'[i] = c)
        /\ Len(queue) + 1 \in DOMAIN queue' /\ queue'[Len(queue) + 1] = c
    BY <1>1, <2>1
  <2>3. Once(queue')
    BY <2>1, <2>2 DEF Once, JobsAreOnce
  <2>4. \A d \in Calls : call'[d] = "queued" <=> \E i \in DOMAIN queue' : queue'[i] = d
    BY <1>3, <2>2 DEF JobsAreOnce
  <2>5. \A d \in Calls : call'[d] = "taken" <=> call[d] = "taken"
    BY <1>1, <1>3
  <2>. QED  BY <1>1, <1>3, <2>3, <2>4, <2>5 DEF JobsAreOnce, Once
<1>5. WaitsAreWatched'
  BY <1>1, <1>3 DEF WaitsAreWatched, Watching, WellTyped, Watches
<1>6. OneAnswerOfItsOwn'
  BY <1>1, <1>3 DEF OneAnswerOfItsOwn, OneReply, AnswerIsItsOwn
<1>7. Dock(tabs, Watching, quiet, lost, calm, Executed)'
  <2>1. Executed' = Executed
    BY <1>1, <1>3 DEF Executed
  <2>. QED  BY <1>1, <2>1 DEF Watching
<1>. QED  BY <1>2, <1>4, <1>5, <1>6, <1>7

\* The pass takes the whole queue, and had nothing in hand.
LEMMA StartPassKeeps == ASSUME IInv, StartPass PROVE IInv'
<1>. USE DEF IInv
<1>1. /\ UNCHANGED <<asked, tabs, active, pending, marks, due, acts, answer, historyVars>>
      /\ ui = "idle" /\ ui' = "jobs" /\ batch' = queue /\ queue' = <<>>
      /\ call' = [c \in Calls |-> IF c \in Range(queue) THEN "taken" ELSE call[c]]
  BY DEF StartPass
<1>2. \A c \in Calls : /\ call[c] = "queued" => call'[c] = "taken"
                       /\ call[c] # "queued" => call'[c] = call[c]
  BY <1>1 DEF JobsAreOnce, Range
<1>3. batch = <<>> /\ \A c \in Calls : call[c] # "taken"
  BY <1>1 DEF JobsAreOnce
<1>4. WellTyped'
  <2>1. call' \in [Calls -> {"unsent", "queued", "taken", "waiting", "answered"}]
    BY <1>1 DEF WellTyped
  <2>. QED  BY <1>1, <2>1 DEF WellTyped, Open, TabIds
<1>5. JobsAreOnce'
  BY <1>1, <1>2, <1>3 DEF JobsAreOnce, Once
<1>6. WaitsAreWatched'
  BY <1>1, <1>2 DEF WaitsAreWatched, Watching, WellTyped, Watches
<1>7. OneAnswerOfItsOwn'
  BY <1>1, <1>2 DEF OneAnswerOfItsOwn, OneReply, AnswerIsItsOwn
<1>8. Dock(tabs, Watching, quiet, lost, calm, Executed)'
  <2>1. Executed' = Executed
    BY <1>2 DEF Executed
  <2>. QED  BY <1>1, <2>1 DEF Watching
<1>. QED  BY <1>4, <1>5, <1>6, <1>7, <1>8

\* A deadline that passes changes no tab.
LEMMA DeadlineKeeps == ASSUME IInv, NEW c \in Calls, DeadlinePasses(c) PROVE IInv'
<1>1. /\ UNCHANGED <<call, asked, queue, batch, ui, tabs, active, pending, marks, answer,
                     historyVars>>
      /\ due' = due \cup {c}
  BY DEF DeadlinePasses
<1>2. due' \subseteq Calls /\ lost' \subseteq Calls /\ (active' = 0 \/ Open(active)')
  BY <1>1 DEF IInv, WellTyped, Open, TabIds
<1>. QED  BY <1>1, <1>2, TabsAreDomain, TabsMove

\* A tab replaced by an open one leaves every open tab open.
LEMMA StaysActive ==
    ASSUME IInv, NEW t \in DOMAIN tabs, NEW tab \in Tabs, tab.open,
           tabs' = [tabs EXCEPT ![t] = tab]
    PROVE  \A u : Open(u) => Open(u)'
<1>1. /\ tabs \in Seq(Tabs) /\ \A u : Open(u) <=> u \in DOMAIN tabs /\ tabs[u].open
  BY TabsAreDomain
<1>2. /\ tabs' \in Seq(Tabs) /\ DOMAIN tabs' = DOMAIN tabs /\ tabs'[t] = tab
      /\ \A u \in DOMAIN tabs : u # t => tabs'[u] = tabs[u]
  BY <1>1, TabReplaced
<1>3. TabIds' = DOMAIN tabs'
  BY <1>2 DEF TabIds
<1>. QED  BY <1>1, <1>2, <1>3 DEF Open

\* The active tab too.
LEMMA ActiveStays ==
    ASSUME IInv, NEW t \in DOMAIN tabs, NEW tab \in Tabs, tab.open,
           tabs' = [tabs EXCEPT ![t] = tab], active' = active
    PROVE  active' = 0 \/ Open(active)'
<1>1. active = 0 \/ Open(active)
  BY DEF IInv, WellTyped
<1>2. PICK a : a = active
  OBVIOUS
<1>3. Open(a) => Open(a)'
  BY StaysActive
<1>. QED  BY <1>1, <1>2, <1>3 DEF Open, TabIds

\* The shell reads a line.
LEMMA ShellReadsKeeps == ASSUME IInv, NEW t \in TabIds, ShellReads(t) PROVE IInv'
<1>1. /\ tabs \in Seq(Tabs) /\ Dock(tabs, Watching, quiet, lost, calm, Executed)
      /\ t \in DOMAIN tabs /\ tabs[t].open /\ Runs(tabs[t]) = {} /\ tabs[t].input # <<>>
  BY TabsAreDomain DEF ShellReads, AtPrompt
<1>2. UNCHANGED <<call, asked, queue, batch, answer, ui, pending, marks, due, quiet, lost, calm,
                  reached, active>>
  BY DEF ShellReads
<1>4. tabs' = Taken(tabs, t, calm)
  BY DEF ShellReads, Taken
<1>5. PICK tab \in Tabs, block \in Blocks :
        tabs' = [tabs EXCEPT ![t] = tab] /\ Reads(tabs, t, calm, tab, block)
  BY <1>1, <1>4, ShellTakes
<1>6. Dock(tabs', Watching, quiet, lost, calm, Executed)
  BY <1>1, <1>5, LineRead DEF Reads
<1>7. active' = 0 \/ Open(active)'
  BY <1>1, <1>2, <1>5, ActiveStays DEF Reads
<1>8. due' \subseteq Calls /\ lost' \subseteq Calls
  BY <1>2 DEF IInv, WellTyped
<1>. QED  BY <1>2, <1>6, <1>7, <1>8, TabsMove

\* The tab whose first line went.
LEMMA FirstLost ==
    ASSUME NEW ts, NEW ws, NEW qs, NEW ls, NEW cs, NEW es, Dock(ts, ws, qs, ls, cs, es),
           NEW t \in DOMAIN ts, ts[t].input # <<>>,
           NEW ls2, ls \cup ({Head(ts[t].input)} \cap Calls) \subseteq ls2,
           NEW tab, tab.open = ts[t].open, tab.blocks = ts[t].blocks,
           tab.input = Tail(ts[t].input)
    PROVE  Loses(tab, ts[t], qs, ls2)
<1>1. PICK old \in Seq(Lines) : old = ts[t].input
  BY TabsHave DEF Dock
<1>2. PICK rest \in Seq(Lines) : rest = Tail(old) /\ rest = tab.input
  BY <1>1, Shortened
<1>3. /\ \A j \in DOMAIN rest : j + 1 \in DOMAIN old /\ rest[j] = old[j + 1] /\ j + 1 # 1
      /\ \A k \in DOMAIN old : k # 1 => k - 1 \in DOMAIN rest /\ rest[k - 1] = old[k]
      /\ Head(old) = old[1]
  BY <1>1, <1>2
<1>4. \A k \in DOMAIN old : old[k] \in qs => k = 1
  BY <1>1 DEF QuietLinesLead, Dock
<1>5. \A j \in DOMAIN rest : rest[j] \notin qs /\ \E k \in DOMAIN old : rest[j] = old[k]
  BY <1>3, <1>4
<1>6. \A k \in DOMAIN old : \/ old[k] \notin Calls \/ old[k] \in ls2
                            \/ \E j \in DOMAIN rest : rest[j] = old[k]
  <2>1. old[1] \notin Calls \/ old[1] \in ls2
    BY <1>1, <1>3
  <2>. QED  BY <1>3, <2>1
<1>. QED  BY <1>1, <1>2, <1>5, <1>6 DEF Loses

\* The shell has no block for a line.
LEMMA ShellDiscardsKeeps == ASSUME IInv, NEW t \in TabIds, ShellDiscards(t) PROVE IInv'
<1>1. /\ tabs \in Seq(Tabs) /\ Dock(tabs, Watching, quiet, lost, calm, Executed)
      /\ t \in DOMAIN tabs /\ tabs[t].open /\ tabs[t].input # <<>>
  BY TabsAreDomain DEF ShellDiscards, AtPrompt
<1>2. /\ UNCHANGED <<call, asked, queue, batch, answer, ui, pending, marks, due, quiet, calm,
                     reached, active>>
      /\ lost' = lost \cup ({Head(tabs[t].input)} \cap Calls)
      /\ tabs' = Dropped(tabs, t)
  BY DEF ShellDiscards, Dropped
<1>3. PICK tab \in Tabs : /\ tabs' = [tabs EXCEPT ![t] = tab]
                          /\ tab.open = tabs[t].open /\ tab.blocks = tabs[t].blocks
                          /\ tab.input = Tail(tabs[t].input)
  <2>1. PICK tab \in Tabs : /\ Dropped(tabs, t) = [tabs EXCEPT ![t] = tab]
                            /\ Drops(tab, tabs[t]) /\ tab.input = Tail(tabs[t].input)
    BY <1>1, InputDrops
  <2>. QED  BY <1>2, <2>1 DEF Drops
<1>4. Dock(tabs', Watching, quiet, lost', calm, Executed)
  <2>1. Executed \in SUBSET Calls /\ calm \in SUBSET calm /\ lost \subseteq lost'
    BY <1>2 DEF Executed
  <2>2. Loses(tab, tabs[t], quiet, lost')
    BY <1>1, <1>2, <1>3, FirstLost
  <2>. QED  BY <1>1, <1>3, <2>1, <2>2, LinesLost
<1>5. active' = 0 \/ Open(active)'
  BY <1>1, <1>2, <1>3, ActiveStays
<1>6. due' \subseteq Calls /\ lost' \subseteq Calls /\ lost \subseteq lost'
  BY <1>2 DEF IInv, WellTyped
<1>. QED  BY <1>2, <1>4, <1>5, <1>6, TabsMove

\* A ctrl-C: the tab has no line left, and those of calls are lost.
LEMMA InterruptDoes ==
    ASSUME IInv, NEW t, Open(t), Interrupt(t),
           NEW es2 \in SUBSET Calls, Executed \subseteq es2, NEW cs2 \in SUBSET calm
    PROVE  /\ Dock(tabs', Watching, quiet, lost', cs2, es2)
           /\ lost \subseteq lost' /\ lost' \subseteq Calls
           /\ active' = active => active' = 0 \/ Open(active)'
<1>1. /\ tabs \in Seq(Tabs) /\ Dock(tabs, Watching, quiet, lost, calm, Executed)
      /\ t \in DOMAIN tabs /\ tabs[t].open
  BY TabsAreDomain
<1>2. PICK old \in Tabs : old = tabs[t]
  BY <1>1, TabsHave
<1>3. PICK none \in Seq(Lines) : none = <<>> /\ DOMAIN none = {}
  <2>1. <<>> \in Seq(Lines) /\ DOMAIN <<>> = {}
    OBVIOUS
  <2>. QED  BY <2>1
<1>4. PICK tab \in Tabs : /\ tabs' = [tabs EXCEPT ![t] = tab]
                          /\ tab.open = old.open /\ tab.blocks = old.blocks
                          /\ tab.input = none
  <2>1. tabs' = [tabs EXCEPT ![t] = [tabs[t] EXCEPT !.input = none]]
    BY <1>3 DEF Interrupt
  <2>2. PICK new : new = [old EXCEPT !.input = none]
    OBVIOUS
  <2>3. /\ new \in Tabs /\ new.open = old.open /\ new.blocks = old.blocks
        /\ new.input = none
    BY <2>2 DEF Tabs
  <2>. QED  BY <1>2, <2>1, <2>2, <2>3
<1>5. lost' = lost \cup (Range(tabs[t].input) \cap Calls)
  BY DEF Interrupt
<1>6. lost \subseteq lost' /\ lost' \subseteq Calls
  BY <1>5 DEF IInv, WellTyped
<1>7. Loses(tab, tabs[t], quiet, lost')
  <2>1. DOMAIN tab.input = {} /\ tab.open = tabs[t].open /\ tab.blocks = tabs[t].blocks
    BY <1>2, <1>3, <1>4
  <2>2. \A k \in DOMAIN tabs[t].input :
          tabs[t].input[k] \notin Calls \/ tabs[t].input[k] \in lost'
    BY <1>5 DEF Range
  <2>. QED  BY <2>1, <2>2 DEF Loses
<1>8. Dock(tabs', Watching, quiet, lost', cs2, es2)
  BY <1>1, <1>4, <1>6, <1>7, LinesLost
<1>9. active' = active => active' = 0 \/ Open(active)'
  BY <1>1, <1>2, <1>4, ActiveStays
<1>. QED  BY <1>6, <1>8, <1>9

\* The person's ctrl-C.
LEMMA PersonInterruptsKeeps == ASSUME IInv, PersonInterrupts PROVE IInv'
<1>1. /\ UNCHANGED <<call, asked, queue, batch, answer, ui, pending, marks, due, quiet, calm,
                     reached, active>>
      /\ active # 0 /\ Interrupt(active)
  BY DEF PersonInterrupts
<1>2. Open(active)
  BY <1>1 DEF IInv, WellTyped
<1>3. Executed \in SUBSET Calls /\ calm \in SUBSET calm
  BY DEF Executed
<1>4. /\ Dock(tabs', Watching, quiet, lost', calm, Executed)
      /\ lost \subseteq lost' /\ lost' \subseteq Calls
      /\ active' = active => active' = 0 \/ Open(active)'
  BY <1>1, <1>2, <1>3, InterruptDoes
<1>5. due' \subseteq Calls
  BY <1>1 DEF IInv, WellTyped
<1>. QED  BY <1>1, <1>4, <1>5, TabsMove

\* A program reads a line.
LEMMA ProgramReadsKeeps == ASSUME IInv, NEW t \in TabIds, ProgramReads(t) PROVE IInv'
<1>1. /\ tabs \in Seq(Tabs) /\ Dock(tabs, Watching, quiet, lost, calm, Executed)
      /\ t \in DOMAIN tabs /\ tabs[t].open /\ Runs(tabs[t]) # {} /\ tabs[t].input # <<>>
  BY TabsAreDomain DEF ProgramReads
<1>2. UNCHANGED <<call, asked, queue, batch, answer, ui, pending, marks, due, quiet, lost, calm,
                  reached, active>>
  BY DEF ProgramReads
<1>3. tabs' = Dropped(tabs, t)
  BY DEF ProgramReads, Dropped
<1>4. PICK tab \in Tabs :
        /\ tabs' = [tabs EXCEPT ![t] = tab]
        /\ Drops(tab, tabs[t])
  BY <1>1, <1>3, InputDrops
<1>5. Dock(tabs', Watching, quiet, lost, calm, Executed)
  BY <1>1, <1>4, ProgramMoves DEF Drops
<1>6. active' = 0 \/ Open(active)'
  BY <1>1, <1>2, <1>4, ActiveStays DEF Drops
<1>7. due' \subseteq Calls /\ lost' \subseteq Calls
  BY <1>2 DEF IInv, WellTyped
<1>. QED  BY <1>2, <1>5, <1>6, <1>7, TabsMove

\* A block ends.
LEMMA BlockEndsKeeps == ASSUME IInv, NEW t \in TabIds, BlockEnds(t) PROVE IInv'
<1>1. /\ tabs \in Seq(Tabs) /\ Dock(tabs, Watching, quiet, lost, calm, Executed)
      /\ t \in DOMAIN tabs /\ tabs[t].open
  BY TabsAreDomain DEF BlockEnds
<1>2. UNCHANGED <<call, asked, queue, batch, answer, ui, pending, marks, due, quiet, lost, calm,
                  reached, active>>
  BY DEF BlockEnds
<1>3. PICK i \in Running(t) : tabs' = Ended(tabs, t, i)
  BY DEF BlockEnds, Ended
<1>4. i \in DOMAIN tabs[t].blocks /\ Runs(tabs[t]) # {}
  BY <1>1 DEF Running, Runs
<1>5. PICK tab \in Tabs :
        /\ tabs' = [tabs EXCEPT ![t] = tab]
        /\ Closes(tab, tabs[t])
  BY <1>1, <1>3, <1>4, BlockCloses
<1>6. Dock(tabs', Watching, quiet, lost, calm, Executed)
  BY <1>1, <1>4, <1>5, ProgramMoves DEF Closes
<1>7. active' = 0 \/ Open(active)'
  BY <1>1, <1>2, <1>5, ActiveStays DEF Closes
<1>8. due' \subseteq Calls /\ lost' \subseteq Calls
  BY <1>2 DEF IInv, WellTyped
<1>. QED  BY <1>2, <1>6, <1>7, <1>8, TabsMove

\* The person is no call, so no quiet one.
LEMMA PersonIsApart == ASSUME IInv PROVE Person \notin Calls /\ Person \notin quiet
BY NotACall DEF IInv, Dock

\* The person's line in an open tab.
LEMMA TypesKeeps ==
    ASSUME IInv, NEW t, Open(t), Types(t), UNCHANGED serviceVars
    PROVE  IInv'
<1>1. /\ tabs \in Seq(Tabs) /\ Dock(tabs, Watching, quiet, lost, calm, Executed)
      /\ t \in DOMAIN tabs /\ tabs[t].open
  BY TabsAreDomain
<1>2. UNCHANGED <<call, asked, queue, batch, answer, ui, pending, marks, due, quiet, lost, calm,
                  reached, active>>
  BY DEF Types
<1>3. tabs' = Typed(tabs, t, Person) /\ Person \in Lines
  BY DEF Types, Typed, Lines
<1>4. PICK tab \in Tabs :
        /\ tabs' = [tabs EXCEPT ![t] = tab]
        /\ Grows(tab, tabs[t], Person)
  BY <1>1, <1>3, InputGrows
<1>5. Dock(tabs', Watching, quiet, lost, calm, Executed)
  <2>1. Executed \in SUBSET Calls /\ calm \in SUBSET calm
    BY DEF Executed
  <2>. QED  BY <1>1, <1>4, <2>1, LineTyped, PersonIsApart DEF Grows
<1>6. active' = 0 \/ Open(active)'
  BY <1>1, <1>2, <1>4, ActiveStays DEF Grows
<1>7. due' \subseteq Calls /\ lost' \subseteq Calls
  BY <1>2 DEF IInv, WellTyped
<1>. QED  BY <1>2, <1>5, <1>6, <1>7, TabsMove

\* An appended open tab is open, and the others are as they were.
LEMMA NewTabIsOpen ==
    ASSUME tabs \in Seq(Tabs), NEW tab \in Tabs, tab.open, tabs' = Append(tabs, tab)
    PROVE  /\ Len(tabs) + 1 \in DOMAIN tabs' /\ Len(tabs) + 1 \notin DOMAIN tabs
           /\ tabs'[Len(tabs) + 1] = tab /\ tabs' \in Seq(Tabs)
           /\ \A u \in DOMAIN tabs : tabs'[u] = tabs[u]
           /\ \A n : n = Len(tabs) + 1 => Open(n)'
<1>1. /\ Len(tabs) + 1 \in DOMAIN tabs' /\ Len(tabs) + 1 \notin DOMAIN tabs
      /\ tabs'[Len(tabs) + 1] = tab /\ tabs' \in Seq(Tabs)
      /\ \A u \in DOMAIN tabs : tabs'[u] = tabs[u]
      /\ Len(tabs') = Len(tabs) + 1
  OBVIOUS
<1>2. Len(tabs) + 1 \in 1 .. Len(tabs')
  BY <1>1
<1>3. \A n : n \in 1 .. Len(tabs') /\ tabs'[n].open => Open(n)'
  BY DEF Open, TabIds
<1>. QED  BY <1>1, <1>2, <1>3

\* The person's new tab.
LEMMA OpensKeeps ==
    ASSUME IInv, NEW lines \in {<<>>, <<Person>>}, OpensWith(lines), UNCHANGED serviceVars
    PROVE  IInv'
<1>1. tabs \in Seq(Tabs) /\ Dock(tabs, Watching, quiet, lost, calm, Executed)
  BY TabsAreDomain
<1>2. UNCHANGED <<call, asked, queue, batch, answer, ui, pending, marks, due, quiet, lost, calm,
                  reached>>
  OBVIOUS
<1>3. lines \in Seq(Lines) /\ \A j \in DOMAIN lines : lines[j] = Person
  <2>1. Person \in Lines
    BY DEF Lines
  <2>2. CASE lines = <<>>
    BY <2>2
  <2>3. CASE lines = <<Person>>
    BY <2>1, <2>3
  <2>. QED  BY <2>2, <2>3
<1>4. PICK tab \in Tabs : /\ tabs' = Append(tabs, tab)
                          /\ tab.open /\ tab.blocks = <<>> /\ tab.input = lines
  BY <1>3, NewTabIs DEF OpensWith
<1>5. Dock(tabs', Watching, quiet, lost, calm, Executed)
  <2>1. Executed \in SUBSET Calls
    BY DEF Executed
  <2>. QED  BY <1>1, <1>3, <1>4, <2>1, TabAdded, PersonIsApart
<1>6. active' = 0 \/ Open(active)'
  <2>1. active' = Len(tabs) + 1
    BY DEF OpensWith
  <2>2. PICK n : n = Len(tabs) + 1
    OBVIOUS
  <2>3. Open(n)'
    BY <1>1, <1>4, <2>2, NewTabIsOpen
  <2>. QED  BY <2>1, <2>2, <2>3 DEF Open, TabIds
<1>7. due' \subseteq Calls /\ lost' \subseteq Calls
  BY <1>2 DEF IInv, WellTyped
<1>. QED  BY <1>2, <1>5, <1>6, <1>7, TabsMove

\* A line typed.
LEMMA PersonTypesKeeps == ASSUME IInv, NEW t \in TabIds, PersonTypes(t) PROVE IInv'
BY TypesKeeps DEF PersonTypes

\* A new tab.
LEMMA PersonOpensKeeps == ASSUME IInv, PersonOpens PROVE IInv'
BY OpensKeeps DEF PersonOpens

\* A block run again, in its tab or in a new one.
LEMMA PersonRerunsKeeps == ASSUME IInv, NEW t \in TabIds, PersonReruns(t) PROVE IInv'
BY TypesKeeps, OpensKeeps DEF PersonReruns

\* Another tab made active.
LEMMA PersonActivatesKeeps ==
    ASSUME IInv, NEW t \in TabIds, PersonActivates(t)
    PROVE  IInv'
<1>1. UNCHANGED <<call, asked, queue, batch, answer, ui, pending, marks, due, quiet, lost, calm,
                  reached, tabs>> /\ active' = t /\ Open(t)
  BY DEF PersonActivates
<1>2. due' \subseteq Calls /\ lost' \subseteq Calls /\ Open(active)'
  BY <1>1 DEF IInv, WellTyped, Open, TabIds
<1>3. Dock(tabs', Watching, quiet, lost, calm', Executed)
  BY <1>1, TabsAreDomain
<1>. QED  BY <1>1, <1>2, <1>3, TabsMove

\* host.close: the tab that becomes active in its place is an open one.
LEMMA ClosesKeeps ==
    ASSUME tabs \in Seq(Tabs), NEW t, Open(t), CloseTab(t), active = 0 \/ Open(active)
    PROVE  /\ \E tab \in Tabs : /\ tabs' = [tabs EXCEPT ![t] = tab]
                                /\ ~tab.open /\ tab.blocks = <<>> /\ tab.input = <<>>
           /\ t \in DOMAIN tabs /\ calm' = calm \ {t}
           /\ active' = 0 \/ Open(active)'
<1>1. /\ TabIds = DOMAIN tabs /\ t \in DOMAIN tabs /\ Len(tabs) \in Nat
      /\ DOMAIN tabs = 1 .. Len(tabs)
  BY DEF Open, TabIds
<1>2. PICK tab \in Tabs : /\ tabs' = [tabs EXCEPT ![t] = tab]
                          /\ ~tab.open /\ tab.blocks = <<>> /\ tab.input = <<>>
  <2>1. PICK o \in {"user", "agent"} : o = tabs[t].owner
    BY <1>1, TabsHave DEF Tabs
  <2>2. tabs' = [tabs EXCEPT ![t] = [NewTab(tabs[t].owner) EXCEPT !.open = FALSE]]
    BY DEF CloseTab
  <2>3. PICK tab \in Tabs : /\ tab = [NewTab(o) EXCEPT !.open = FALSE]
                            /\ ~tab.open /\ tab.blocks = <<>> /\ tab.input = <<>>
    <3>1. <<>> \in Seq(Lines)
      OBVIOUS
    <3>. QED  BY <3>1, NewTabIs
  <2>. QED  BY <2>1, <2>2, <2>3
<1>3. /\ tabs' \in Seq(Tabs) /\ DOMAIN tabs' = DOMAIN tabs
      /\ \A u \in DOMAIN tabs : u # t => tabs'[u] = tabs[u]
  BY <1>1, <1>2, TabReplaced
<1>4. TabIds' = DOMAIN tabs
  BY <1>3 DEF TabIds
<1>5. PICK left : left = {u \in TabIds : tabs[u].open} \ {t}
  OBVIOUS
<1>6. \/ active' = active /\ active # t
      \/ active' = 0
      \/ active' = Max(left) /\ left # {}
  BY <1>5 DEF CloseTab
<1>7. left # {} => Max(left) \in left
  BY <1>1, <1>5, MaxIn
<1>8. active' = 0 \/ (active' \in DOMAIN tabs /\ active' # t /\ tabs[active'].open)
  BY <1>1, <1>5, <1>6, <1>7 DEF Open
<1>9. active' = 0 \/ Open(active)'
  BY <1>3, <1>4, <1>8 DEF Open
<1>. QED  BY <1>1, <1>2, <1>9 DEF CloseTab

\* A tab closed by the person.
LEMMA PersonClosesKeeps == ASSUME IInv, NEW t \in TabIds, PersonCloses(t) PROVE IInv'
<1>1. tabs \in Seq(Tabs) /\ Dock(tabs, Watching, quiet, lost, calm, Executed)
  BY TabsAreDomain
<1>2. UNCHANGED <<call, asked, queue, batch, answer, ui, pending, marks, due, quiet, lost, reached>>
      /\ Open(t) /\ CloseTab(t)
  BY DEF PersonCloses
<1>3. /\ t \in DOMAIN tabs /\ calm' = calm \ {t} /\ (active' = 0 \/ Open(active)')
      /\ \E tab \in Tabs : /\ tabs' = [tabs EXCEPT ![t] = tab]
                           /\ ~tab.open /\ tab.blocks = <<>> /\ tab.input = <<>>
  BY <1>1, <1>2, ClosesKeeps DEF IInv, WellTyped
<1>4. Dock(tabs', Watching, quiet, lost, calm', Executed)
  <2>1. Executed \in SUBSET Calls
    BY DEF Executed
  <2>. QED  BY <1>1, <1>3, <2>1, TabClosed
<1>5. due' \subseteq Calls /\ lost' \subseteq Calls
  BY <1>2 DEF IInv, WellTyped
<1>. QED  BY <1>2, <1>3, <1>4, <1>5, TabsMove

\* The job in hand is c's: what every job of a pass has in common.
Job(c) ==
    /\ ui = "jobs" /\ batch # <<>> /\ c = Head(batch)
    /\ asked' = [asked EXCEPT ![c] = NoRequest] /\ batch' = Tail(batch)
    /\ UNCHANGED <<queue, ui, due>>

\* Its call is taken, not executed, not answered and not watched yet.
LEMMA JobIsTaken ==
    ASSUME IInv, NEW c, Job(c)
    PROVE  /\ c \in Calls /\ call[c] = "taken" /\ asked[c] \in Requests
           /\ c \notin Executed /\ c \notin quiet /\ answer[c] = <<>>
           /\ \A w \in Watching : w.of # c
<1>1. c = batch[1] /\ 1 \in DOMAIN batch /\ c \in Calls
  BY Shortened DEF Job, IInv, WellTyped
<1>2. call[c] = "taken" /\ asked[c] \in Requests
  BY <1>1 DEF IInv, JobsAreOnce
<1>3. c \notin Executed /\ c \notin quiet
  BY <1>2 DEF Executed, IInv, Dock
<1>4. answer[c] = <<>>
  <2>1. Len(answer[c]) = 0 /\ answer[c] \in Seq(Lines)
    BY <1>1, <1>2 DEF IInv, OneAnswerOfItsOwn, OneReply, WellTyped
  <2>. QED  BY <2>1
<1>5. \A w \in Watching : w.of # c
  BY <1>2 DEF IInv, WaitsAreWatched, Watching
<1>. QED  BY <1>1, <1>2, <1>3, <1>4, <1>5

\* A job keeps the invariant if it keeps the dock in order: it answers its call, or
\* lets it wait for its block, with its watch if it pasted a run.
LEMMA JobDone ==
    ASSUME IInv, NEW c, Job(c), NEW s \in {"waiting", "answered"},
           call' = [call EXCEPT ![c] = s],
           s = "answered" => answer' = [answer EXCEPT ![c] = Append(@, c)],
           s = "waiting" => answer' = answer,
           NEW new \in SUBSET Watches, \A w \in new : w.of = c, \A w, v \in new : w = v,
           s = "answered" => pending' = pending /\ marks' = marks \cup new,
           s = "waiting" => pending' = pending \cup new /\ marks' = marks,
           quiet' \subseteq quiet \cup {c}, lost' \subseteq Calls, lost \subseteq lost',
           reached' \subseteq Lines,
           active' = 0 \/ Open(active)',
           Dock(tabs', Watching \cup new, quiet', lost', calm', Executed \cup {c})
    PROVE  IInv'
<1>1. /\ c \in Calls /\ call[c] = "taken" /\ asked[c] \in Requests
      /\ c \notin Executed /\ c \notin quiet /\ answer[c] = <<>>
      /\ \A w \in Watching : w.of # c
  BY JobIsTaken
<1>2. /\ batch' = Tail(batch) /\ asked' = [asked EXCEPT ![c] = NoRequest]
      /\ UNCHANGED <<queue, ui, due>> /\ ui = "jobs" /\ batch # <<>> /\ c = Head(batch)
  BY DEF Job
<1>. USE DEF IInv
<1>3. call'[c] = s /\ \A d \in Calls : d # c => call'[d] = call[d] /\ asked'[d] = asked[d]
  BY <1>1, <1>2 DEF WellTyped
<1>4. /\ \A d \in Calls : d # c => answer'[d] = answer[d]
      /\ s = "waiting" => answer'[c] = <<>>
      /\ s = "answered" => answer'[c] = <<c>>
      /\ answer' \in [Calls -> Seq(Lines)]
  <2>1. Append(<<>>, c) = <<c>> /\ <<c>> \in Seq(Lines)
    BY <1>1 DEF Lines
  <2>2. PICK one \in Seq(Lines) : one = Append(answer[c], c) /\ one = <<c>>
    BY <1>1, <2>1
  <2>3. s = "answered" => answer' = [answer EXCEPT ![c] = one]
    BY <2>2
  <2>4. answer \in [Calls -> Seq(Lines)]
    BY DEF WellTyped
  <2>5. \/ s = "answered" /\ answer' = [answer EXCEPT ![c] = one]
        \/ s = "waiting" /\ answer' = answer
    BY <2>3
  <2>6. CASE s = "answered" /\ answer' = [answer EXCEPT ![c] = one]
    <3>1. /\ answer' \in [Calls -> Seq(Lines)] /\ answer'[c] = one
          /\ \A d \in Calls : d # c => answer'[d] = answer[d]
      BY <1>1, <2>4, <2>6
    <3>. QED  BY <2>2, <2>6, <3>1
  <2>7. CASE s = "waiting" /\ answer' = answer
    BY <1>1, <2>4, <2>7
  <2>. QED  BY <2>5, <2>6, <2>7
<1>5. WellTyped'
  <2>1. call' \in [Calls -> {"unsent", "queued", "taken", "waiting", "answered"}]
    BY DEF WellTyped
  <2>2. asked' \in [Calls -> Requests \cup {NoRequest}]
    BY <1>2 DEF WellTyped
  <2>3. batch' \in Seq(Calls) /\ queue' \in Seq(Calls)
    BY <1>2, Shortened DEF WellTyped
  <2>4. pending' \subseteq Watches /\ marks' \subseteq Watches
    BY DEF WellTyped
  <2>. QED  BY <1>2, <1>4, <2>1, <2>2, <2>3, <2>4 DEF WellTyped
<1>6. JobsAreOnce'
  <2>1. Once(batch') /\ \A x : (\E i \in DOMAIN batch' : batch'[i] = x)
                       <=> (\E i \in DOMAIN batch : batch[i] = x) /\ x # c
    <3>1. batch \in Seq(Calls) /\ Once(batch) /\ batch # <<>>
      BY <1>2 DEF WellTyped, JobsAreOnce
    <3>2. Once(Tail(batch)) /\ \A x : (\E i \in DOMAIN Tail(batch) : Tail(batch)[i] = x)
                       <=> (\E i \in DOMAIN batch : batch[i] = x) /\ x # Head(batch)
      BY <3>1, Shifted
    <3>. QED  BY <1>2, <3>2
  <2>2. \A d \in Calls : call'[d] = "taken" <=> \E i \in DOMAIN batch' : batch'[i] = d
    BY <1>3, <2>1 DEF JobsAreOnce
  <2>3. \A d \in Calls : call'[d] = "queued" <=> \E i \in DOMAIN queue' : queue'[i] = d
    BY <1>1, <1>2, <1>3 DEF JobsAreOnce
  <2>4. \A d \in Calls : call'[d] \in {"queued", "taken"} => asked'[d] \in Requests
    BY <1>3 DEF JobsAreOnce
  <2>. QED  BY <1>2, <2>1, <2>2, <2>3, <2>4 DEF JobsAreOnce
<1>7. Watching' = Watching \cup new
  BY DEF Watching
<1>8. WaitsAreWatched'
  <2>1. \A w \in pending' : call'[w.of] = "waiting"
    BY <1>1, <1>3 DEF WaitsAreWatched, Watching, WellTyped, Watches
  <2>2. \A w \in marks' : call'[w.of] = "answered"
    BY <1>1, <1>3 DEF WaitsAreWatched, Watching, WellTyped, Watches
  <2>3. \A w, v \in Watching' : w.of = v.of => w = v
    BY <1>1, <1>7 DEF WaitsAreWatched
  <2>. QED  BY <2>1, <2>2, <2>3 DEF WaitsAreWatched
<1>9. OneAnswerOfItsOwn'
  <2>1. Len(<<>>) = 0 /\ Len(<<c>>) = 1 /\ Range(<<>>) \subseteq {c} /\ Range(<<c>>) \subseteq {c}
    BY DEF Range
  <2>2. OneReply'
    BY <1>3, <1>4, <2>1 DEF OneAnswerOfItsOwn, OneReply
  <2>3. \A d \in Calls : d \in quiet' \ lost' => Range(answer'[d]) \subseteq {d}
    BY <1>4, <2>1 DEF OneAnswerOfItsOwn, AnswerIsItsOwn
  <2>4. quiet' \subseteq Calls
    BY <1>1 DEF Dock, Executed
  <2>. QED  BY <2>2, <2>3, <2>4 DEF OneAnswerOfItsOwn, AnswerIsItsOwn
<1>10. Executed' = Executed \cup {c}
  BY <1>1, <1>3 DEF Executed
<1>11. Dock(tabs, Watching, quiet, lost, calm, Executed)'
  BY <1>7, <1>10
<1>. QED  BY <1>5, <1>6, <1>8, <1>9, <1>11

\* The same for a job that answers at once.
LEMMA JobReplied ==
    ASSUME IInv, NEW c, Job(c), Reply(c),
           NEW new \in SUBSET Watches, \A w \in new : w.of = c, \A w, v \in new : w = v,
           pending' = pending, marks' = marks \cup new,
           quiet' \subseteq quiet \cup {c}, lost' \subseteq Calls, lost \subseteq lost',
           reached' \subseteq Lines,
           active' = 0 \/ Open(active)',
           Dock(tabs', Watching \cup new, quiet', lost', calm', Executed \cup {c})
    PROVE  IInv'
<1>1. PICK s \in {"waiting", "answered"} : s = "answered"
  OBVIOUS
<1>2. /\ call' = [call EXCEPT ![c] = s] /\ s # "waiting"
      /\ answer' = [answer EXCEPT ![c] = Append(@, c)]
  BY <1>1 DEF Reply
<1>. QED  BY <1>2, JobDone

\* The same for a run that waits for its block.
LEMMA JobWaits ==
    ASSUME IInv, NEW c, Job(c), call' = [call EXCEPT ![c] = "waiting"], answer' = answer,
           NEW new \in SUBSET Watches, \A w \in new : w.of = c, \A w, v \in new : w = v,
           pending' = pending \cup new, marks' = marks,
           quiet' \subseteq quiet \cup {c}, lost' \subseteq Calls, lost \subseteq lost',
           reached' \subseteq Lines,
           active' = 0 \/ Open(active)',
           Dock(tabs', Watching \cup new, quiet', lost', calm', Executed \cup {c})
    PROVE  IInv'
<1>1. PICK s \in {"waiting", "answered"} : s = "waiting"
  OBVIOUS
<1>2. call' = [call EXCEPT ![c] = s] /\ s # "answered"
  BY <1>1
<1>. QED  BY <1>2, JobDone

\* The same for a job that pastes no run.
LEMMA JobRepliedOnly ==
    ASSUME IInv, NEW c, Job(c), Reply(c), UNCHANGED <<pending, marks, quiet>>,
           lost' \subseteq Calls, lost \subseteq lost',
           reached' \subseteq Lines, active' = 0 \/ Open(active)',
           Dock(tabs', Watching, quiet, lost', calm', Executed \cup {c})
    PROVE  IInv'
<1>1. PICK new \in SUBSET Watches : new = {}
  OBVIOUS
<1>2. marks' = marks \cup new /\ Watching \cup new = Watching
  BY <1>1
<1>3. Dock(tabs', Watching \cup new, quiet', lost', calm', Executed \cup {c})
  BY <1>2
<1>. QED  BY <1>1, <1>2, <1>3, JobReplied

\* A refused call is answered, and that is all.
LEMMA RefuseKeeps == ASSUME IInv, NEW c, Job(c), Refuse(c) PROVE IInv'
<1>1. Reply(c) /\ UNCHANGED <<tabs, active, pending, marks, quiet, lost, calm, reached>>
  BY DEF Refuse
<1>2. Executed \cup {c} \in SUBSET Calls
  BY JobIsTaken DEF Executed
<1>3. Dock(tabs', Watching, quiet, lost, calm', Executed \cup {c})
  <2>1. Dock(tabs, Watching, quiet, lost, calm, Executed \cup {c})
    BY <1>2, TabsAreDomain, Wider
  <2>. QED  BY <1>1, <2>1
<1>4. reached' \subseteq Lines /\ lost' \subseteq Calls /\ (active' = 0 \/ Open(active)')
  BY <1>1 DEF IInv, WellTyped, Open, TabIds
<1>. QED  BY <1>1, <1>3, <1>4, JobRepliedOnly

\* A new empty tab keeps the dock in order.
LEMMA FreshTab ==
    ASSUME IInv, NEW tab \in Tabs, tab.open, tab.blocks = <<>>, tab.input = <<>>
    PROVE  Dock(Append(tabs, tab), Watching, quiet, lost, calm, Executed)
<1>1. Executed \in SUBSET Calls /\ \A j \in DOMAIN tab.input : tab.input[j] = Person
  BY DEF Executed
<1>2. Dock(tabs, Watching, quiet, lost, calm, Executed)
  BY TabsAreDomain
<1>. QED  BY <1>1, <1>2, TabAdded, PersonIsApart

\* terminal_open.
LEMMA OpenTabKeeps == ASSUME IInv, NEW c, Job(c), OpenTab(c) PROVE IInv'
<1>1. /\ tabs' = Append(tabs, NewTab("agent")) /\ active' = Len(tabs) + 1
      /\ Reply(c) /\ UNCHANGED <<pending, marks, quiet, lost, calm, reached>>
  BY DEF OpenTab
<1>2. PICK tab \in Tabs : /\ tabs' = Append(tabs, tab)
                          /\ tab.open /\ tab.blocks = <<>> /\ tab.input = <<>>
  BY <1>1, AgentsTab
<1>3. Executed \cup {c} \in SUBSET Calls
  BY JobIsTaken DEF Executed
<1>4. Dock(tabs', Watching, quiet, lost, calm', Executed \cup {c})
  <2>1. Dock(Append(tabs, tab), Watching, quiet, lost, calm, Executed)
    BY <1>2, FreshTab
  <2>2. Dock(Append(tabs, tab), Watching, quiet, lost, calm, Executed \cup {c})
    BY <1>3, <2>1, Wider
  <2>. QED  BY <1>1, <1>2, <2>2
<1>5. active' = 0 \/ Open(active)'
  <2>1. PICK n : n = Len(tabs) + 1
    OBVIOUS
  <2>2. Open(n)'
    BY <1>2, <2>1, NewTabIsOpen, TabsAreDomain
  <2>. QED  BY <1>1, <2>1, <2>2 DEF Open, TabIds
<1>6. reached' \subseteq Lines /\ lost' \subseteq Calls
  BY <1>1 DEF IInv, WellTyped
<1>. QED  BY <1>1, <1>4, <1>5, <1>6, JobRepliedOnly

\* terminal_close.
LEMMA CloseKeeps == ASSUME IInv, NEW c, Job(c), Close(c) PROVE IInv'
<1>1. PICK t : t = asked[c].tab
  OBVIOUS
<1>2. CASE Refuse(c)
  BY <1>2, RefuseKeeps
<1>3. CASE Open(t) /\ CloseTab(t) /\ Reply(c) /\ UNCHANGED <<pending, marks, quiet, lost, reached>>
  <2>1. tabs \in Seq(Tabs) /\ Dock(tabs, Watching, quiet, lost, calm, Executed)
    BY TabsAreDomain
  <2>2. /\ t \in DOMAIN tabs /\ calm' = calm \ {t} /\ (active' = 0 \/ Open(active)')
        /\ \E tab \in Tabs : /\ tabs' = [tabs EXCEPT ![t] = tab]
                             /\ ~tab.open /\ tab.blocks = <<>> /\ tab.input = <<>>
    BY <1>3, <2>1, ClosesKeeps DEF IInv, WellTyped
  <2>3. Dock(tabs', Watching, quiet, lost, calm', Executed \cup {c})
    <3>1. Executed \cup {c} \in SUBSET Calls
      BY JobIsTaken DEF Executed
    <3>. QED  BY <2>1, <2>2, <3>1, TabClosed
  <2>4. reached' \subseteq Lines /\ lost' \subseteq Calls
    BY <1>3 DEF IInv, WellTyped
  <2>. QED  BY <1>3, <2>2, <2>3, <2>4, JobRepliedOnly
<1>. QED  BY <1>1, <1>2, <1>3 DEF Close

\* The running block that Send asks about is one of the tab's, and its line a line.
LEMMA RunningIs ==
    ASSUME IInv, NEW t, Open(t), Busy(t)
    PROVE  /\ Min(Running(t)) \in DOMAIN tabs[t].blocks
           /\ tabs[t].blocks[Min(Running(t))].by \in Lines
<1>1. /\ t \in DOMAIN tabs /\ tabs \in Seq(Tabs) /\ Running(t) # {}
      /\ Running(t) \subseteq DOMAIN tabs[t].blocks
  BY TabsAreDomain DEF Busy, Running
<1>2. PICK bs \in Seq(Blocks) : bs = tabs[t].blocks
  BY <1>1, TabsHave
<1>3. Min(Running(t)) \in Running(t)
  <2>1. Len(bs) \in Nat /\ DOMAIN bs = 1 .. Len(bs)
    OBVIOUS
  <2>. QED  BY <1>1, <1>2, <2>1, MinIn
<1>4. PICK i \in DOMAIN bs : i = Min(Running(t))
  BY <1>1, <1>2, <1>3
<1>5. bs[i] \in Blocks
  BY Element
<1>6. bs[i].by \in Lines
  BY <1>5 DEF Blocks
<1>. QED  BY <1>2, <1>4, <1>6

\* What terminal_send's keys reach is of a line.
LEMMA ReachesLines ==
    ASSUME IInv, NEW t, Open(t), tabs[t].owner = "user" => AgentRunning(t),
           reached' = IF tabs[t].owner = "user"
                      THEN reached \cup {tabs[t].blocks[Min(Running(t))].by}
                      ELSE reached
    PROVE  reached' \subseteq Lines
<1>1. reached \subseteq Lines
  BY DEF IInv, WellTyped
<1>2. tabs[t].owner = "user" => tabs[t].blocks[Min(Running(t))].by \in Lines
  BY RunningIs DEF AgentRunning
<1>. QED  BY <1>1, <1>2

\* terminal_send: keys are a line that no watch is for, or a ctrl-C.
LEMMA SendKeeps == ASSUME IInv, NEW c, Job(c), Send(c) PROVE IInv'
<1>1. PICK t : t = asked[c].tab
  OBVIOUS
<1>2. CASE Refuse(c)
  BY <1>2, RefuseKeeps
<1>3. CASE /\ Open(t) /\ (tabs[t].owner = "user" => AgentRunning(t))
           /\ tabs' = Typed(tabs, t, c) /\ calm' = calm \ {t}
           /\ reached' = IF tabs[t].owner = "user"
                         THEN reached \cup {tabs[t].blocks[Min(Running(t))].by}
                         ELSE reached
           /\ Reply(c) /\ UNCHANGED <<active, pending, marks, quiet, lost>>
  <2>1. /\ tabs \in Seq(Tabs) /\ Dock(tabs, Watching, quiet, lost, calm, Executed)
        /\ t \in DOMAIN tabs /\ tabs[t].open
    BY <1>3, TabsAreDomain
  <2>2. /\ c \in Calls /\ c \in Lines /\ c \notin quiet
        /\ Executed \cup {c} \in SUBSET Calls /\ calm \ {t} \in SUBSET calm
    BY JobIsTaken DEF Executed, Lines
  <2>3. PICK tab \in Tabs : tabs' = [tabs EXCEPT ![t] = tab] /\ Grows(tab, tabs[t], c)
    BY <1>3, <2>1, <2>2, InputGrows
  <2>4. Dock(tabs', Watching, quiet, lost, calm', Executed \cup {c})
    <3>1. PICK es2 \in SUBSET Calls : es2 = Executed \cup {c}
      BY <2>2
    <3>2. PICK cs2 \in SUBSET calm : cs2 = calm \ {t} /\ cs2 = calm'
      BY <1>3
    <3>3. Executed \subseteq es2 /\ c \in es2 \cup {Person}
      BY <3>1
    <3>4. PICK ts2 : ts2 = tabs'
      OBVIOUS
    <3>5. /\ tab.open /\ tab.blocks = tabs[t].blocks /\ tab.input = Append(tabs[t].input, c)
          /\ ts2 = [tabs EXCEPT ![t] = tab]
      BY <2>1, <2>3, <3>4 DEF Grows
    <3>6. Dock(ts2, Watching, quiet, lost, cs2, es2)
      BY <2>1, <2>2, <3>3, <3>5, LineTyped
    <3>. QED  BY <3>1, <3>2, <3>4, <3>6
  <2>5. active' = 0 \/ Open(active)'
    BY <1>3, <2>1, <2>3, ActiveStays DEF Grows
  <2>6. reached' \subseteq Lines /\ lost' \subseteq Calls
    BY <1>3, ReachesLines DEF IInv, WellTyped
  <2>. QED  BY <1>3, <2>4, <2>5, <2>6, JobRepliedOnly
<1>4. CASE /\ Open(t) /\ (tabs[t].owner = "user" => AgentRunning(t))
           /\ Interrupt(t) /\ calm' = calm \ {t}
           /\ reached' = IF tabs[t].owner = "user"
                         THEN reached \cup {tabs[t].blocks[Min(Running(t))].by}
                         ELSE reached
           /\ Reply(c) /\ UNCHANGED <<active, pending, marks, quiet>>
  <2>1. PICK es2 \in SUBSET Calls : es2 = Executed \cup {c} /\ Executed \subseteq es2
    <3>1. Executed \cup {c} \in SUBSET Calls
      BY JobIsTaken DEF Executed
    <3>. QED  BY <3>1
  <2>2. PICK cs2 \in SUBSET calm : cs2 = calm \ {t} /\ cs2 = calm'
    BY <1>4
  <2>3. /\ Dock(tabs', Watching, quiet, lost', cs2, es2)
        /\ lost \subseteq lost' /\ lost' \subseteq Calls
        /\ active' = active => active' = 0 \/ Open(active)'
    BY <1>4, <2>1, InterruptDoes
  <2>4. Dock(tabs', Watching, quiet, lost', calm', Executed \cup {c})
    BY <2>1, <2>2, <2>3
  <2>5. reached' \subseteq Lines
    BY <1>4, ReachesLines
  <2>. QED  BY <1>4, <2>3, <2>4, <2>5, JobRepliedOnly
<1>. QED  BY <1>1, <1>2, <1>3, <1>4 DEF Send, Typed

\* A run pasted into an open tab at its prompt.
LEMMA PasteKeeps ==
    ASSUME IInv, NEW c, Job(c), NEW ts, NEW t,
           Dock(ts, Watching, quiet, lost, calm, Executed),
           t \in DOMAIN ts, ts[t].open, Runs(ts[t]) = {}, PasteInto(c, ts, t),
           active' = t \/ (active' = active /\ ts = tabs)
    PROVE  IInv'
<1>1. /\ c \in Calls /\ c \in Lines /\ c \notin Executed /\ c \notin quiet
      /\ \A w \in Watching : w.of # c
  BY JobIsTaken DEF Lines
<1>2. ts \in Seq(Tabs) /\ t \in Nat /\ Len(ts[t].blocks) \in Nat
  <2>1. ts \in Seq(Tabs)
    BY DEF Dock
  <2>. QED  BY <2>1, TabsHave
<1>3. PICK w \in Watches : /\ w = [of |-> c, tab |-> t, before |-> Len(ts[t].blocks)]
                           /\ w.of = c /\ w.tab = t /\ w.before = Len(ts[t].blocks)
  <2>1. PICK n \in Nat : n = Len(ts[t].blocks)
    BY <1>2
  <2>2. PICK w \in Watches : w = [of |-> c, tab |-> t, before |-> n]
    BY <1>1, <1>2 DEF Watches
  <2>3. w.of = c /\ w.tab = t /\ w.before = n
    BY <2>2
  <2>. QED  BY <2>1, <2>2, <2>3
<1>4. /\ tabs' = Typed(ts, t, c)
      /\ quiet' = (IF ts[t].input = <<>> THEN quiet \cup {c} ELSE quiet)
      /\ calm' = calm \ {t} /\ reached' = reached /\ lost' = lost
      /\ \/ Reply(c) /\ marks' = marks \cup {w} /\ pending' = pending
         \/ /\ call' = [call EXCEPT ![c] = "waiting"] /\ answer' = answer
            /\ pending' = pending \cup {w} /\ marks' = marks
  BY <1>3 DEF PasteInto, Typed
<1>5. PICK tab \in Tabs : tabs' = [ts EXCEPT ![t] = tab] /\ Grows(tab, ts[t], c)
  BY <1>1, <1>2, <1>4, InputGrows
<1>6. Dock(tabs', Watching \cup {w}, quiet', lost', calm', Executed \cup {c})
  <2>1. PICK ts2 : ts2 = tabs'
    OBVIOUS
  <2>2. PICK qs2 : /\ qs2 = quiet' /\ quiet \subseteq qs2 /\ qs2 \subseteq quiet \cup {c}
                   /\ c \in qs2 => ts[t].input = <<>>
    BY <1>1, <1>4
  <2>3. /\ tab.open /\ tab.blocks = ts[t].blocks /\ tab.input = Append(ts[t].input, c)
        /\ ts2 = [ts EXCEPT ![t] = tab] /\ Person \notin Calls
    BY <1>5, <2>1, NotACall DEF Grows
  <2>4. Dock(ts2, Watching \cup {w}, qs2, lost, calm \ {t}, Executed \cup {c})
    <3>1. PICK ws, qs, ls, cs, es :
            ws = Watching /\ qs = quiet /\ ls = lost /\ cs = calm /\ es = Executed
      OBVIOUS
    <3>2. /\ Dock(ts, ws, qs, ls, cs, es) /\ t \in DOMAIN ts /\ ts[t].open /\ Runs(ts[t]) = {}
          /\ c \in Calls /\ c \notin es /\ Person \notin Calls
          /\ \A v \in ws : v.of # c
      BY <1>1, <2>3, <3>1
    <3>3. /\ tab.open /\ tab.blocks = ts[t].blocks /\ tab.input = Append(ts[t].input, c)
          /\ ts2 = [ts EXCEPT ![t] = tab]
          /\ w \in Watches /\ w.of = c /\ w.tab = t /\ w.before = Len(ts[t].blocks)
          /\ qs \subseteq qs2 /\ qs2 \subseteq qs \cup {c}
          /\ c \in qs2 => ts[t].input = <<>>
      BY <1>3, <2>2, <2>3, <3>1
    <3>4. Dock(ts2, ws \cup {w}, qs2, ls, cs \ {t}, es \cup {c})
      BY <3>2, <3>3, LinePasted
    <3>. QED  BY <3>1, <3>4
  <2>. QED  BY <1>4, <2>1, <2>2, <2>4
<1>7. active' = 0 \/ Open(active)'
  <2>1. CASE active' = active /\ ts = tabs
    BY <1>5, <2>1, ActiveStays DEF Grows
  <2>2. CASE active' = t
    <3>1. tabs' \in Seq(Tabs) /\ t \in DOMAIN tabs' /\ tabs'[t].open
      BY <1>2, <1>5, TabReplaced DEF Grows
    <3>. QED  BY <2>2, <3>1 DEF Open, TabIds
  <2>. QED  BY <2>1, <2>2
<1>8. reached' \subseteq Lines /\ lost' \subseteq Calls /\ lost \subseteq lost' /\ quiet' \subseteq quiet \cup {c}
  BY <1>4 DEF IInv, WellTyped
<1>9. PICK new \in SUBSET Watches : new = {w}
  OBVIOUS
<1>10. /\ \A v \in new : v.of = c
       /\ \A v, u \in new : v = u
       /\ Dock(tabs', Watching \cup new, quiet', lost', calm', Executed \cup {c})
  BY <1>3, <1>6, <1>9
<1>11. CASE Reply(c) /\ marks' = marks \cup new /\ pending' = pending
  BY <1>7, <1>8, <1>9, <1>10, <1>11, JobReplied
<1>12. CASE /\ call' = [call EXCEPT ![c] = "waiting"] /\ answer' = answer
            /\ pending' = pending \cup new /\ marks' = marks
  BY <1>7, <1>8, <1>9, <1>10, <1>12, JobWaits
<1>. QED  BY <1>4, <1>9, <1>11, <1>12

\* A run in a tab that reads as idle.
LEMMA PastesIdle ==
    ASSUME IInv, NEW c, Job(c), NEW t, Idle(t), PasteInto(c, tabs, t), active' = active
    PROVE  IInv'
<1>1. PICK ts : ts = tabs
  OBVIOUS
<1>2. /\ t \in DOMAIN tabs /\ tabs[t].open /\ Runs(tabs[t]) = {}
      /\ Dock(tabs, Watching, quiet, lost, calm, Executed)
  BY TabsAreDomain DEF Idle, Busy
<1>3. PasteInto(c, ts, t)
  BY <1>1
<1>. QED  BY <1>1, <1>2, <1>3, PasteKeeps

\* A run in a tab of its own.
LEMMA PastesFresh == ASSUME IInv, NEW c, Job(c), RunInNewTab(c) PROVE IInv'
<1>1. PICK ts : ts = Append(tabs, NewTab("agent"))
  OBVIOUS
<1>2. PICK t : t = Len(tabs) + 1
  OBVIOUS
<1>3. PasteInto(c, ts, t) /\ active' = t
  BY <1>1, <1>2 DEF RunInNewTab
<1>4. Dock(ts, Watching, quiet, lost, calm, Executed)
  BY <1>1, AgentsTab, FreshTab
<1>5. t \in DOMAIN ts /\ ts[t] = NewTab("agent")
  <2>1. tabs \in Seq(Tabs)
    BY TabsAreDomain
  <2>. QED  BY <1>1, <1>2, <2>1, AgentsTab
<1>6. ts[t].open /\ Runs(ts[t]) = {}
  BY <1>5, AgentsTab DEF Runs
<1>. QED  BY <1>3, <1>4, <1>5, <1>6, PasteKeeps

\* terminal_run.
LEMMA RunKeeps == ASSUME IInv, NEW c, Job(c), Run(c) PROVE IInv'
<1>1. PICK t : t = asked[c].tab
  OBVIOUS
<1>2. PICK a : a = active
  OBVIOUS
<1>3. CASE RunInNewTab(c)
  BY <1>3, PastesFresh
<1>4. CASE Refuse(c)
  BY <1>4, RefuseKeeps
<1>5. CASE Idle(a) /\ PasteInto(c, tabs, a) /\ active' = active
  BY <1>5, PastesIdle
<1>6. CASE Idle(t) /\ PasteInto(c, tabs, t) /\ active' = active
  BY <1>6, PastesIdle
<1>. QED  BY <1>1, <1>2, <1>3, <1>4, <1>5, <1>6 DEF Run

\* One job of the pass.
LEMMA ExecuteKeeps == ASSUME IInv, Execute PROVE IInv'
<1>1. PICK c : c = Head(batch)
  OBVIOUS
<1>2. Job(c) /\ (Run(c) \/ OpenTab(c) \/ Send(c) \/ Close(c))
  BY <1>1 DEF Execute, Job
<1>. QED  BY <1>2, RunKeeps, OpenTabKeeps, SendKeeps, CloseKeeps

\* The polls' words for a watch: its outcome, whether it leaves a mark behind, whether it retires.
LEMMA OutcomeIs ==
    ASSUME IInv, NEW w \in Watching
    PROVE  /\ w \in Watches /\ w.of \in Calls /\ w.tab \in DOMAIN tabs
           /\ Open(w.tab) <=> tabs[w.tab].open
           /\ BlockFormed(w) <=> Formed(tabs[w.tab], w)
           /\ Retires(w) <=> ~(tabs[w.tab].open /\ ~Over(tabs[w.tab], w))
           /\ Outcome(w) # "unfinished" <=>
                ~tabs[w.tab].open \/ Over(tabs[w.tab], w) \/ w.of \in due
           /\ LeavesAWatch(w) <=>
                tabs[w.tab].open /\ ~Over(tabs[w.tab], w) /\ w.of \in due
<1>1. /\ w \in Watches /\ w.of \in Calls /\ w.tab \in DOMAIN tabs /\ w.before \in Nat
      /\ tabs \in Seq(Tabs)
  BY DEF IInv, Dock, WatchesAreSound, Watches
<1>2. Open(w.tab) <=> tabs[w.tab].open
  BY <1>1, TabsAreDomain
<1>3. BlockFormed(w) <=> Formed(tabs[w.tab], w)
  <2>1. Len(tabs[w.tab].blocks) \in Nat
    BY <1>1, TabsHave
  <2>. QED  BY <1>1, <2>1 DEF BlockFormed, Formed
<1>4. Finished(w) <=> Over(tabs[w.tab], w)
  BY <1>3 DEF Finished, Over, BlockOf
<1>5. /\ Outcome(w) # "unfinished" <=>
           ~tabs[w.tab].open \/ Over(tabs[w.tab], w) \/ w.of \in due
      /\ LeavesAWatch(w) <=>
           tabs[w.tab].open /\ ~Over(tabs[w.tab], w) /\ w.of \in due
  <2>1. CASE ~Open(w.tab)
    BY <1>2, <2>1 DEF Outcome, LeavesAWatch
  <2>2. CASE Open(w.tab) /\ Finished(w)
    BY <1>2, <1>4, <2>2 DEF Outcome, LeavesAWatch
  <2>3. CASE Open(w.tab) /\ ~Finished(w)
    BY <1>2, <1>4, <2>3 DEF Outcome, LeavesAWatch
  <2>. QED  BY <2>1, <2>2, <2>3
<1>. QED  BY <1>1, <1>2, <1>3, <1>4, <1>5 DEF Retires

\* Whose block the answer to a run reports.
Said(w) == IF Open(w.tab) /\ BlockFormed(w) THEN BlockOf(w).by ELSE w.of

\* To a quiet run it is its own.
LEMMA SaidIs ==
    ASSUME IInv, NEW w \in Watching
    PROVE  Said(w) \in Lines /\ (w.of \in quiet \ lost => Said(w) = w.of)
<1>1. /\ w \in Watches /\ w.of \in Calls /\ w.tab \in DOMAIN tabs
      /\ Open(w.tab) <=> tabs[w.tab].open
      /\ BlockFormed(w) <=> Formed(tabs[w.tab], w)
  BY OutcomeIs
<1>2. CASE ~(Open(w.tab) /\ BlockFormed(w))
  BY <1>1, <1>2 DEF Said, Lines
<1>3. CASE Open(w.tab) /\ BlockFormed(w)
  <2>1. Said(w) = tabs[w.tab].blocks[w.before + 1].by
    BY <1>3 DEF Said, BlockOf
  <2>2. PICK bs \in Seq(Blocks) : bs = tabs[w.tab].blocks
    BY <1>1, TabsHave, TabsAreDomain
  <2>3. w.before + 1 \in DOMAIN bs
    <3>1. w.before \in Nat /\ w.before < Len(bs)
      BY <1>1, <1>3, <2>2 DEF Watches, Formed
    <3>. QED  BY <3>1
  <2>4. bs[w.before + 1] \in Blocks
    BY <2>3, Element
  <2>5. Said(w) \in Lines
    BY <2>1, <2>2, <2>4 DEF Blocks
  <2>6. w.of \in quiet \ lost => Said(w) = w.of
    BY <1>1, <1>3, <2>1 DEF IInv, Dock, WatchesAreSound, Sound
  <2>. QED  BY <2>5, <2>6
<1>. QED  BY <1>2, <1>3

\* The polls answer this run, and whether its watch outlives the answer.
IsAnswered(w) == w \in pending /\ Outcome(w) # "unfinished"
Outlives(w) == IsAnswered(w) /\ LeavesAWatch(w)

\* The pass's end, in these words.
LEMMA PollDoes ==
    ASSUME IInv, Poll
    PROVE  /\ ui = "jobs" /\ batch = <<>> /\ ui' = "idle"
           /\ tabs' = Stamped(Watching)
           /\ pending' = {w \in pending : ~IsAnswered(w)}
           /\ due' \subseteq due
           /\ marks' = {w \in marks \cup {v \in pending : Outlives(v)} : ~Retires(w)}
           /\ calm' = {t \in TabIds : Settled(t)} \ Owed(Watching')
           /\ UNCHANGED <<asked, queue, batch, active, acts, quiet, lost, reached>>
           /\ call' = [c \in Calls |-> IF {w \in pending : IsAnswered(w) /\ w.of = c} # {}
                                       THEN "answered" ELSE call[c]]
           /\ answer' = [c \in Calls |->
                answer[c]
                  \o SetToSeq({Said(w) : w \in {v \in pending : IsAnswered(v) /\ v.of = c}})]
<1>1. PICK ended : ended = {w \in pending : Outcome(w) # "unfinished"}
  OBVIOUS
<1>2. \A w : w \in ended <=> IsAnswered(w)
  BY <1>1 DEF IsAnswered
<1>3. \A c : {w \in ended : w.of = c} = {w \in pending : IsAnswered(w) /\ w.of = c}
  BY <1>1, <1>2
<1>4. /\ ui = "jobs" /\ batch = <<>> /\ ui' = "idle"
      /\ tabs' = Stamped(Watching)
      /\ pending' = pending \ ended
      /\ due' \subseteq due
      /\ marks' = {w \in marks \cup {v \in ended : LeavesAWatch(v)} : ~Retires(w)}
      /\ calm' = {t \in TabIds : Settled(t)} \ Owed(Watching')
      /\ UNCHANGED <<asked, queue, batch, active, acts, quiet, lost, reached>>
  BY <1>1 DEF Poll, Watching
<1>5. call' = [c \in Calls |-> IF {w \in ended : w.of = c} # {} THEN "answered" ELSE call[c]]
  BY <1>1 DEF Poll
<1>6. answer' = [c \in Calls |->
        answer[c] \o SetToSeq({IF Open(w.tab) /\ BlockFormed(w) THEN BlockOf(w).by ELSE c
                               : w \in {v \in ended : v.of = c}})]
  BY <1>1 DEF Poll
<1>7. \A c : {IF Open(w.tab) /\ BlockFormed(w) THEN BlockOf(w).by ELSE c
              : w \in {v \in ended : v.of = c}}
             = {Said(w) : w \in {v \in pending : IsAnswered(v) /\ v.of = c}}
  BY <1>1, <1>2 DEF Said
<1>8. answer' = [c \in Calls |->
        answer[c] \o SetToSeq({Said(w) : w \in {v \in pending : IsAnswered(v) /\ v.of = c}})]
  BY <1>6, <1>7
<1>9. call' = [c \in Calls |-> IF {w \in pending : IsAnswered(w) /\ w.of = c} # {}
                                       THEN "answered" ELSE call[c]]
  BY <1>3, <1>5
<1>10. /\ pending' = {w \in pending : ~IsAnswered(w)}
       /\ marks' = {w \in marks \cup {v \in pending : Outlives(v)} : ~Retires(w)}
  BY <1>1, <1>2, <1>4 DEF Outlives
<1>. QED  BY <1>4, <1>8, <1>9, <1>10

\* A call's own share of it: nothing, or the one answer of its one run.
LEMMA PollAnswers ==
    ASSUME IInv, Poll, NEW c \in Calls
    PROVE  \/ /\ \A w \in pending : IsAnswered(w) => w.of # c
              /\ call'[c] = call[c] /\ answer'[c] = answer[c]
           \/ \E w \in pending : /\ IsAnswered(w) /\ w.of = c /\ call[c] = "waiting"
                                 /\ call'[c] = "answered" /\ answer'[c] = <<Said(w)>>
<1>1. PICK mine : mine = {w \in pending : IsAnswered(w) /\ w.of = c}
  OBVIOUS
<1>2. /\ call'[c] = IF mine # {} THEN "answered" ELSE call[c]
      /\ answer'[c] = answer[c] \o SetToSeq({Said(w) : w \in mine})
  BY <1>1, PollDoes
<1>3. answer[c] \in Seq(Lines) /\ Len(answer[c]) = IF call[c] = "answered" THEN 1 ELSE 0
  BY DEF IInv, WellTyped, OneAnswerOfItsOwn, OneReply
<1>4. CASE mine = {}
  <2>1. {Said(w) : w \in mine} = {}
    BY <1>4
  <2>2. answer'[c] = answer[c] \o <<>>
    BY <1>2, <2>1, SequenceOfNone
  <2>3. answer'[c] = answer[c]
    BY <1>3, <2>2
  <2>. QED  BY <1>1, <1>2, <1>4, <2>3
<1>5. CASE mine # {}
  <2>1. PICK w \in mine : TRUE
    BY <1>5
  <2>2. w \in pending /\ IsAnswered(w) /\ w.of = c /\ call[c] = "waiting"
    BY <1>1, <2>1 DEF IInv, WaitsAreWatched
  <2>3. mine = {w}
    BY <1>1, <2>1, <2>2 DEF IInv, WaitsAreWatched, Watching
  <2>4. {Said(v) : v \in mine} = {Said(w)}
    BY <2>3
  <2>5. answer[c] = <<>>
    BY <1>3, <2>2
  <2>6. PICK x : x = Said(w)
    OBVIOUS
  <2>7. answer'[c] = <<>> \o <<x>>
    BY <1>2, <2>4, <2>5, <2>6, SequenceOfOne
  <2>8. answer'[c] = <<x>>
    BY <2>7
  <2>. QED  BY <1>2, <1>5, <2>2, <2>6, <2>8
<1>. QED  BY <1>4, <1>5

\* The watches left are those of open tabs whose block has not closed.
LEMMA WatchesLeft ==
    ASSUME IInv, Poll
    PROVE  /\ Watching' \subseteq Watching
           /\ \A w \in Watching : w \in Watching' <=>
                tabs[w.tab].open /\ ~Over(tabs[w.tab], w)
           /\ \A w \in pending' : w \in pending /\ ~IsAnswered(w)
           /\ \A w \in marks' : w \in marks \/ (w \in pending /\ IsAnswered(w))
<1>1. /\ pending' = {w \in pending : ~IsAnswered(w)}
      /\ marks' = {w \in marks \cup {v \in pending : Outlives(v)} : ~Retires(w)}
  BY PollDoes
<1>2. ASSUME NEW w \in Watching
      PROVE  w \in Watching' <=> tabs[w.tab].open /\ ~Over(tabs[w.tab], w)
  <2>1. /\ Retires(w) <=> ~(tabs[w.tab].open /\ ~Over(tabs[w.tab], w))
        /\ IsAnswered(w) <=>
             w \in pending /\ (~tabs[w.tab].open \/ Over(tabs[w.tab], w) \/ w.of \in due)
        /\ LeavesAWatch(w) <=> tabs[w.tab].open /\ ~Over(tabs[w.tab], w) /\ w.of \in due
    <3>1. /\ Retires(w) <=> ~(tabs[w.tab].open /\ ~Over(tabs[w.tab], w))
          /\ LeavesAWatch(w) <=> tabs[w.tab].open /\ ~Over(tabs[w.tab], w) /\ w.of \in due
      BY OutcomeIs
    <3>2. Outcome(w) # "unfinished" <=>
            ~tabs[w.tab].open \/ Over(tabs[w.tab], w) \/ w.of \in due
      BY OutcomeIs
    <3>. QED  BY <3>1, <3>2 DEF IsAnswered
  <2>2. w \in Watching' <=> (w \in pending /\ ~IsAnswered(w))
                             \/ ((w \in marks \/ (w \in pending /\ Outlives(w))) /\ ~Retires(w))
    BY <1>1 DEF Watching
  <2>. QED  BY <2>1, <2>2 DEF Watching, Outlives
<1>. QED  BY <1>1, <1>2 DEF Watching, Outlives

\* The pass ends.
LEMMA PollKeeps == ASSUME IInv, Poll PROVE IInv'
<1>1. /\ ui = "jobs" /\ batch = <<>> /\ ui' = "idle"
      /\ tabs' = Stamped(Watching) /\ due' \subseteq due
      /\ calm' = {t \in TabIds : Settled(t)} \ Owed(Watching')
      /\ UNCHANGED <<asked, queue, batch, active, acts, quiet, lost, reached>>
  BY PollDoes
<1>2. /\ Watching' \subseteq Watching
      /\ \A w \in Watching : w \in Watching' <=> tabs[w.tab].open /\ ~Over(tabs[w.tab], w)
      /\ \A w \in pending' : w \in pending /\ ~IsAnswered(w)
      /\ \A w \in marks' : w \in marks \/ (w \in pending /\ IsAnswered(w))
  BY WatchesLeft
<1>3. /\ DOMAIN call' = Calls /\ DOMAIN answer' = Calls
      /\ call' = [c \in Calls |-> call'[c]] /\ answer' = [c \in Calls |-> answer'[c]]
  <2>1. PICK f, g : /\ f = call' /\ g = answer'
                    /\ f = [c \in Calls |-> f[c]] /\ g = [c \in Calls |-> g[c]]
    BY PollDoes
  <2>. QED  BY <2>1
<1>4. /\ tabs \in Seq(Tabs) /\ Dock(tabs, Watching, quiet, lost, calm, Executed)
      /\ TabIds = DOMAIN tabs
  BY TabsAreDomain
<1>5. /\ tabs' \in Seq(Tabs) /\ DOMAIN tabs' = DOMAIN tabs
      /\ \A t \in DOMAIN tabs :
           /\ tabs'[t].open = tabs[t].open /\ tabs'[t].input = tabs[t].input
           /\ Len(tabs'[t].blocks) = Len(tabs[t].blocks)
           /\ \A i \in DOMAIN tabs[t].blocks :
                /\ tabs'[t].blocks[i].by = tabs[t].blocks[i].by
                /\ tabs'[t].blocks[i].running = tabs[t].blocks[i].running
                /\ tabs'[t].blocks[i].calm = tabs[t].blocks[i].calm
                /\ tabs'[t].blocks[i].author =
                     IF \E w \in Watching : w.tab = t /\ i > w.before THEN "agent"
                     ELSE tabs[t].blocks[i].author
  BY <1>1, <1>4, StampedDoes
<1>6. \A c \in Calls : /\ call[c] # "waiting" => call'[c] = call[c]
                       /\ call[c] = "waiting" => call'[c] \in {"waiting", "answered"}
  BY PollAnswers
<1>7. WellTyped'
  <2>1. call' \in [Calls -> {"unsent", "queued", "taken", "waiting", "answered"}]
    <3>1. \A c \in Calls : call'[c] \in {"unsent", "queued", "taken", "waiting", "answered"}
      BY <1>6 DEF IInv, WellTyped
    <3>. QED  BY <1>3, <3>1
  <2>2. answer' \in [Calls -> Seq(Lines)]
    <3>1. \A c \in Calls : answer'[c] \in Seq(Lines)
      <4>. SUFFICES ASSUME NEW c \in Calls PROVE answer'[c] \in Seq(Lines)
        OBVIOUS
      <4>1. CASE answer'[c] = answer[c]
        BY <4>1 DEF IInv, WellTyped
      <4>2. CASE \E w \in pending : answer'[c] = <<Said(w)>>
        <5>1. PICK w \in pending : answer'[c] = <<Said(w)>>
          BY <4>2
        <5>2. Said(w) \in Lines
          BY SaidIs DEF Watching
        <5>. QED  BY <5>1, <5>2
      <4>. QED  BY <4>1, <4>2, PollAnswers
    <3>. QED  BY <1>3, <3>1
  <2>3. pending' \subseteq Watches /\ marks' \subseteq Watches /\ due' \subseteq Calls
    BY <1>1, <1>2 DEF IInv, WellTyped
  <2>4. active' = 0 \/ Open(active)'
    BY <1>1, <1>4, <1>5 DEF IInv, WellTyped, Open, TabIds
  <2>. QED  BY <1>1, <2>1, <2>2, <2>3, <2>4 DEF IInv, WellTyped
<1>8. JobsAreOnce'
  BY <1>1, <1>6 DEF IInv, JobsAreOnce, WellTyped
<1>9. WaitsAreWatched'
  <2>1. \A w \in pending' : call'[w.of] = "waiting"
    <3>. SUFFICES ASSUME NEW w \in pending' PROVE call'[w.of] = "waiting"
      OBVIOUS
    <3>1. w \in pending /\ ~IsAnswered(w) /\ w.of \in Calls /\ call[w.of] = "waiting"
      BY <1>2 DEF IInv, WaitsAreWatched, WellTyped, Watches
    <3>2. \A v \in pending : v.of = w.of => v = w
      BY <3>1 DEF IInv, WaitsAreWatched, Watching
    <3>. QED  BY <3>1, <3>2, PollAnswers
  <2>2. \A w \in marks' : call'[w.of] = "answered"
    <3>. SUFFICES ASSUME NEW w \in marks' PROVE call'[w.of] = "answered"
      OBVIOUS
    <3>1. CASE w \in marks
      <4>1. w.of \in Calls /\ call[w.of] = "answered"
        BY <3>1 DEF IInv, WaitsAreWatched, WellTyped, Watches
      <4>. QED  BY <4>1, <1>6
    <3>2. CASE w \in pending /\ IsAnswered(w)
      <4>1. w.of \in Calls
        BY <3>2 DEF IInv, WellTyped, Watches
      <4>. QED  BY <3>2, <4>1, PollAnswers
    <3>. QED  BY <1>2, <3>1, <3>2
  <2>3. \A w, v \in Watching' : w.of = v.of => w = v
    BY <1>2 DEF IInv, WaitsAreWatched
  <2>. QED  BY <2>1, <2>2, <2>3 DEF WaitsAreWatched
<1>10. OneAnswerOfItsOwn'
  <2>1. OneReply'
    <3>. SUFFICES ASSUME NEW c \in Calls
         PROVE  Len(answer'[c]) = IF call'[c] = "answered" THEN 1 ELSE 0
      BY DEF OneReply
    <3>1. Len(answer[c]) = IF call[c] = "answered" THEN 1 ELSE 0
      BY DEF IInv, OneAnswerOfItsOwn, OneReply
    <3>2. CASE call'[c] = call[c] /\ answer'[c] = answer[c]
      BY <3>1, <3>2
    <3>3. CASE call'[c] = "answered" /\ \E w \in pending : answer'[c] = <<Said(w)>>
      BY <3>3
    <3>. QED  BY <3>2, <3>3, PollAnswers
  <2>2. AnswerIsItsOwn'
    <3>. SUFFICES ASSUME NEW c \in quiet' \ lost' PROVE Range(answer'[c]) \subseteq {c}
      BY DEF AnswerIsItsOwn
    <3>1. c \in quiet \ lost /\ c \in Calls /\ Range(answer[c]) \subseteq {c}
      BY <1>1 DEF IInv, OneAnswerOfItsOwn, AnswerIsItsOwn, Dock
    <3>2. Range(<<c>>) \subseteq {c}
      BY DEF Range
    <3>3. CASE answer'[c] = answer[c]
      BY <3>1, <3>3
    <3>4. CASE \E w \in pending : w.of = c /\ answer'[c] = <<Said(w)>>
      <4>1. PICK w \in pending : w.of = c /\ answer'[c] = <<Said(w)>>
        BY <3>4
      <4>2. Said(w) = c
        BY <3>1, <4>1, SaidIs DEF Watching
      <4>. QED  BY <3>2, <4>1, <4>2
    <3>. QED  BY <3>1, <3>3, <3>4, PollAnswers
  <2>. QED  BY <2>1, <2>2 DEF OneAnswerOfItsOwn
<1>11. Executed' = Executed
  BY <1>6 DEF Executed
<1>12. \A t \in calm' : /\ t \in DOMAIN tabs /\ tabs[t].open /\ Runs(tabs[t]) = {}
                        /\ \A j \in DOMAIN tabs[t].input : tabs[t].input[j] \notin Calls
                        /\ \A w \in Watching' : w.of \in lost => w.tab # t
  BY <1>1, <1>4, TabsAreDomain DEF Settled, AtPrompt, Range, Owed
<1>13. Dock(tabs, Watching, quiet, lost, calm, Executed)'
  <2>1. PICK ts2, ws2, cs2 : ts2 = tabs' /\ ws2 = Watching' /\ cs2 = calm'
    OBVIOUS
  <2>2. ts2 \in Seq(Tabs) /\ DOMAIN ts2 = DOMAIN tabs
    BY <1>5, <2>1
  <2>3. \A t \in DOMAIN tabs :
           /\ ts2[t].open = tabs[t].open /\ ts2[t].input = tabs[t].input
           /\ Len(ts2[t].blocks) = Len(tabs[t].blocks)
           /\ \A i \in DOMAIN tabs[t].blocks :
                /\ ts2[t].blocks[i].by = tabs[t].blocks[i].by
                /\ ts2[t].blocks[i].running = tabs[t].blocks[i].running
                /\ ts2[t].blocks[i].calm = tabs[t].blocks[i].calm
                /\ ts2[t].blocks[i].author =
                     IF \E w \in Watching : w.tab = t /\ i > w.before THEN "agent"
                     ELSE tabs[t].blocks[i].author
    BY <1>5, <2>1
  <2>4. /\ ws2 \in SUBSET Watching /\ cs2 \in SUBSET DOMAIN tabs
        /\ \A w \in Watching : w \in ws2 <=> tabs[w.tab].open /\ ~Over(tabs[w.tab], w)
        /\ \A t \in cs2 : /\ tabs[t].open /\ Runs(tabs[t]) = {}
                          /\ \A j \in DOMAIN tabs[t].input : tabs[t].input[j] \notin Calls
        /\ \A w \in ws2 : w.of \in lost => w.tab \notin cs2
    BY <1>2, <1>12, <2>1
  <2>5. Dock(ts2, ws2, quiet, lost, cs2, Executed)
    BY <1>4, <2>2, <2>3, <2>4, Polled, NotACall
  <2>. QED  BY <1>1, <1>11, <2>1, <2>5
<1>. QED  BY <1>7, <1>8, <1>9, <1>10, <1>13 DEF IInv

\* Nothing happens.
LEMMA StutterKeeps == ASSUME IInv, UNCHANGED vars PROVE IInv'
<1>1. UNCHANGED <<call, asked, queue, batch, answer, ui, pending, marks, due, quiet, lost, calm,
                  reached, tabs, active>>
  BY DEF vars
<1>2. due' \subseteq Calls /\ lost' \subseteq Calls /\ (active' = 0 \/ Open(active)')
  BY <1>1 DEF IInv, WellTyped, Open, TabIds
<1>3. Dock(tabs', Watching, quiet, lost, calm', Executed)
  BY <1>1, TabsAreDomain
<1>. QED  BY <1>1, <1>2, <1>3, TabsMove

-----------------------------------------------------------------------------
(* The theorems *)

\* Every step keeps the invariant.
LEMMA StepKeeps == ASSUME IInv, [Next]_vars PROVE IInv'
<1>1. CASE UNCHANGED vars
  BY <1>1, StutterKeeps
<1>2. ASSUME NEW c \in Calls, NEW r \in Requests, Ask(c, r) PROVE IInv'
  BY <1>2, AskKeeps
<1>3. CASE Pass
  BY <1>3, StartPassKeeps, ExecuteKeeps, PollKeeps DEF Pass
<1>4. ASSUME NEW c \in Calls, DeadlinePasses(c) PROVE IInv'
  BY <1>4, DeadlineKeeps
<1>5. ASSUME NEW t \in TabIds,
             ShellReads(t) \/ ShellDiscards(t) \/ ProgramReads(t) \/ BlockEnds(t)
      PROVE  IInv'
  BY <1>5, ShellReadsKeeps, ShellDiscardsKeeps, ProgramReadsKeeps, BlockEndsKeeps
<1>6. ASSUME NEW t \in TabIds,
             \/ PersonTypes(t) \/ PersonReruns(t) \/ PersonActivates(t) \/ PersonCloses(t)
      PROVE  IInv'
  BY <1>6, PersonTypesKeeps, PersonRerunsKeeps, PersonActivatesKeeps, PersonClosesKeeps
<1>7. CASE PersonOpens \/ PersonInterrupts
  BY <1>7, PersonOpensKeeps, PersonInterruptsKeeps
<1>. QED  BY <1>1, <1>2, <1>3, <1>4, <1>5, <1>6, <1>7 DEF Next

\* The invariant holds at first: one empty tab, and nothing asked.
LEMMA InitHolds == Init => IInv
<1>. SUFFICES ASSUME Init PROVE IInv
  OBVIOUS
<1>1. /\ call = [c \in Calls |-> "unsent"] /\ asked = [c \in Calls |-> NoRequest]
      /\ queue = <<>> /\ batch = <<>> /\ ui = "idle" /\ tabs = <<NewTab("user")>> /\ active = 1
      /\ pending = {} /\ marks = {} /\ due = {} /\ answer = [c \in Calls |-> <<>>]
      /\ quiet = {} /\ lost = {} /\ calm = {1} /\ reached = {}
  BY DEF Init
<1>2. PICK tab \in Tabs : /\ tab = NewTab("user") /\ tab.open
                          /\ tab.input = <<>> /\ tab.blocks = <<>>
  <2>1. <<>> \in Seq(Lines)
    OBVIOUS
  <2>. QED  BY <2>1, NewTabIs
<1>3. /\ tabs \in Seq(Tabs) /\ DOMAIN tabs = {1} /\ tabs[1] = tab /\ Len(tabs) = 1
  <2>1. PICK s : s = <<tab>>
    OBVIOUS
  <2>2. s \in Seq(Tabs) /\ DOMAIN s = {1} /\ s[1] = tab /\ Len(s) = 1
    BY <2>1
  <2>. QED  BY <1>1, <1>2, <2>1, <2>2
<1>4. Open(1)
  BY <1>2, <1>3 DEF Open, TabIds
<1>5. WellTyped
  <2>1. <<>> \in Seq(Calls) /\ <<>> \in Seq(Lines)
    OBVIOUS
  <2>. QED  BY <1>1, <1>4, <2>1 DEF WellTyped
<1>6. JobsAreOnce /\ WaitsAreWatched /\ Watching = {} /\ Executed = {}
  BY <1>1 DEF JobsAreOnce, Once, WaitsAreWatched, Watching, Executed
<1>7. OneAnswerOfItsOwn
  BY <1>1 DEF OneAnswerOfItsOwn, OneReply, AnswerIsItsOwn
<1>8. Dock(tabs, {}, {}, {}, {1}, {})
  BY <1>2, <1>3 DEF Dock, WatchesAreSound, QuietLinesLead, QuietBlocksAreClaimed,
     PersonsBlocksAreFree, CalmTabsAreUnwatched, ClosedTabsAreEmpty, LinesAreExecuted
<1>. QED  BY <1>1, <1>5, <1>6, <1>7, <1>8 DEF IInv

\* The invariant holds always.
THEOREM Invariant == Spec => []IInv
<1>1. IInv /\ [Next]_vars => IInv'
  BY StepKeeps
<1>. QED  BY <1>1, InitHolds, PTL DEF Spec

\* It contains the types of TerminalRuns.
LEMMA TypesHold == IInv => TypeOK
<1>. SUFFICES ASSUME IInv PROVE TypeOK
  OBVIOUS
<1>1. WellTyped /\ tabs \in Seq(Tabs) /\ TabIds = DOMAIN tabs
      /\ Dock(tabs, Watching, quiet, lost, calm, Executed)
  BY TabsAreDomain DEF IInv
<1>2. \A t \in TabIds : /\ Range(tabs[t].input) \subseteq Lines
                        /\ Range(tabs[t].blocks) \subseteq Blocks
  <2>. SUFFICES ASSUME NEW t \in TabIds
       PROVE  Range(tabs[t].input) \subseteq Lines /\ Range(tabs[t].blocks) \subseteq Blocks
    OBVIOUS
  <2>1. PICK l \in Seq(Lines), b \in Seq(Blocks) : l = tabs[t].input /\ b = tabs[t].blocks
    BY <1>1, TabsHave
  <2>2. Range(l) \subseteq Lines /\ Range(b) \subseteq Blocks
    BY Element DEF Range
  <2>. QED  BY <2>1, <2>2
<1>3. Range(queue) \cup Range(batch) \subseteq Calls
  BY <1>1, Element DEF WellTyped, Range
<1>4. quiet \subseteq Calls /\ calm \subseteq TabIds
  BY <1>1 DEF Dock
<1>. QED  BY <1>1, <1>2, <1>3, <1>4 DEF TypeOK, WellTyped, Blocks

\* Every variable keeps its type, for any calls and requests.
THEOREM TypeCorrect == Spec => []TypeOK
BY Invariant, TypesHold, PTL

\* A call is answered once, and a quiet run whose line was not lost with its own block,
\* whatever is typed, closed or run in between.
THEOREM OneAnswerOfItsOwnAlways == Spec => []OneAnswerOfItsOwn
<1>1. IInv => OneAnswerOfItsOwn
  BY DEF IInv
<1>. QED  BY <1>1, Invariant, PTL

\* A quiet block without a watch has its mark.
LEMMA MarksAreEarned == IInv => EarnsTheMark
<1>. SUFFICES ASSUME IInv PROVE EarnsTheMark
  OBVIOUS
<1>. SUFFICES ASSUME NEW t \in TabIds, NEW i \in 1 .. Len(tabs[t].blocks),
                     tabs[t].blocks[i].by \in quiet,
                     \A w \in pending \cup marks : w.of # tabs[t].blocks[i].by
     PROVE  tabs[t].blocks[i].author = "agent"
  BY DEF EarnsTheMark
<1>1. /\ t \in DOMAIN tabs /\ tabs \in Seq(Tabs)
      /\ Dock(tabs, Watching, quiet, lost, calm, Executed)
  BY TabsAreDomain
<1>2. i \in DOMAIN tabs[t].blocks
  BY <1>1, TabsHave
<1>. QED  BY <1>1, <1>2 DEF Dock, QuietBlocksAreClaimed, Watching

\* A quiet run's block carries the agent's mark once nothing watches it any more.
THEOREM EarnsTheMarkAlways == Spec => []EarnsTheMark
BY Invariant, MarksAreEarned, PTL

\* What the person started in a calm tab has no mark.
LEMMA PersonsStay == IInv => LaterBlocksStayThePersons
<1>. SUFFICES ASSUME IInv PROVE LaterBlocksStayThePersons
  OBVIOUS
<1>. SUFFICES ASSUME NEW t \in TabIds, NEW i \in 1 .. Len(tabs[t].blocks),
                     tabs[t].blocks[i].by = Person, tabs[t].blocks[i].calm
     PROVE  tabs[t].blocks[i].author = "human"
  BY DEF LaterBlocksStayThePersons
<1>1. /\ t \in DOMAIN tabs /\ tabs \in Seq(Tabs)
      /\ Dock(tabs, Watching, quiet, lost, calm, Executed)
  BY TabsAreDomain
<1>2. i \in DOMAIN tabs[t].blocks
  BY <1>1, TabsHave
<1>. QED  BY <1>1, <1>2 DEF Dock, PersonsBlocksAreFree

\* What the person starts in a tab a pass has left settled, with no lost line's watch in
\* it, stays the person's.
THEOREM LaterBlocksStayThePersonsAlways == Spec => []LaterBlocksStayThePersons
BY Invariant, PersonsStay, PTL

=============================================================================

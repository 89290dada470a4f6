-------------------------- MODULE CodexChildProofs --------------------------
(* The Codex child, for any set of turns and reads and any bounds.  First   *)
(* its request lane: it keeps RequestContract, and the end of the child's   *)
(* output leaves nobody waiting who was.  Then its modes: no call of a turn *)
(* that runs Read-only reaches the person, and once all is at rest the gate, *)
(* the thread, the chip and the person agree on the last pick.              *)
EXTENDS CodexChild, SequenceTheorems, TLAPS

-----------------------------------------------------------------------------
(* Types.                                                                    *)

(* Taking the first element of a sequence, and adding a last one.            *)
LEMMA Taken ==
  ASSUME NEW S, NEW s \in Seq(S), s # <<>>
  PROVE  /\ Head(s) \in S /\ Tail(s) \in Seq(S) /\ Head(s) = s[1] /\ 1 \in 1 .. Len(s)
         /\ \A i \in 1 .. Len(Tail(s)) : i + 1 \in 1 .. Len(s) /\ Tail(s)[i] = s[i + 1]
  BY HeadTailProperties

LEMMA Added ==
  ASSUME NEW S, NEW s \in Seq(S), NEW x \in S
  PROVE  /\ Append(s, x) \in Seq(S)
         /\ \A i \in 1 .. Len(Append(s, x)) :
              \/ i \in 1 .. Len(s) /\ Append(s, x)[i] = s[i]
              \/ Append(s, x)[i] = x
  BY AppendProperties

LEMMA TypeInit == Init => TypeOK
<1>. SUFFICES ASSUME Init PROVE TypeOK
  OBVIOUS
<1>1. stdin \in Seq(Frames) /\ stdout \in Seq(Lines)
  BY DEF Init
<1>2. chip \in Modes
  BY DEF Init, Modes
<1>. QED
  BY <1>1, <1>2 DEF Init, TypeOK

LEMMA TypeCaller ==
  ASSUME TypeOK, NEW r \in Requests, Take(r) \/ Caller(r)
  PROVE  TypeOK'
<1>. USE DEF TypeOK, requestVars, orderVars, modeVars, serverVars, boundVars
<1>1. CASE Take(r)
  <2>1. ahead' \in [Turns -> SUBSET Turns]
    BY <1>1 DEF Take, Carriers
  <2>. QED
    BY <1>1, <2>1 DEF Take
<1>2. CASE Register(r)
  <2>1. crossed' \in BOOLEAN
    BY <1>2 DEF Register
  <2>. QED
    BY <1>2, <2>1 DEF Register, Attempt
<1>3. CASE Write(r)
  <2>1. stdin' \in Seq(Frames)
    BY <1>3, Added DEF Write, Frames
  <2>. QED
    BY <1>3, <2>1 DEF Write, Frames
<1>4. CASE WriteFails(r)
  BY <1>4 DEF WriteFails, EndWith
<1>5. CASE Receive(r)
  <2>1. CASE inbox[r] = "ok"
    BY <1>5, <2>1 DEF Receive
  <2>2. CASE inbox[r] # "ok"
    <3>1. inbox[r] \in {"rpc", "closed"} /\ EndWith(r, inbox[r])
      BY <1>5, <2>2 DEF Receive
    <3>. QED
      BY <1>5, <3>1 DEF Receive, EndWith
  <2>. QED
    BY <2>1, <2>2
<1>6. CASE Settle(r)
  BY <1>6 DEF Settle, EndWith
<1>7. CASE TimeOut(r)
  BY <1>7 DEF TimeOut, EndWith
<1>8. CASE KeepMode(r)
  <2>1. crossed' \in BOOLEAN
    BY <1>8 DEF KeepMode
  <2>. QED
    BY <1>8, <2>1 DEF KeepMode, Kept
<1>. QED
  BY <1>1, <1>2, <1>3, <1>4, <1>5, <1>6, <1>7, <1>8 DEF Caller

LEMMA TypePump == TypeOK /\ Pump => TypeOK'
<1>. SUFFICES ASSUME TypeOK, Pump PROVE TypeOK'
  OBVIOUS
<1>. USE DEF TypeOK, requestVars, orderVars, modeVars, serverVars, boundVars
<1>1. ASSUME NEW kind, Reading(kind)
      PROVE  stdout' \in Seq(Lines) /\ NextLine \in Lines /\ NextLine.kind = kind
  BY <1>1, Taken DEF Reading, NextLine
<1>2. CASE PumpAnswers
  <2>1. PICK kind \in {"ok", "rpc"} :
          /\ Reading(kind)
          /\ waiters' = waiters \ WaiterOf(NextLine)
          /\ inbox' = [r \in Requests |-> IF r \in WaiterOf(NextLine) THEN kind ELSE inbox[r]]
          /\ UNCHANGED <<chip, carded>>
    BY <1>2 DEF PumpAnswers
  <2>. QED
    BY <1>1, <2>1 DEF Reading, Lines
<1>3. CASE PumpJudges
  <2>1. [of |-> NextLine.of, mode |-> NextLine.mode] \in Running
    BY <1>1, <1>3 DEF PumpJudges, Lines, Running
  <2>. QED
    BY <1>1, <1>3, <2>1 DEF PumpJudges, Reading
<1>4. CASE PumpRestates
  <2>1. chip' \in Modes
    BY <1>1, <1>4 DEF PumpRestates, Lines
  <2>. QED
    BY <1>1, <1>4, <2>1 DEF PumpRestates, Reading
<1>5. CASE PumpEnds
  BY <1>5 DEF PumpEnds, Drained
<1>. QED
  BY <1>2, <1>3, <1>4, <1>5 DEF Pump

LEMMA TypeServer == TypeOK /\ Server => TypeOK'
<1>. SUFFICES ASSUME TypeOK, Server PROVE TypeOK'
  OBVIOUS
<1>. USE DEF TypeOK, clientVars, requestVars, orderVars, modeVars
<1>1. stdin # <<>> => Head(stdin) \in Frames /\ Tail(stdin) \in Seq(Frames)
  BY Taken
<1>2. ASSUME NEW line \in Lines, Says(line) PROVE stdout' \in Seq(Lines)
  BY <1>2, Added DEF Says
<1>3. ASSUME NEW r \in Requests, NEW kind \in {"ok", "rpc"}
      PROVE  Line(kind, r, NoMode) \in Lines
  BY DEF Line, Lines
<1>4. CASE StartsTurn
  <2>. DEFINE of == Head(stdin).of
              m == IF Head(stdin).mode = NoMode THEN thread ELSE Head(stdin).mode
  <2>1. of \in Turns /\ m \in Modes
    BY <1>1, <1>4 DEF StartsTurn, Frames
  <2>2. Line("settings", Nobody, m) \in Lines
    BY <2>1 DEF Line, Lines
  <2>3. /\ turn' = [of |-> of, mode |-> m] /\ thread' = m
        /\ UNCHANGED stdout \/ Says(Line("settings", Nobody, m))
        /\ stdin' = Tail(stdin) /\ owed' = owed \cup {of}
        /\ UNCHANGED <<clientVars, child, answered, asks, faults>>
    BY <1>4 DEF StartsTurn
  <2>. HIDE DEF of, m
  <2>4. turn' \in Running
    BY <2>1, <2>3 DEF Running
  <2>5. stdout' \in Seq(Lines)
    BY <1>2, <2>2, <2>3
  <2>. QED
    BY <1>1, <1>4, <2>1, <2>3, <2>4, <2>5 DEF StartsTurn, Requests
<1>5. CASE AnswersRead
  BY <1>1, <1>2, <1>3, <1>5 DEF AnswersRead, Frames
<1>6. CASE Refuses
  BY <1>1, <1>2, <1>3, <1>6 DEF Refuses, Frames
<1>7. ASSUME NEW r \in Requests, Answers(r) PROVE TypeOK'
  BY <1>2, <1>3, <1>7 DEF Answers
<1>8. CASE AsksForTool
  <2>1. Line("ask", turn.of, turn.mode) \in Lines
    BY <1>8 DEF AsksForTool, Running, Line, Lines
  <2>. QED
    BY <1>2, <1>8, <2>1 DEF AsksForTool
<1>9. CASE EndsTurn
  BY <1>9 DEF EndsTurn
<1>10. CASE Exits
  <2>1. stdin' \in Seq(Frames)
    BY <1>10 DEF Exits
  <2>. QED
    BY <1>10, <2>1 DEF Exits
<1>. QED
  BY <1>4, <1>5, <1>6, <1>7, <1>8, <1>9, <1>10 DEF Server

LEMMA TypeStep == TypeOK /\ [Next]_vars => TypeOK'
<1>. SUFFICES ASSUME TypeOK, [Next]_vars PROVE TypeOK'
  OBVIOUS
<1>1. ASSUME NEW m \in Modes, Pick(m) PROVE TypeOK'
  BY <1>1 DEF Pick, TypeOK, requestVars, orderVars, serverVars
<1>2. CASE UNCHANGED vars
  BY <1>2 DEF TypeOK, vars, requestVars, orderVars, modeVars, serverVars, boundVars
<1>. QED
  BY <1>1, <1>2, TypeCaller, TypePump, TypeServer DEF Next

(* Every variable keeps its type.                                            *)
THEOREM TypeCorrect == Spec => []TypeOK
  BY TypeStep, TypeInit, PTL DEF Spec

-----------------------------------------------------------------------------
(* The invariant.                                                            *)

(* Only what was sent is with the child.                                     *)
FramesAreSent ==
    /\ \A i \in 1 .. Len(stdin) : phase[stdin[i].of] # "idle"
    /\ \A r \in owed : phase[r] # "idle"

(* What a request is told of the child is true, at every stage of the way.   *)
LinesAreTrue ==
    \A i \in 1 .. Len(stdout) :
        stdout[i].kind \in {"ok", "rpc"} => stdout[i].of \in answered

Lost == child = "exited" \/ pump = "gone"

ResultsAreTrue ==
    \A r \in Requests :
        /\ inbox[r] \in {"ok", "rpc"} => r \in answered
        /\ inbox[r] = "closed" => pump = "gone"
        /\ phase[r] = "settling" => r \in answered
        /\ fate[r] \in {"ok", "rpc"} => r \in answered
        /\ fate[r] = "closed" => Lost
        /\ phase[r] = "failed" => fate[r] # "none"

(* Whoever waits has a waiter the pump will find, or an answer, or came too  *)
(* late.                                                                     *)
NobodyIsForgotten ==
    \A r \in Requests :
        phase[r] \in {"registered", "written"} /\ inbox[r] = "empty" =>
            IF pump = "reading" THEN r \in waiters ELSE r \in late

IInv == TypeOK /\ FramesAreSent /\ LinesAreTrue /\ ResultsAreTrue /\ NobodyIsForgotten

LEMMA InitIInv == Init => IInv
<1>. SUFFICES ASSUME Init PROVE IInv
  OBVIOUS
<1>1. stdin = <<>> /\ stdout = <<>> /\ Len(<<>>) = 0
  BY DEF Init
<1>. QED
  BY <1>1, TypeInit DEF Init, IInv, FramesAreSent, LinesAreTrue, ResultsAreTrue, NobodyIsForgotten

(* A caller's step: what it does to the queues and to one request.           *)
LEMMA CallerKeeps ==
  ASSUME IInv, TypeOK', NEW r \in Requests, Take(r) \/ Caller(r)
  PROVE  IInv'
<1>. USE DEF IInv, TypeOK, requestVars, orderVars, modeVars, serverVars, boundVars
<1>1. /\ UNCHANGED <<stdout, answered, owed, pump, child>>
      /\ \A q \in Requests : q # r =>
            /\ phase'[q] = phase[q] /\ fate'[q] = fate[q] /\ inbox'[q] = inbox[q]
            /\ q \in waiters' <=> q \in waiters
            /\ q \in late => q \in late'
      /\ phase'[r] # "idle"
      /\ inbox'[r] \in {inbox[r], "empty"}
  BY DEF Take, Caller, Register, Write, WriteFails, Receive, Settle, TimeOut, KeepMode, EndWith
<1>2. FramesAreSent'
  <2>1. \A q \in Requests : phase[q] # "idle" => phase'[q] # "idle"
    BY <1>1
  <2>2. \A k \in 1 .. Len(stdin) : phase'[stdin[k].of] # "idle"
    <3>1. \A k \in 1 .. Len(stdin) : stdin[k] \in Frames
      BY ElementOfSeq
    <3>. QED
      BY <2>1, <3>1 DEF FramesAreSent, Frames
  <2>3. \A q \in owed' : phase'[q] # "idle"
    BY <1>1, <2>1 DEF FramesAreSent
  <2>4. CASE Write(r)
    <3>. DEFINE f == [of |-> r, mode |-> carries[r]]
    <3>1. stdin' = Append(stdin, f) /\ f \in Frames /\ phase'[f.of] # "idle"
      BY <1>1, <2>4 DEF Write, Frames
    <3>. HIDE DEF f
    <3>2. \A k \in 1 .. Len(stdin') : phase'[stdin'[k].of] # "idle"
      BY <2>2, <3>1, Added
    <3>. QED
      BY <2>3, <3>2 DEF FramesAreSent
  <2>5. CASE UNCHANGED stdin
    BY <2>2, <2>3, <2>5 DEF FramesAreSent
  <2>. QED
    BY <2>4, <2>5 DEF Take, Caller, Register, WriteFails, Receive, Settle, TimeOut, KeepMode
<1>3. LinesAreTrue'
  BY <1>1 DEF LinesAreTrue
<1>4. ResultsAreTrue'
  <2>1. /\ phase'[r] = "settling" => r \in answered
        /\ fate'[r] \in {"ok", "rpc"} => r \in answered
        /\ fate'[r] = "closed" => Lost
        /\ phase'[r] = "failed" => fate'[r] # "none"
    BY DEF Take, Caller, Register, Write, WriteFails, Receive, Settle, TimeOut, KeepMode,
       EndWith, ResultsAreTrue, Lost
  <2>. QED
    BY <1>1, <2>1 DEF ResultsAreTrue, Lost
<1>5. NobodyIsForgotten'
  <2>1. phase'[r] \in {"registered", "written"} /\ inbox'[r] = "empty" =>
            IF pump = "reading" THEN r \in waiters' ELSE r \in late'
    BY DEF Take, Caller, Register, Write, WriteFails, Receive, Settle, TimeOut, KeepMode,
       EndWith, NobodyIsForgotten
  <2>. QED
    BY <1>1, <2>1 DEF NobodyIsForgotten
<1>. QED
  BY <1>2, <1>3, <1>4, <1>5

(* The pump's step: an answer goes to its waiter, the end to every one.      *)
LEMMA PumpKeeps ==
  ASSUME IInv, TypeOK', Pump
  PROVE  IInv'
<1>. USE DEF IInv, TypeOK, requestVars, orderVars, modeVars, serverVars, boundVars
<1>1. UNCHANGED <<phase, fate, stdin, owed, answered, late, child>>
  BY DEF Pump, PumpAnswers, PumpJudges, PumpRestates, PumpEnds, Reading
<1>2. FramesAreSent'
  BY <1>1 DEF FramesAreSent
<1>3. ASSUME NEW kind, Reading(kind)
      PROVE  LinesAreTrue' /\ pump' = pump /\ (kind \in {"ok", "rpc"} => NextLine.of \in answered)
  BY <1>1, <1>3, Taken DEF Reading, NextLine, LinesAreTrue
<1>4. CASE PumpAnswers
  <2>1. PICK kind \in {"ok", "rpc"} :
          /\ Reading(kind)
          /\ waiters' = waiters \ WaiterOf(NextLine)
          /\ inbox' = [r \in Requests |-> IF r \in WaiterOf(NextLine) THEN kind ELSE inbox[r]]
    BY <1>4 DEF PumpAnswers
  <2>2. ResultsAreTrue'
    BY <1>1, <1>3, <2>1 DEF ResultsAreTrue, WaiterOf, Lost
  <2>3. NobodyIsForgotten'
    BY <1>1, <1>3, <2>1 DEF NobodyIsForgotten, WaiterOf
  <2>. QED
    BY <1>2, <1>3, <2>1, <2>2, <2>3
<1>5. CASE PumpJudges \/ PumpRestates
  <2>1. LinesAreTrue' /\ UNCHANGED <<waiters, inbox, pump>>
    BY <1>3, <1>5 DEF PumpJudges, PumpRestates
  <2>. QED
    BY <1>1, <1>2, <2>1 DEF ResultsAreTrue, NobodyIsForgotten, Lost
<1>6. CASE PumpEnds
  <2>1. /\ pump = "reading" /\ pump' = "gone" /\ UNCHANGED stdout
        /\ inbox' = [r \in Requests |-> IF r \in waiters THEN "closed" ELSE inbox[r]]
    BY <1>6 DEF PumpEnds, Drained
  <2>. QED
    BY <1>1, <1>2, <2>1 DEF LinesAreTrue, ResultsAreTrue, NobodyIsForgotten, Lost
<1>. QED
  BY <1>4, <1>5, <1>6 DEF Pump

(* The child's step: it takes a frame up, says a line, or is gone.           *)
LEMMA ServerKeeps ==
  ASSUME IInv, TypeOK', Server
  PROVE  IInv'
<1>. USE DEF IInv, TypeOK, clientVars, requestVars, orderVars, modeVars
<1>1. /\ UNCHANGED <<phase, fate, inbox, waiters, pump, late>>
      /\ answered \subseteq answered'
      /\ child' = child \/ child' = "exited"
  BY DEF Server, StartsTurn, AnswersRead, Refuses, Answers, AsksForTool, EndsTurn, Exits
<1>2. ResultsAreTrue' /\ NobodyIsForgotten'
  BY <1>1 DEF ResultsAreTrue, NobodyIsForgotten, Lost
<1>3. ASSUME stdin # <<>>, stdin' = Tail(stdin), owed' \subseteq owed \cup {Head(stdin).of}
      PROVE  FramesAreSent'
  <2>1. Head(stdin) = stdin[1] /\ phase[Head(stdin).of] # "idle"
    BY <1>3, Taken DEF FramesAreSent
  <2>2. \A q \in owed' : phase'[q] # "idle"
    BY <1>1, <1>3, <2>1 DEF FramesAreSent
  <2>3. \A k \in 1 .. Len(stdin') : phase'[stdin'[k].of] # "idle"
    BY <1>1, <1>3, Taken DEF FramesAreSent
  <2>. QED
    BY <2>2, <2>3 DEF FramesAreSent
<1>4. ASSUME UNCHANGED stdin, owed' \subseteq owed PROVE FramesAreSent'
  BY <1>1, <1>4 DEF FramesAreSent
<1>5. ASSUME stdin' = <<>>, owed' = {} PROVE FramesAreSent'
  <2>1. Len(stdin') = 0
    BY <1>5
  <2>. QED
    BY <1>5, <2>1 DEF FramesAreSent
<1>6. FramesAreSent'
  BY <1>3, <1>4, <1>5 DEF Server, StartsTurn, AnswersRead, Refuses, Answers, AsksForTool,
     EndsTurn, Exits, FramesAreSent
<1>7. ASSUME NEW line \in Lines, Says(line), line.kind \in {"ok", "rpc"} => line.of \in answered'
      PROVE  LinesAreTrue'
  BY <1>1, <1>7, Added DEF Says, LinesAreTrue
<1>8. ASSUME UNCHANGED stdout PROVE LinesAreTrue'
  BY <1>1, <1>8 DEF LinesAreTrue
<1>9. LinesAreTrue'
  <2>1. CASE StartsTurn
    <3>1. PICK m \in Modes : UNCHANGED stdout \/ Says(Line("settings", Nobody, m))
      BY <2>1, Taken DEF StartsTurn, Frames
    <3>2. Line("settings", Nobody, m) \in Lines /\ Line("settings", Nobody, m).kind = "settings"
      BY DEF Line, Lines
    <3>. QED
      BY <1>7, <1>8, <3>1, <3>2
  <2>2. ASSUME NEW r \in Requests, NEW kind \in {"ok", "rpc"},
               Says(Line(kind, r, NoMode)), answered' = answered \cup {r}
        PROVE  LinesAreTrue'
    <3>1. Line(kind, r, NoMode) \in Lines /\ Line(kind, r, NoMode).of = r
      BY DEF Line, Lines
    <3>. QED
      BY <1>7, <2>2, <3>1
  <2>3. CASE AnswersRead \/ Refuses
    <3>1. Head(stdin).of \in Requests
      BY <2>3, Taken DEF AnswersRead, Refuses, Frames
    <3>. QED
      BY <2>2, <2>3, <3>1 DEF AnswersRead, Refuses
  <2>4. ASSUME NEW r \in Requests, Answers(r) PROVE LinesAreTrue'
    BY <2>2, <2>4 DEF Answers
  <2>5. CASE AsksForTool
    <3>1. Line("ask", turn.of, turn.mode) \in Lines
      BY <2>5 DEF AsksForTool, Running, Line, Lines
    <3>2. Line("ask", turn.of, turn.mode).kind = "ask"
      BY DEF Line
    <3>. QED
      BY <1>7, <2>5, <3>1, <3>2 DEF AsksForTool
  <2>6. CASE EndsTurn \/ Exits
    BY <1>8, <2>6 DEF EndsTurn, Exits
  <2>. QED
    BY <2>1, <2>3, <2>4, <2>5, <2>6 DEF Server
<1>. QED
  BY <1>2, <1>6, <1>9

THEOREM Invariant == Spec => []IInv
<1>1. IInv /\ [Next]_vars => IInv'
  <2>. SUFFICES ASSUME IInv, TypeOK', [Next]_vars PROVE IInv'
    BY TypeStep DEF IInv
  <2>1. ASSUME NEW m \in Modes, Pick(m) PROVE IInv'
    BY <2>1 DEF Pick, IInv, FramesAreSent, LinesAreTrue, ResultsAreTrue, NobodyIsForgotten, Lost,
       requestVars, orderVars, serverVars
  <2>2. CASE UNCHANGED vars
    BY <2>2 DEF IInv, FramesAreSent, LinesAreTrue, ResultsAreTrue, NobodyIsForgotten, Lost,
       vars, requestVars, orderVars, modeVars, serverVars, boundVars
  <2>. QED
    BY <2>1, <2>2, CallerKeeps, PumpKeeps, ServerKeeps DEF Next
<1>. QED
  BY <1>1, InitIInv, PTL DEF Spec

(* Nobody who was waiting when the child's output ended sits out the         *)
(* deadline.                                                                 *)
THEOREM EndFreesThemAlways == Spec => []EndFreesEveryWaiter
<1>1. IInv => EndFreesEveryWaiter
  BY DEF IInv, TypeOK, NobodyIsForgotten, EndFreesEveryWaiter
<1>. QED
  BY <1>1, Invariant, PTL

-----------------------------------------------------------------------------
(* The refinement of RequestContract.                                        *)

LEMMA ContractInit == Init => Contract!CInit
  BY DEF Init, Contract!CInit, outcome

(* A caller's step opens a call, settles one, or shows nothing.              *)
LEMMA ContractCaller ==
  ASSUME IInv, NEW r \in Requests, Take(r) \/ Caller(r)
  PROVE  [Contract!CNext]_(Contract!cvars)
<1>. USE DEF IInv, TypeOK, requestVars, orderVars, modeVars, serverVars, boundVars
<1>1. UNCHANGED <<answered, pump, child>>
  BY DEF Take, Caller, Register, Write, WriteFails, Receive, Settle, TimeOut, KeepMode
<1>2. ASSUME outcome[r] = "idle", outcome' = [outcome EXCEPT ![r] = "open"]
      PROVE  Contract!CNext
  BY <1>1, <1>2 DEF Contract!Open, Contract!CNext
<1>3. ASSUME outcome[r] = "open", NEW how \in {"ok", "rpc", "closed", "timeout"},
             how \in {"ok", "rpc"} => r \in answered, how = "closed" => Lost,
             outcome' = [outcome EXCEPT ![r] = how]
      PROVE  Contract!CNext
  BY <1>1, <1>3 DEF Contract!Settle, Contract!CNext, Lost
<1>4. ASSUME UNCHANGED outcome PROVE UNCHANGED Contract!cvars
  BY <1>1, <1>4 DEF Contract!cvars
<1>5. /\ \A q \in Requests : q # r => phase'[q] = phase[q] /\ fate'[q] = fate[q]
      /\ phase' \in [Requests -> {"idle", "taken", "registered", "written", "settling",
                                 "failed", "done"}]
  BY DEF Take, Caller, Register, Write, WriteFails, Receive, Settle, TimeOut, KeepMode, EndWith
<1>6. CASE Take(r) \/ (Register(r) /\ phase[r] = "idle")
  <2>1. phase[r] = "idle" /\ phase'[r] \in {"taken", "registered"}
    BY <1>6 DEF Take, Register
  <2>. QED
    BY <1>2, <1>5, <2>1 DEF outcome
<1>7. ASSUME phase[r] \notin {"idle", "done"}, phase'[r] \notin {"idle", "done"}
      PROVE  [Contract!CNext]_(Contract!cvars)
  <2>1. UNCHANGED outcome
    BY <1>5, <1>7 DEF outcome
  <2>. QED
    BY <1>4, <2>1
<1>8. ASSUME phase[r] \notin {"idle", "done"}, phase'[r] = "done",
             NEW how \in {"ok", "rpc", "closed", "timeout"}, fate'[r] = how,
             how \in {"ok", "rpc"} => r \in answered, how = "closed" => Lost
      PROVE  [Contract!CNext]_(Contract!cvars)
  <2>1. outcome[r] = "open" /\ outcome' = [outcome EXCEPT ![r] = how]
    BY <1>5, <1>8 DEF outcome
  <2>. QED
    BY <1>3, <1>8, <2>1
<1>9. CASE (Register(r) /\ phase[r] # "idle") \/ Write(r)
  BY <1>7, <1>9 DEF Register, Write
<1>10. ASSUME phase[r] \notin {"idle", "done"}, NEW how \in {"ok", "rpc", "closed", "timeout"},
              EndWith(r, how), how \in {"ok", "rpc"} => r \in answered, how = "closed" => Lost
       PROVE  [Contract!CNext]_(Contract!cvars)
  <2>1. fate'[r] = how /\ phase'[r] \in {"failed", "done"}
    BY <1>10 DEF EndWith
  <2>. QED
    BY <1>7, <1>8, <1>10, <2>1
<1>11. CASE WriteFails(r)
  BY <1>10, <1>11 DEF WriteFails, Lost
<1>12. CASE Receive(r)
  <2>1. CASE inbox[r] = "ok"
    BY <1>7, <1>12, <2>1 DEF Receive
  <2>2. CASE inbox[r] # "ok"
    BY <1>10, <1>12, <2>2 DEF Receive, ResultsAreTrue, Lost
  <2>. QED
    BY <2>1, <2>2
<1>13. CASE Settle(r)
  BY <1>10, <1>13 DEF Settle, ResultsAreTrue
<1>14. CASE TimeOut(r)
  BY <1>10, <1>14 DEF TimeOut
<1>15. CASE KeepMode(r)
  BY <1>8, <1>15 DEF KeepMode, ResultsAreTrue
<1>. HIDE DEF IInv, TypeOK
<1>16. CASE Register(r)
  BY <1>6, <1>9, <1>16
<1>. QED
  BY <1>6, <1>9, <1>11, <1>12, <1>13, <1>14, <1>15, <1>16 DEF Caller

(* The child answers what is open, and the connection is lost.               *)
LEMMA ContractRest ==
  ASSUME IInv, Pump \/ Server \/ \E m \in Modes : Pick(m)
  PROVE  [Contract!CNext]_(Contract!cvars)
<1>. USE DEF IInv, TypeOK, clientVars, requestVars, orderVars, modeVars, serverVars, boundVars
<1>1. UNCHANGED outcome
  BY DEF Pump, PumpAnswers, PumpJudges, PumpRestates, PumpEnds, Reading, Server, StartsTurn,
     AnswersRead, Refuses, Answers, AsksForTool, EndsTurn, Exits, Pick, outcome
<1>2. ASSUME NEW r \in Requests, phase[r] # "idle", answered' = answered \cup {r},
             UNCHANGED <<pump, child>>
      PROVE  Contract!CNext
  <2>1. outcome[r] # "idle"
    BY <1>2 DEF outcome
  <2>. QED
    BY <1>1, <1>2, <2>1 DEF Contract!Answer, Contract!CNext
<1>3. CASE PumpEnds \/ Exits
  BY <1>1, <1>3 DEF PumpEnds, Exits, Contract!GoDown, Contract!CNext
<1>4. CASE AnswersRead \/ Refuses
  <2>1. Head(stdin) \in Frames /\ phase[Head(stdin).of] # "idle"
    BY <1>4, Taken DEF AnswersRead, Refuses, FramesAreSent
  <2>2. Head(stdin).of \in Requests
    BY <2>1 DEF Frames
  <2>. QED
    BY <1>2, <1>4, <2>1, <2>2 DEF AnswersRead, Refuses
<1>5. ASSUME NEW r \in Requests, Answers(r) PROVE Contract!CNext
  BY <1>2, <1>5 DEF Answers, FramesAreSent
<1>6. ASSUME UNCHANGED <<answered, pump, child>> PROVE UNCHANGED Contract!cvars
  BY <1>1, <1>6 DEF Contract!cvars
<1>7. CASE \/ PumpAnswers \/ PumpJudges \/ PumpRestates \/ StartsTurn \/ AsksForTool
           \/ EndsTurn \/ \E m \in Modes : Pick(m)
  BY <1>6, <1>7 DEF PumpAnswers, PumpJudges, PumpRestates, Reading, StartsTurn, AsksForTool,
     EndsTurn, Pick
<1>. QED
  BY <1>3, <1>4, <1>5, <1>7 DEF Pump, Server

(* The request lane of the Codex child implements RequestContract.           *)
THEOREM Refinement == Spec => KeepsTheContract
<1>1. IInv /\ [Next]_vars => [Contract!CNext]_(Contract!cvars)
  <2>. SUFFICES ASSUME IInv, [Next]_vars PROVE [Contract!CNext]_(Contract!cvars)
    OBVIOUS
  <2>1. CASE UNCHANGED vars
    BY <2>1 DEF vars, requestVars, serverVars, Contract!cvars, outcome
  <2>. QED
    BY <2>1, ContractCaller, ContractRest DEF Next
<1>. QED
  BY <1>1, ContractInit, Invariant, PTL DEF Spec, KeepsTheContract, Contract!CSpec

-----------------------------------------------------------------------------
(* The gate and the picks: the invariant.                                    *)

(* The phases a request has once its frame was written, and the requests of  *)
(* which a pipe still has one.                                               *)
Reached == {"written", "settling", "failed", "done"}

Owners(s) == {s[i].of : i \in 1 .. Len(s)}
Queued == Owners(stdin)

Kind(s, kind) == {i \in 1 .. Len(s) : s[i].kind = kind}
Ofs(s, kind) == {s[i].of : i \in Kind(s, kind)}
Told(kind) == Ofs(stdout, kind)

(* The turns whose asks may still come to the pump, with their modes.        *)
Asks(s) == {[of |-> s[i].of, mode |-> s[i].mode] : i \in Kind(s, "ask")}
Judged == Asks(stdout)
Active == Judged \cup (IF turn = NoTurn THEN {} ELSE {turn})
OnlyOf(x) == \A a \in Active : a.of = x

(* A start the child took up, and whose caller still waits.                  *)
Started(x) == x \in owed \/ x \in Told("ok") \/ inbox[x] = "ok" \/ phase[x] = "settling"

(* A start the child turned down, or that no pipe took.                      *)
Refused(x) ==
    \/ x \in Told("rpc") \/ inbox[x] = "rpc" \/ fate[x] = "rpc"
    \/ fate[x] = "closed" /\ pump = "reading"

(* A turn has the lock from its registration to its answer; a read has it    *)
(* until it is written.                                                      *)
LockIsHeld ==
    \A x \in Requests :
        \/ phase[x] = "registered"
        \/ x \in Turns /\ phase[x] \in {"written", "settling"}
        => holder = x

(* A fate is given once, when the request is over.                           *)
FatesAreFinal ==
    \A x \in Requests : phase[x] \in {"failed", "done"} <=> fate[x] # "none"

(* Nothing is with the child of a request that was not written, and a frame  *)
(* in the pipe was not taken up.                                             *)
NothingEarly ==
    /\ \A x \in Requests \ Queued : phase[x] \notin Reached =>
          /\ x \notin owed \cup answered
          /\ \A a \in Active : a.of # x
    /\ \A x \in Queued :
          /\ phase[x] \in Reached
          /\ x \notin owed \cup answered
          /\ \A a \in Active : a.of # x
    /\ child = "exited" => stdin = <<>>
    /\ \A x \in Detached : carries[x] = NoMode
    /\ \A ask \in carded : phase[ask.of] # "idle"

(* A frame carries its request's mode, no request has two, and the frame of  *)
(* the turn that has the lock is the last.                                   *)
FramesAreInOrder ==
    \A i \in 1 .. Len(stdin) :
        /\ stdin[i].mode = carries[stdin[i].of]
        /\ \A j \in 1 .. Len(stdin) : stdin[j].of = stdin[i].of => i = j
        /\ stdin[i].of \in Turns /\ stdin[i].of = holder => i = Len(stdin)

(* While a start has the lock, nothing was written after it.                 *)
NothingAfter ==
    \A x \in Turns :
        phase[x] \in {"written", "settling"} /\ x \in owed \cup answered => stdin = <<>>

(* While a turn has the lock, what was attempted last is its mode.           *)
AttemptIsNoted ==
    \A x \in Turns :
        phase[x] \in {"registered", "written", "settling"} /\ carries[x] # NoMode =>
            attempted = carries[x]

(* What was refused does not run, and will not.                              *)
RefusedNeverStart ==
    \A x \in Turns : Refused(x) =>
        /\ x \notin Queued /\ ~Started(x)
        /\ \A a \in Active : a.of # x

(* A start's answer comes after all that earlier turns asked.                *)
AnswersComeLast ==
    \A x \in Turns :
        /\ phase[x] = "written" /\ x \in owed \cup Told("ok") /\ turn # NoTurn => turn.of = x
        /\ phase[x] = "settling" \/ (phase[x] = "written" /\ inbox[x] = "ok") => OnlyOf(x)
        /\ phase[x] = "written" =>
               \A i, j \in 1 .. Len(stdout) :
                   /\ i < j
                   /\ stdout[i].kind = "ok" /\ stdout[i].of = x
                   /\ stdout[j].kind = "ask"
                   => stdout[j].of = x

(* The mode a turn runs under is the one its frame named, or the thread's.   *)
ModesAreCarried ==
    /\ \A a \in Active : carries[a.of] # NoMode => a.mode = carries[a.of]
    /\ \A x \in Turns :
          phase[x] \in {"written", "settling"} /\ Started(x) /\ carries[x] # NoMode =>
              thread = carries[x]

(* While a turn whose start was answered can still ask for something, its    *)
(* mode is the one in force.                                                 *)
InForceIsOurs ==
    \A a \in Active : fate[a.of] = "ok" /\ carries[a.of] # NoMode => inForce = carries[a.of]

(* A thread that is Read-only is known to be: the mode is in force, or the   *)
(* start that made it so is still waited for.                                *)
ThreadIsKnown ==
    pump = "reading" /\ child = "running" /\ thread = "readonly" /\ ~LateStart =>
        \/ inForce = "readonly"
        \/ /\ holder \in Turns /\ phase[holder] \in {"written", "settling"}
           /\ Started(holder) /\ carries[holder] = "readonly"

(* So is the mode of a turn that named none and runs under the thread's.     *)
InheritedIsKnown ==
    pump = "reading" /\ ~LateStart =>
        \A a \in Active :
            a.mode = "readonly" /\ carries[a.of] = NoMode /\ fate[a.of] # "timeout" =>
                inForce = "readonly"

GInv ==
    /\ LockIsHeld /\ FatesAreFinal /\ NothingEarly /\ FramesAreInOrder /\ NothingAfter
    /\ AttemptIsNoted /\ RefusedNeverStart /\ AnswersComeLast /\ ModesAreCarried
    /\ InForceIsOurs /\ ThreadIsKnown /\ InheritedIsKnown /\ ReadOnlyTurnsAskNothing

-----------------------------------------------------------------------------
(* What a step does to the pipes, as sets.                                   *)

(* Of which requests a pipe has a frame, after one more or one less.         *)
LEMMA OwnersOf ==
  ASSUME NEW s \in Seq(Frames)
  PROVE  /\ Owners(s) \subseteq Requests
         /\ \A f \in Frames : Owners(Append(s, f)) = Owners(s) \cup {f.of}
         /\ s # <<>> => Owners(s) = Owners(Tail(s)) \cup {Head(s).of}
         /\ Owners(<<>>) = {}
<1>1. Owners(s) \subseteq Requests
  <2>1. \A i \in 1 .. Len(s) : s[i] \in Frames
    BY ElementOfSeq
  <2>. QED
    BY <2>1 DEF Owners, Frames
<1>2. ASSUME NEW f \in Frames PROVE Owners(Append(s, f)) = Owners(s) \cup {f.of}
  <2>. DEFINE t == Append(s, f)
  <2>1. /\ Len(t) = Len(s) + 1 /\ t[Len(t)] = f /\ Len(s) \in Nat
        /\ \A i \in 1 .. Len(s) : t[i] = s[i]
    BY AppendProperties
  <2>. HIDE DEF t
  <2>2. \A i \in 1 .. Len(t) : i \in 1 .. Len(s) \/ i = Len(t)
    BY <2>1
  <2>3. 1 .. Len(s) \subseteq 1 .. Len(t) /\ Len(t) \in 1 .. Len(t)
    BY <2>1
  <2>4. Owners(t) = Owners(s) \cup {f.of}
    BY <2>1, <2>2, <2>3 DEF Owners
  <2>. QED
    BY <2>4 DEF t
<1>3. ASSUME s # <<>> PROVE Owners(s) = Owners(Tail(s)) \cup {Head(s).of}
  <2>. DEFINE t == Tail(s)
  <2>1. /\ Len(t) = Len(s) - 1 /\ Head(s) = s[1] /\ Len(s) \in Nat /\ Len(s) >= 1
        /\ \A i \in 1 .. Len(t) : t[i] = s[i + 1]
    BY <1>3, HeadTailProperties
  <2>. HIDE DEF t
  <2>2. \A i \in 1 .. Len(s) : i = 1 \/ (i - 1 \in 1 .. Len(t) /\ t[i - 1] = s[i])
    BY <2>1
  <2>3. \A i \in 1 .. Len(t) : i + 1 \in 1 .. Len(s)
    BY <2>1
  <2>4. 1 \in 1 .. Len(s)
    BY <2>1
  <2>5. Owners(s) = Owners(t) \cup {Head(s).of}
    BY <2>1, <2>2, <2>3, <2>4 DEF Owners
  <2>. QED
    BY <2>5 DEF t
<1>4. Owners(<<>>) = {}
  BY DEF Owners
<1>. QED
  BY <1>1, <1>2, <1>3, <1>4

(* What a line says, without its kind.                                       *)
Entry(l) == [of |-> l.of, mode |-> l.mode]

(* What the lines of the child's output say, after one more or one less.     *)
LEMMA LinesOf ==
  ASSUME NEW s \in Seq(Lines)
  PROVE  /\ Asks(s) \subseteq Running
         /\ \A l \in Lines :
              /\ \A kind : Ofs(Append(s, l), kind) =
                              IF l.kind = kind THEN Ofs(s, kind) \cup {l.of} ELSE Ofs(s, kind)
              /\ Asks(Append(s, l)) = IF l.kind = "ask" THEN Asks(s) \cup {Entry(l)} ELSE Asks(s)
         /\ s # <<>> =>
              /\ \A kind : Ofs(s, kind) = IF Head(s).kind = kind THEN Ofs(Tail(s), kind) \cup {Head(s).of}
                                          ELSE Ofs(Tail(s), kind)
              /\ Asks(s) = IF Head(s).kind = "ask" THEN Asks(Tail(s)) \cup {Entry(Head(s))}
                           ELSE Asks(Tail(s))
<1>1. Asks(s) \subseteq Running
  <2>1. \A i \in 1 .. Len(s) : s[i] \in Lines
    BY ElementOfSeq
  <2>. QED
    BY <2>1 DEF Asks, Kind, Lines, Running
<1>2. ASSUME NEW l \in Lines
      PROVE  /\ \A kind : Ofs(Append(s, l), kind) =
                              IF l.kind = kind THEN Ofs(s, kind) \cup {l.of} ELSE Ofs(s, kind)
             /\ Asks(Append(s, l)) = IF l.kind = "ask" THEN Asks(s) \cup {Entry(l)} ELSE Asks(s)
  <2>. DEFINE t == Append(s, l)
  <2>1. /\ Len(t) = Len(s) + 1 /\ t[Len(t)] = l /\ Len(s) \in Nat
        /\ \A i \in 1 .. Len(s) : t[i] = s[i]
    BY AppendProperties
  <2>. HIDE DEF t
  <2>2. \A kind : Kind(t, kind) = IF l.kind = kind THEN Kind(s, kind) \cup {Len(t)} ELSE Kind(s, kind)
    BY <2>1 DEF Kind
  <2>3. \A kind : \A i \in Kind(s, kind) : t[i] = s[i]
    BY <2>1 DEF Kind
  <2>4. \A kind : Ofs(t, kind) = IF l.kind = kind THEN Ofs(s, kind) \cup {l.of} ELSE Ofs(s, kind)
    BY <2>1, <2>2, <2>3 DEF Ofs
  <2>5. Asks(t) = IF l.kind = "ask" THEN Asks(s) \cup {Entry(l)} ELSE Asks(s)
    BY <2>1, <2>2, <2>3 DEF Asks, Entry
  <2>. QED
    BY <2>4, <2>5 DEF t
<1>3. ASSUME s # <<>>
      PROVE  /\ \A kind : Ofs(s, kind) = IF Head(s).kind = kind THEN Ofs(Tail(s), kind) \cup {Head(s).of}
                                         ELSE Ofs(Tail(s), kind)
             /\ Asks(s) = IF Head(s).kind = "ask" THEN Asks(Tail(s)) \cup {Entry(Head(s))}
                          ELSE Asks(Tail(s))
  <2>. DEFINE t == Tail(s)
              h == Head(s)
  <2>1. /\ Len(t) = Len(s) - 1 /\ h = s[1] /\ Len(s) \in Nat /\ Len(s) >= 1
        /\ \A i \in 1 .. Len(t) : t[i] = s[i + 1]
    BY <1>3, HeadTailProperties
  <2>. HIDE DEF t, h
  <2>2. \A kind : \A i \in Kind(s, kind) :
            (i = 1 /\ h.kind = kind) \/ (i - 1 \in Kind(t, kind) /\ t[i - 1] = s[i])
    BY <2>1 DEF Kind
  <2>3. \A kind : /\ \A i \in Kind(t, kind) : i + 1 \in Kind(s, kind) /\ s[i + 1] = t[i]
                  /\ h.kind = kind => 1 \in Kind(s, kind)
    BY <2>1 DEF Kind
  <2>4. \A kind : Ofs(s, kind) = IF h.kind = kind THEN Ofs(t, kind) \cup {h.of} ELSE Ofs(t, kind)
    BY <2>1, <2>2, <2>3 DEF Ofs
  <2>5. Asks(s) = IF h.kind = "ask" THEN Asks(t) \cup {Entry(h)} ELSE Asks(t)
    BY <2>1, <2>2, <2>3 DEF Asks, Entry
  <2>. QED
    BY <2>4, <2>5 DEF t, h
<1>. QED
  BY <1>1, <1>2, <1>3

(* Who is told of an answer was answered.                                    *)
LEMMA ToldIsTrue == LinesAreTrue => Told("ok") \cup Told("rpc") \subseteq answered
  BY DEF Told, Ofs, Kind, LinesAreTrue

-----------------------------------------------------------------------------
(* A caller's step: one request, the lock, the modes, and a frame at most.   *)
LEMMA CallerKeepsGate ==
  ASSUME IInv, IInv', GInv, NEW r \in Requests, Take(r) \/ Caller(r)
  PROVE  GInv'
<1>. USE DEF IInv, TypeOK, requestVars, orderVars, modeVars, serverVars, boundVars
<1>1. /\ UNCHANGED <<stdout, turn, owed, answered, thread, child, pump, carded>>
      /\ \A q \in Requests : q # r =>
            /\ phase'[q] = phase[q] /\ fate'[q] = fate[q]
            /\ carries'[q] = carries[q] /\ inbox'[q] = inbox[q]
      /\ carries'[r] = carries[r] \/ (phase[r] = "idle" /\ r \in Turns /\ phase'[r] = "taken")
      /\ phase[r] \in Reached => phase'[r] \in Reached
      /\ phase'[r] \in Reached => phase[r] \in Reached \cup {"registered"}
      /\ phase'[r] # "idle"
      /\ fate[r] = "none" \/ (fate'[r] = fate[r] /\ phase'[r] = "done")
      /\ \/ UNCHANGED stdin
         \/ Write(r)
  BY DEF Take, Caller, Register, Write, WriteFails, Receive, Settle, TimeOut, KeepMode,
     EndWith,
         Reached, GInv, FatesAreFinal
<1>2. /\ Active' = Active
      /\ \A kind : Told(kind)' = Told(kind)
  BY <1>1 DEF Active, Judged, Asks, Told, Ofs, Kind
<1>3. ASSUME Write(r)
      PROVE  /\ Queued' = Queued \cup {r}
             /\ stdin' = Append(stdin, [of |-> r, mode |-> carries[r]])
             /\ [of |-> r, mode |-> carries[r]] \in Frames
             /\ phase[r] = "registered" /\ phase'[r] = "written" /\ holder = r
             /\ child = "running"
             /\ r \in Detached => holder' = Nobody
             /\ r \in Turns => holder' = r
             /\ UNCHANGED <<fate, carries, attempted, inForce, inbox>>
  <2>. DEFINE f == [of |-> r, mode |-> carries[r]]
  <2>1. f \in Frames /\ f.of = r /\ stdin' = Append(stdin, f)
    BY <1>3 DEF Write, Frames
  <2>. HIDE DEF f
  <2>2. Owners(stdin') = Owners(stdin) \cup {r}
    BY <2>1, OwnersOf
  <2>3. holder = r
    BY <1>3 DEF Write, GInv, LockIsHeld
  <2>. QED
    BY <1>3, <2>1, <2>2, <2>3, RequestsAreApart DEF Write, Queued, f, Requests
<1>4. Active \subseteq Running
  BY LinesOf DEF Active, Judged
<1>5. LockIsHeld'
  BY <1>1, RequestsAreApart DEF GInv, LockIsHeld, Take, Caller, Register, Write,
     WriteFails, Receive, Settle, TimeOut, KeepMode, EndWith
<1>6. FatesAreFinal'
  BY <1>1 DEF GInv, FatesAreFinal, Take, Caller, Register, Write, WriteFails, Receive,
     Settle, TimeOut, KeepMode, EndWith
<1>n. Queued \subseteq Requests /\ (UNCHANGED stdin => Queued' = Queued)
  BY OwnersOf DEF Queued
<1>7. NothingEarly'
  <2>1. \A ask \in carded : ask.of \in Requests
    BY DEF Running, Requests
  <2>2. child = "exited" => stdin' = <<>>
    BY <1>1, <1>3 DEF GInv, NothingEarly
  <2>3. \A x \in Detached : carries'[x] = NoMode
    BY <1>1, RequestsAreApart DEF GInv, NothingEarly, Requests
  <2>4. \A ask \in carded : phase'[ask.of] # "idle"
    BY <1>1, <2>1 DEF GInv, NothingEarly
  <2>5. CASE UNCHANGED stdin
    <3>1. \A x \in Requests \ Queued : phase'[x] \notin Reached =>
              x \notin owed \cup answered /\ \A a \in Active : a.of # x
      BY <1>1 DEF GInv, NothingEarly, Reached
    <3>2. \A x \in Queued :
              phase'[x] \in Reached /\ x \notin owed \cup answered /\ \A a \in Active : a.of # x
      BY <1>1, <1>n DEF GInv, NothingEarly, Reached
    <3>. QED
      BY <1>1, <1>2, <1>n, <2>2, <2>3, <2>4, <2>5, <3>1, <3>2 DEF NothingEarly
  <2>6. CASE Write(r)
    <3>0. r \notin Queued /\ r \notin owed \cup answered /\ \A a \in Active : a.of # r
      BY <1>3, <2>6 DEF GInv, NothingEarly, Reached
    <3>1. \A x \in Requests \ Queued' : phase'[x] \notin Reached =>
              x \notin owed \cup answered /\ \A a \in Active : a.of # x
      BY <1>1, <1>3, <2>6 DEF GInv, NothingEarly, Reached
    <3>2. \A x \in Queued' :
              phase'[x] \in Reached /\ x \notin owed \cup answered /\ \A a \in Active : a.of # x
      BY <1>1, <1>3, <1>n, <2>6, <3>0 DEF GInv, NothingEarly, Reached
    <3>. QED
      BY <1>1, <1>2, <2>2, <2>3, <2>4, <3>1, <3>2 DEF NothingEarly
  <2>. QED
    BY <1>1, <2>5, <2>6
<1>8. FramesAreInOrder'
  <2>1. \A i \in 1 .. Len(stdin) : stdin[i].of \in Queued
    BY DEF Queued, Owners
  <2>2. \A i \in 1 .. Len(stdin) : phase[stdin[i].of] \in Reached /\ stdin[i].of \in Requests
    BY <2>1, OwnersOf DEF GInv, NothingEarly, Queued
  <2>3. \A i \in 1 .. Len(stdin) : carries'[stdin[i].of] = carries[stdin[i].of]
    BY <1>1, <2>2 DEF Reached
  <2>4. CASE UNCHANGED stdin
    <3>1. holder' \in {holder, Nobody} \/ (holder' = r /\ phase[r] \notin Reached)
      BY DEF Take, Caller, Register, Write, WriteFails, Receive, Settle, TimeOut, KeepMode,
         EndWith, Reached
    <3>. QED
      BY <2>2, <2>3, <2>4, <3>1, RequestsAreApart DEF GInv, FramesAreInOrder
  <2>5. CASE Write(r)
    <3>. DEFINE f == [of |-> r, mode |-> carries[r]]
    <3>1. /\ Len(stdin') = Len(stdin) + 1 /\ stdin'[Len(stdin')] = f /\ Len(stdin) \in Nat
          /\ \A i \in 1 .. Len(stdin) : stdin'[i] = stdin[i]
      <4>1. stdin' = Append(stdin, f) /\ f \in Frames
        BY <1>3, <2>5
      <4>. HIDE DEF f
      <4>. QED
        BY <4>1, AppendProperties
    <3>2. f.of = r /\ f.mode = carries[r]
      OBVIOUS
    <3>. HIDE DEF f
    <3>3. \A i \in 1 .. Len(stdin') : i \in 1 .. Len(stdin) \/ i = Len(stdin')
      BY <3>1
    <3>4. \A i \in 1 .. Len(stdin) : stdin[i].of # r
      BY <1>3, <2>2, <2>5 DEF Reached
    <3>5. /\ \A i \in 1 .. Len(stdin') :
                stdin'[i].mode = carries'[stdin'[i].of]
      <4>1. \A i \in 1 .. Len(stdin) : stdin[i].mode = carries[stdin[i].of]
        BY DEF GInv, FramesAreInOrder
      <4>. QED
        BY <1>3, <2>3, <2>5, <3>1, <3>2, <3>3, <4>1
    <3>6. \A i, j \in 1 .. Len(stdin') : stdin'[j].of = stdin'[i].of => i = j
      BY <3>1, <3>2, <3>3, <3>4 DEF GInv, FramesAreInOrder
    <3>7. \A i \in 1 .. Len(stdin') : stdin'[i].of \in Turns /\ stdin'[i].of = holder' => i = Len(stdin')
      <4>1. holder' \in {r, Nobody}
        BY <1>3, <2>5 DEF Requests
      <4>2. \A i \in 1 .. Len(stdin) : stdin'[i].of # holder'
        BY <2>2, <3>1, <3>4, <4>1, RequestsAreApart
      <4>. QED
        BY <3>3, <4>2
    <3>. QED
      BY <3>5, <3>6, <3>7 DEF FramesAreInOrder
  <2>. QED
    BY <1>1, <2>4, <2>5
<1>9. NothingAfter'
  <2>1. CASE Write(r)
    <3>1. \A x \in Turns : phase[x] \in {"written", "settling"} => x = r
      BY <1>3, <2>1 DEF GInv, LockIsHeld, Requests
    <3>2. r \notin owed \cup answered
      BY <1>3, <2>1 DEF GInv, NothingEarly, Reached
    <3>. QED
      BY <1>1, <1>3, <2>1, <3>1, <3>2 DEF NothingAfter, Requests
  <2>2. CASE UNCHANGED stdin
    <3>1. \A x \in Turns : phase'[x] \in {"written", "settling"} =>
              phase[x] \in {"written", "settling"} \/ Write(x)
      BY <1>1 DEF Requests, Take, Caller, Register, Write, WriteFails, Receive, Settle,
         TimeOut, KeepMode, EndWith
    <3>2. \A x \in Turns : Write(x) => x \notin owed \cup answered
      BY DEF Write, GInv, NothingEarly, Reached, Requests, FramesAreInOrder
    <3>. QED
      BY <1>1, <2>2, <3>1, <3>2 DEF GInv, NothingAfter
  <2>. QED
    BY <1>1, <2>1, <2>2
<1>10. AttemptIsNoted'
  BY <1>1, RequestsAreApart DEF GInv, AttemptIsNoted, LockIsHeld, Requests, Attempt, Take,
     Caller, Register, Write, WriteFails, Receive, Settle, TimeOut, KeepMode, EndWith
<1>t. Told("ok") \cup Told("rpc") \subseteq answered
  BY ToldIsTrue
<1>11. RefusedNeverStart'
  <2>1. ASSUME NEW x \in Turns, Refused(x)', x # r PROVE Refused(x)
    BY <1>1, <1>2, <2>1 DEF Refused, Requests
  <2>2. ASSUME Refused(r)' PROVE Refused(r) \/ WriteFails(r)
    BY <1>1, <1>2, <2>2 DEF Refused, Take, Caller, Register, Write, WriteFails, Receive,
       Settle, TimeOut, KeepMode, EndWith, ResultsAreTrue, Lost
  <2>3. ASSUME r \in Turns, WriteFails(r)
        PROVE  r \notin Queued /\ ~Started(r) /\ \A a \in Active : a.of # r
    BY <2>3, <1>t DEF WriteFails, GInv, NothingEarly, Reached, Started, ResultsAreTrue
  <2>5. ASSUME Write(r) PROVE ~Refused(r)
    <3>1. r \notin answered /\ fate[r] = "none"
      BY <1>3, <2>5 DEF GInv, NothingEarly, Reached, FatesAreFinal
    <3>. QED
      BY <1>t, <3>1 DEF Refused, ResultsAreTrue
  <2>6. ASSUME NEW x \in Turns, Refused(x)'
        PROVE  x \notin Queued' /\ ~Started(x) /\ \A a \in Active : a.of # x
    <3>1. CASE Write(r)
      <4>1. x # r /\ Refused(x)
        BY <1>3, <2>1, <2>5, <2>6, <3>1, <2>2 DEF WriteFails
      <4>. QED
        BY <1>3, <3>1, <4>1 DEF GInv, RefusedNeverStart
    <3>2. CASE UNCHANGED stdin
      BY <1>n, <2>1, <2>2, <2>3, <1>t, <2>6, <3>2 DEF GInv, RefusedNeverStart
    <3>. QED
      BY <1>1, <3>1, <3>2
  <2>7. ASSUME NEW x \in Turns, Started(x)' PROVE Started(x)
    BY <1>1, <1>2, <2>7 DEF Started, Requests, Take, Caller, Register, Write, WriteFails,
       Receive, Settle, TimeOut, KeepMode, EndWith
  <2>. QED
    BY <1>1, <1>2, <2>6, <2>7 DEF RefusedNeverStart
<1>12. AnswersComeLast'
  <2>1. ASSUME NEW x \in Turns, phase'[x] = "written" PROVE phase[x] = "written" \/ Write(x)
    BY <1>1, <2>1 DEF Requests, Take, Caller, Register, Write, WriteFails, Receive, Settle,
       TimeOut, KeepMode, EndWith
  <2>2. ASSUME NEW x \in Turns, Write(x)
        PROVE  x \notin owed \cup answered /\ inbox[x] # "ok" /\ phase'[x] = "written"
    BY <2>2 DEF Write, GInv, NothingEarly, Reached, Requests, FramesAreInOrder,
       ResultsAreTrue
  <2>3. ASSUME NEW x \in Turns, phase'[x] = "settling" \/ (phase'[x] = "written" /\ inbox'[x] = "ok")
        PROVE  phase[x] = "settling" \/ (phase[x] = "written" /\ inbox[x] = "ok")
    BY <1>1, <2>2, <2>3 DEF Requests, Take, Caller, Register, Write, WriteFails, Receive,
       Settle, TimeOut, KeepMode, EndWith
  <2>5. ASSUME NEW x \in Turns, phase'[x] = "written"
        PROVE  /\ x \in owed \cup Told("ok") /\ turn # NoTurn => turn.of = x
               /\ \A i, j \in 1 .. Len(stdout) :
                      /\ i < j
                      /\ stdout[i].kind = "ok" /\ stdout[i].of = x
                      /\ stdout[j].kind = "ask"
                      => stdout[j].of = x
    BY <2>1, <2>2, <1>t, <2>5 DEF GInv, AnswersComeLast, LinesAreTrue
  <2>6. ASSUME NEW x \in Turns, phase'[x] = "settling" \/ (phase'[x] = "written" /\ inbox'[x] = "ok")
        PROVE  \A a \in Active : a.of = x
    BY <2>3, <2>6 DEF GInv, AnswersComeLast, OnlyOf
  <2>. QED
    BY <1>1, <1>2, <2>5, <2>6 DEF AnswersComeLast, OnlyOf
<1>13. ModesAreCarried'
  <2>1. \A a \in Active : carries'[a.of] = carries[a.of]
    BY <1>1, <1>4 DEF GInv, NothingEarly, Running, Requests, Reached
  <2>2. ASSUME NEW x \in Turns, phase'[x] \in {"written", "settling"}, Started(x)'
        PROVE  phase[x] \in {"written", "settling"} /\ Started(x) /\ carries'[x] = carries[x]
    <3>1. x \notin owed \cup answered => ~Started(x)'
      BY <1>1, <1>2, <1>t DEF Started, ResultsAreTrue, Requests, Take, Caller, Register,
         Write,
         WriteFails, Receive, Settle, TimeOut, KeepMode, EndWith
    <3>2. ~Write(x)
      BY <2>2, <3>1 DEF Write, GInv, NothingEarly, Reached, Requests, FramesAreInOrder
    <3>. QED
      BY <1>1, <1>2, <2>2, <3>2 DEF Started, Requests, Take, Caller, Register, WriteFails,
         Receive, Settle, TimeOut, KeepMode, EndWith
  <2>. QED
    BY <1>1, <1>2, <2>1, <2>2 DEF GInv, ModesAreCarried
<1>14. InForceIsOurs'
  <2>1. CASE Settle(r)
    <3>1. \A a \in Active : r \in Turns => a.of = r
      BY <2>1 DEF Settle, GInv, AnswersComeLast, OnlyOf
    <3>2. r \in Detached => inForce' = inForce
      BY <2>1 DEF Settle, GInv, NothingEarly
    <3>. QED
      BY <1>1, <1>2, <1>4, <2>1, <3>1, <3>2 DEF Settle, GInv, InForceIsOurs, Requests,
         Running
  <2>2. CASE ~Settle(r)
    <3>1. inForce' = inForce /\ (fate'[r] = "ok" => fate[r] = "ok")
      BY <2>2 DEF Take, Caller, Register, Write, WriteFails, Receive, TimeOut, KeepMode,
         EndWith
    <3>2. \A a \in Active : carries'[a.of] = carries[a.of]
      BY <1>1, <1>4 DEF GInv, NothingEarly, Running, Requests, Reached
    <3>. QED
      BY <1>1, <1>2, <1>4, <3>1, <3>2 DEF GInv, InForceIsOurs, Running, Requests
  <2>. QED
    BY <2>1, <2>2
<1>l. LateStart => LateStart'
  BY <1>1 DEF LateStart, GInv, FatesAreFinal, Requests
<1>15. ThreadIsKnown'
  <2>. SUFFICES ASSUME pump = "reading", child = "running", thread = "readonly", ~LateStart'
                PROVE  \/ inForce' = "readonly"
                       \/ /\ holder' \in Turns /\ phase'[holder'] \in {"written", "settling"}
                          /\ Started(holder)' /\ carries'[holder'] = "readonly"
    BY <1>1 DEF ThreadIsKnown
  <2>1. CASE inForce = "readonly"
    <3>1. CASE Settle(r)
      <4>1. carries[r] # NoMode => carries[r] = "readonly"
        BY <3>1 DEF Settle, Started, GInv, ModesAreCarried, NothingEarly, Requests
      <4>. QED
        BY <2>1, <3>1, <4>1 DEF Settle
    <3>2. CASE ~Settle(r)
      BY <2>1, <3>2 DEF Take, Caller, Register, Write, WriteFails, Receive, TimeOut,
         KeepMode
    <3>. QED
      BY <3>1, <3>2
  <2>2. CASE inForce # "readonly"
    <3>1. /\ holder \in Turns /\ phase[holder] \in {"written", "settling"}
          /\ Started(holder) /\ carries[holder] = "readonly"
      BY <1>l, <2>2 DEF GInv, ThreadIsKnown
    <3>2. CASE r # holder
      <4>1. holder' = holder
        <5>1. holder # Nobody /\ ~Write(r)
          BY <1>3, <3>1, <3>2, RequestsAreApart DEF Requests
        <5>. QED
          BY <3>2, <5>1 DEF Take, Caller, Register, WriteFails, Receive, Settle, TimeOut,
             KeepMode,
             EndWith
      <4>. QED
        BY <1>1, <1>2, <3>1, <3>2, <4>1 DEF Started, Requests
    <3>3. CASE r = holder
      <4>1. CASE Settle(r)
        BY <3>1, <3>3, <4>1, RequestsAreApart DEF Settle
      <4>2. CASE TimeOut(r)
        BY <3>1, <3>3, <4>2 DEF TimeOut, EndWith, LateStart
      <4>3. CASE Receive(r)
        <5>1. inbox[r] = "ok"
          BY <3>1, <3>3, <4>3 DEF Receive, GInv, RefusedNeverStart, Refused, Started,
             ResultsAreTrue
        <5>. QED
          BY <3>1, <3>3, <4>3, <5>1 DEF Receive, Started
      <4>. QED
        BY <3>1, <3>3, <4>1, <4>2, <4>3 DEF Take, Caller, Register, Write, WriteFails,
           KeepMode
    <3>. QED
      BY <3>2, <3>3
  <2>. QED
    BY <2>1, <2>2
<1>16. InheritedIsKnown'
  <2>1. ASSUME NEW a \in Active, a.mode = "readonly", carries'[a.of] = NoMode, fate'[a.of] # "timeout"
        PROVE  carries[a.of] = NoMode /\ fate[a.of] # "timeout"
    BY <1>1, <1>4, <2>1 DEF GInv, NothingEarly, FatesAreFinal, Running, Requests, Reached
  <2>2. ASSUME NEW a \in Active, carries[a.of] = NoMode PROVE inForce' = inForce
    <3>1. CASE Settle(r)
      <4>1. carries[r] = NoMode
        <5>1. r \in Turns => a.of = r
          BY <3>1 DEF Settle, GInv, AnswersComeLast, OnlyOf
        <5>. QED
          BY <2>2, <5>1 DEF GInv, NothingEarly, Requests
      <4>. QED
        BY <3>1, <4>1 DEF Settle
    <3>2. CASE ~Settle(r)
      BY <3>2 DEF Take, Caller, Register, Write, WriteFails, Receive, TimeOut, KeepMode
    <3>. QED
      BY <3>1, <3>2
  <2>. QED
    BY <1>1, <1>2, <1>l, <2>1, <2>2 DEF GInv, InheritedIsKnown
<1>17. ReadOnlyTurnsAskNothing'
  <2>1. ASSUME NEW ask \in carded
        PROVE  /\ ask.of \in Requests
               /\ fate[ask.of] = "timeout" => fate'[ask.of] = "timeout"
               /\ carries'[ask.of] = carries[ask.of]
    BY <1>1 DEF GInv, NothingEarly, FatesAreFinal, Running, Requests
  <2>. QED
    BY <1>1, <1>l, <2>1 DEF GInv, ReadOnlyTurnsAskNothing
<1>. QED
  BY <1>5, <1>6, <1>7, <1>8, <1>9, <1>10, <1>11, <1>12, <1>13, <1>14, <1>15, <1>16,
     <1>17 DEF GInv

-----------------------------------------------------------------------------
(* The pump's step: an answer goes over, an ask is judged, or it is the end. *)
LEMMA PumpKeepsGate ==
  ASSUME IInv, IInv', GInv, Pump
  PROVE  GInv'
<1>. USE DEF IInv, TypeOK, requestVars, orderVars, modeVars, serverVars, boundVars
<1>1. /\ UNCHANGED <<phase, fate, carries, holder, pending, attempted, inForce, child, stdin,
                     thread, turn, owed, answered>>
      /\ pump = "reading"
      /\ pump' = pump \/ pump' = "gone"
      /\ UNCHANGED stdout \/ (stdout # <<>> /\ stdout' = Tail(stdout) /\ pump' = pump)
  BY DEF Pump, PumpAnswers, PumpJudges, PumpRestates, PumpEnds, Reading
<1>2. /\ Active' \subseteq Active
      /\ \A kind : Told(kind)' \subseteq Told(kind)
  <2>1. CASE UNCHANGED stdout
    BY <1>1, <2>1 DEF Active, Judged, Asks, Told, Ofs, Kind
  <2>2. CASE stdout # <<>> /\ stdout' = Tail(stdout)
    <3>1. Asks(stdout') \subseteq Asks(stdout) /\ \A kind : Ofs(stdout', kind) \subseteq Ofs(stdout, kind)
      BY <2>2, LinesOf
    <3>. QED
      BY <1>1, <3>1 DEF Active, Judged, Told
  <2>. QED
    BY <1>1, <2>1, <2>2
<1>3. Queued' = Queued /\ Queued \subseteq Requests
  BY <1>1, OwnersOf DEF Queued
<1>4. Active \subseteq Running
  BY LinesOf DEF Active, Judged
<1>t. Told("ok") \cup Told("rpc") \subseteq answered
  BY ToldIsTrue
<1>l. LateStart' = LateStart
  BY <1>1 DEF LateStart
<1>c. \A ask \in carded' : ask \in carded \/ (ask \in Active /\ Gate # "readonly" /\ pump' = pump)
  <2>1. CASE PumpJudges
    <3>1. stdout # <<>> /\ NextLine.kind = "ask" /\ pump' = pump /\ Entry(NextLine) \in Active
      BY <2>1, LinesOf DEF PumpJudges, Reading, NextLine, Active, Judged
    <3>. QED
      BY <2>1, <3>1 DEF PumpJudges, Entry
  <2>2. CASE ~PumpJudges
    BY <2>2 DEF Pump, PumpAnswers, PumpRestates, PumpEnds
  <2>. QED
    BY <2>1, <2>2
<1>i. \A x \in Requests :
          \/ inbox'[x] = inbox[x]
          \/ inbox'[x] = "closed" /\ pump' = "gone"
          \/ /\ inbox'[x] \in {"ok", "rpc"} /\ x \in Told(inbox'[x])
             /\ stdout # <<>> /\ stdout' = Tail(stdout)
             /\ Head(stdout).kind = inbox'[x] /\ Head(stdout).of = x
  <2>1. CASE PumpAnswers
    <3>1. PICK kind \in {"ok", "rpc"} :
            /\ Reading(kind)
            /\ inbox' = [x \in Requests |-> IF x \in WaiterOf(NextLine) THEN kind ELSE inbox[x]]
      BY <2>1 DEF PumpAnswers
    <3>2. stdout # <<>> /\ NextLine = Head(stdout) /\ NextLine.kind = kind /\ stdout' = Tail(stdout)
      BY <3>1 DEF Reading, NextLine
    <3>3. NextLine.of \in Told(kind)
      BY <3>2, LinesOf DEF Told
    <3>. QED
      BY <3>1, <3>2, <3>3 DEF WaiterOf
  <2>2. CASE ~PumpAnswers
    BY <2>2 DEF Pump, PumpJudges, PumpRestates, PumpEnds
  <2>. QED
    BY <2>1, <2>2
<1>h. ASSUME NEW x \in waiters, x \in Told("ok"), pump' = "reading"
      PROVE  x \in Told("ok")' \/ inbox'[x] = "ok"
  <2>1. CASE PumpAnswers
    <3>1. PICK kind \in {"ok", "rpc"} :
            /\ Reading(kind)
            /\ inbox' = [q \in Requests |-> IF q \in WaiterOf(NextLine) THEN kind ELSE inbox[q]]
      BY <2>1 DEF PumpAnswers
    <3>2. stdout # <<>> /\ NextLine = Head(stdout) /\ NextLine.kind = kind /\ stdout' = Tail(stdout)
      BY <3>1 DEF Reading, NextLine
    <3>3. Ofs(stdout, "ok") = IF kind = "ok" THEN Ofs(stdout', "ok") \cup {NextLine.of}
                              ELSE Ofs(stdout', "ok")
      BY <3>2, LinesOf
    <3>. QED
      BY <1>h, <3>1, <3>3 DEF WaiterOf, Told
  <2>2. CASE ~PumpAnswers
    <3>1. /\ stdout # <<>> /\ stdout' = Tail(stdout) /\ Head(stdout).kind # "ok"
      BY <1>h, <2>2 DEF Pump, PumpJudges, PumpRestates, PumpEnds, Reading, NextLine
    <3>2. Ofs(stdout, "ok") = Ofs(stdout', "ok")
      BY <3>1, LinesOf
    <3>. QED
      BY <1>h, <3>2 DEF Told
  <2>. QED
    BY <2>1, <2>2
<1>5. LockIsHeld' /\ FatesAreFinal' /\ FramesAreInOrder' /\ NothingAfter' /\ AttemptIsNoted'
  BY <1>1 DEF GInv, LockIsHeld, FatesAreFinal, FramesAreInOrder, NothingAfter,
     AttemptIsNoted
<1>7. NothingEarly'
  <2>1. \A ask \in Active : phase[ask.of] # "idle"
    BY <1>4 DEF GInv, NothingEarly, Running, Requests, Reached
  <2>. QED
    BY <1>1, <1>2, <1>3, <1>c, <2>1 DEF GInv, NothingEarly
<1>11. RefusedNeverStart'
  <2>1. ASSUME NEW x \in Turns, Refused(x)' PROVE Refused(x)
    BY <1>1, <1>2, <1>i, <2>1 DEF Refused, Requests
  <2>2. ASSUME NEW x \in Turns, Started(x)' PROVE Started(x)
    BY <1>1, <1>2, <1>i, <2>2 DEF Started, Requests
  <2>. QED
    BY <1>1, <1>2, <1>3, <2>1, <2>2 DEF GInv, RefusedNeverStart
<1>12. AnswersComeLast'
  <2>1. ASSUME NEW x \in Turns, phase[x] = "written", inbox'[x] = "ok" PROVE OnlyOf(x)'
    <3>1. CASE inbox[x] = "ok"
      BY <1>2, <2>1, <3>1 DEF GInv, AnswersComeLast, OnlyOf
    <3>2. CASE inbox[x] # "ok"
      <4>1. /\ stdout # <<>> /\ stdout' = Tail(stdout) /\ x \in Told("ok")
            /\ Head(stdout).kind = "ok" /\ Head(stdout).of = x
        BY <1>1, <1>i, <2>1, <3>2 DEF Requests
      <4>2. /\ Len(stdout') = Len(stdout) - 1 /\ Head(stdout) = stdout[1] /\ Len(stdout) \in Nat
            /\ \A i \in 1 .. Len(stdout') : stdout'[i] = stdout[i + 1]
        BY <4>1, HeadTailProperties
      <4>3. ASSUME NEW i \in 1 .. Len(stdout'), stdout'[i].kind = "ask" PROVE stdout'[i].of = x
        <5>1. 1 \in 1 .. Len(stdout) /\ i + 1 \in 1 .. Len(stdout) /\ 1 < i + 1
          BY <4>2
        <5>. QED
          BY <2>1, <4>1, <4>2, <4>3, <5>1 DEF GInv, AnswersComeLast
      <4>4. turn # NoTurn => turn.of = x
        BY <2>1, <4>1 DEF GInv, AnswersComeLast
      <4>. QED
        BY <1>1, <4>3, <4>4 DEF OnlyOf, Active, Judged, Asks, Kind
    <3>. QED
      BY <3>1, <3>2
  <2>2. ASSUME NEW x \in Turns, phase[x] = "written"
        PROVE  \A i, j \in 1 .. Len(stdout') :
                   /\ i < j
                   /\ stdout'[i].kind = "ok" /\ stdout'[i].of = x
                   /\ stdout'[j].kind = "ask"
                   => stdout'[j].of = x
    <3>1. CASE UNCHANGED stdout
      BY <2>2, <3>1 DEF GInv, AnswersComeLast
    <3>2. CASE stdout # <<>> /\ stdout' = Tail(stdout)
      <4>1. /\ Len(stdout') = Len(stdout) - 1 /\ Len(stdout) \in Nat
            /\ \A i \in 1 .. Len(stdout') : stdout'[i] = stdout[i + 1]
        BY <3>2, HeadTailProperties
      <4>2. \A i, j \in 1 .. Len(stdout') :
                i + 1 \in 1 .. Len(stdout) /\ j + 1 \in 1 .. Len(stdout) /\ (i < j => i + 1 < j + 1)
        BY <4>1
      <4>3. \A i, j \in 1 .. Len(stdout) :
                i < j /\ stdout[i].kind = "ok" /\ stdout[i].of = x /\ stdout[j].kind = "ask"
                => stdout[j].of = x
        BY <2>2 DEF GInv, AnswersComeLast
      <4>. SUFFICES ASSUME NEW i \in 1 .. Len(stdout'), NEW j \in 1 .. Len(stdout'), i < j,
                           stdout'[i].kind = "ok", stdout'[i].of = x, stdout'[j].kind = "ask"
                    PROVE  stdout'[j].of = x
        OBVIOUS
      <4>4. stdout'[i] = stdout[i + 1] /\ stdout'[j] = stdout[j + 1]
        BY <4>1
      <4>. QED
        BY <4>2, <4>3, <4>4
    <3>. QED
      BY <1>1, <3>1, <3>2
  <2>3. ASSUME NEW x \in Turns, phase[x] = "settling" PROVE OnlyOf(x)'
    BY <1>2, <2>3 DEF GInv, AnswersComeLast, OnlyOf
  <2>4. ASSUME NEW x \in Turns, phase[x] = "written", x \in owed \cup Told("ok")', turn # NoTurn
        PROVE  turn.of = x
    BY <1>2, <2>4 DEF GInv, AnswersComeLast
  <2>. QED
    BY <1>1, <2>1, <2>2, <2>3, <2>4 DEF AnswersComeLast
<1>13. ModesAreCarried'
  <2>1. ASSUME NEW x \in Turns, Started(x)' PROVE Started(x)
    BY <1>1, <1>2, <1>i, <2>1 DEF Started, Requests
  <2>. QED
    BY <1>1, <1>2, <2>1 DEF GInv, ModesAreCarried
<1>14. InForceIsOurs'
  BY <1>1, <1>2 DEF GInv, InForceIsOurs
<1>15. ThreadIsKnown'
  <2>1. ASSUME NEW x \in Turns, phase[x] \in {"written", "settling"}, Started(x), pump' = "reading"
        PROVE  Started(x)'
    <3>1. CASE x \in owed \/ phase[x] = "settling"
      BY <1>1, <3>1 DEF Started
    <3>2. CASE inbox[x] = "ok"
      <4>1. x \notin Told("rpc")
        BY <3>2 DEF GInv, RefusedNeverStart, Refused, Started
      <4>2. inbox'[x] = "ok"
        BY <1>i, <2>1, <3>2, <4>1 DEF Requests
      <4>. QED
        BY <4>2 DEF Started
    <3>3. CASE x \in Told("ok") /\ phase[x] = "written" /\ inbox[x] # "ok"
      <4>1. inbox[x] # "rpc" /\ inbox[x] # "closed"
        BY <1>1, <3>3 DEF GInv, RefusedNeverStart, Refused, Started, ResultsAreTrue,
           Requests
      <4>2. x \in waiters
        BY <1>1, <3>3, <4>1 DEF NobodyIsForgotten, Requests
      <4>3. x \in Told("ok")' \/ inbox'[x] = "ok"
        BY <1>h, <2>1, <3>3, <4>2
      <4>. QED
        BY <4>3 DEF Started
    <3>. QED
      BY <2>1, <3>1, <3>2, <3>3 DEF Started
  <2>. QED
    BY <1>1, <1>l, <2>1 DEF GInv, ThreadIsKnown
<1>16. InheritedIsKnown'
  BY <1>1, <1>2, <1>l DEF GInv, InheritedIsKnown
<1>17. ReadOnlyTurnsAskNothing'
  <2>1. ASSUME NEW ask \in Active, ask.mode = "readonly", Gate # "readonly",
               fate[ask.of] # "timeout", ~(carries[ask.of] = NoMode /\ LateStart)
        PROVE  FALSE
    <3>1. {inForce, attempted, chip} \subseteq Modes \ {"readonly"}
      BY <2>1 DEF Gate
    <3>2. carries[ask.of] # NoMode
      BY <1>1, <2>1, <3>1 DEF GInv, InheritedIsKnown
    <3>3. carries[ask.of] = "readonly"
      BY <2>1, <3>2 DEF GInv, ModesAreCarried
    <3>4. ask.of \in Turns /\ phase[ask.of] \in Reached
      BY <1>4 DEF GInv, NothingEarly, Running, Requests
    <3>5. phase[ask.of] \in {"failed", "done"}
      BY <3>1, <3>2, <3>3, <3>4 DEF GInv, AttemptIsNoted, Reached
    <3>6. fate[ask.of] \in {"ok", "rpc", "closed"}
      BY <2>1, <3>4, <3>5 DEF GInv, FatesAreFinal, Requests
    <3>7. ~Refused(ask.of)
      BY <3>4 DEF GInv, RefusedNeverStart
    <3>8. fate[ask.of] = "ok"
      BY <1>1, <3>6, <3>7 DEF Refused
    <3>. QED
      BY <3>1, <3>2, <3>3, <3>8 DEF GInv, InForceIsOurs
  <2>. QED
    BY <1>1, <1>l, <1>c, <2>1 DEF GInv, ReadOnlyTurnsAskNothing
<1>. QED
  BY <1>5, <1>7, <1>11, <1>12, <1>13, <1>14, <1>15, <1>16, <1>17 DEF GInv

-----------------------------------------------------------------------------
(* The child's step: a frame taken up, a line said, a turn over, or the end. *)
LEMMA ServerKeepsGate ==
  ASSUME IInv, IInv', GInv, Server
  PROVE  GInv'
<1>. USE DEF IInv, TypeOK, clientVars, requestVars, orderVars, modeVars
<1>1. /\ UNCHANGED <<phase, fate, carries, holder, inbox, attempted, inForce, chip, pump, carded>>
      /\ UNCHANGED stdin \/ (stdin # <<>> /\ stdin' = Tail(stdin)) \/ (child' = "exited" /\ stdin' = <<>>)
      /\ child' = child \/ child' = "exited"
  BY DEF Server, StartsTurn, AnswersRead, Refuses, Answers, AsksForTool, EndsTurn, Exits
<1>3. Queued' \subseteq Queued /\ Queued \subseteq Requests
  <2>1. CASE UNCHANGED stdin
    BY <2>1, OwnersOf DEF Queued
  <2>2. CASE stdin # <<>> /\ stdin' = Tail(stdin)
    <3>1. Owners(stdin') \subseteq Owners(stdin)
      BY <2>2, OwnersOf
    <3>. QED
      BY <3>1, OwnersOf DEF Queued
  <2>3. CASE stdin' = <<>>
    BY <2>3, OwnersOf DEF Queued
  <2>. QED
    BY <1>1, <2>1, <2>2, <2>3
<1>4. Active \subseteq Running
  BY LinesOf DEF Active, Judged
<1>t. Told("ok") \cup Told("rpc") \subseteq answered
  BY ToldIsTrue
<1>l. LateStart' = LateStart
  BY <1>1 DEF LateStart
(* The frame taken up, and what follows from whose it is.                    *)
<1>. DEFINE y == Head(stdin).of
            takes == stdin # <<>> /\ stdin' = Tail(stdin)
<1>h. ASSUME takes
      PROVE  /\ y \in Requests /\ y \in Queued /\ y \notin Queued'
             /\ Head(stdin).mode = carries[y]
             /\ phase[y] \in Reached /\ y \notin owed \cup answered /\ \A a \in Active : a.of # y
             /\ child = "running"
             /\ y \in Turns /\ phase[y] \in {"written", "settling"} => holder = y /\ stdin' = <<>>
             /\ \A x \in Turns : phase[x] \in {"written", "settling"} => ~Started(x)
  <2>1. /\ Len(stdin) \in Nat /\ 1 \in 1 .. Len(stdin) /\ Head(stdin) = stdin[1] /\ Head(stdin) \in Frames
        /\ stdin' \in Seq(Frames) /\ Len(stdin') = Len(stdin) - 1
        /\ \A i \in 1 .. Len(stdin') : i + 1 \in 1 .. Len(stdin) /\ stdin'[i] = stdin[i + 1]
    BY <1>h, HeadTailProperties, Taken
  <2>2. y \in Requests /\ y \in Queued
    BY <2>1, OwnersOf DEF Frames, Queued, Owners
  <2>3. y \notin Queued'
    <3>1. \A i \in 1 .. Len(stdin') : stdin'[i].of # y
      <4>1. \A i \in 1 .. Len(stdin) : stdin[i].of = stdin[1].of => 1 = i
        BY <2>1 DEF GInv, FramesAreInOrder
      <4>2. \A i \in 1 .. Len(stdin') : i + 1 # 1
        BY <2>1
      <4>. QED
        BY <2>1, <4>1, <4>2
    <3>. QED
      BY <3>1 DEF Queued, Owners
  <2>4. Head(stdin).mode = carries[y]
    BY <2>1 DEF GInv, FramesAreInOrder
  <2>5. phase[y] \in Reached /\ y \notin owed \cup answered /\ \A a \in Active : a.of # y
    BY <2>2 DEF GInv, NothingEarly
  <2>6. child = "running"
    BY <1>h DEF GInv, NothingEarly
  <2>7. y \in Turns /\ phase[y] \in {"written", "settling"} => holder = y /\ stdin' = <<>>
    <3>1. y \in Turns /\ phase[y] \in {"written", "settling"} => holder = y
      BY <2>2 DEF GInv, LockIsHeld
    <3>2. y \in Turns /\ holder = y => Len(stdin) = 1
      BY <2>1 DEF GInv, FramesAreInOrder
    <3>3. Len(stdin) = 1 => stdin' = <<>>
      BY <2>1, EmptySeq
    <3>. QED
      BY <3>1, <3>2, <3>3
  <2>8. \A x \in Turns : phase[x] \in {"written", "settling"} => ~Started(x)
    BY <1>h, <1>t DEF GInv, NothingAfter, Started, ResultsAreTrue, Requests
  <2>. QED
    BY <2>2, <2>3, <2>4, <2>5, <2>6, <2>7, <2>8
(* A line said last.                                                         *)
<1>s. ASSUME NEW line \in Lines, Says(line)
      PROVE  /\ \A kind : Told(kind)' = IF line.kind = kind THEN Told(kind) \cup {line.of} ELSE Told(kind)
             /\ Judged' = IF line.kind = "ask" THEN Judged \cup {Entry(line)} ELSE Judged
             /\ Len(stdout') = Len(stdout) + 1 /\ stdout'[Len(stdout')] = line
             /\ \A i \in 1 .. Len(stdout) : stdout'[i] = stdout[i]
  <2>1. stdout' = Append(stdout, line)
    BY <1>s DEF Says
  <2>2. /\ \A kind : Ofs(stdout', kind) = IF line.kind = kind THEN Ofs(stdout, kind) \cup {line.of}
                                          ELSE Ofs(stdout, kind)
        /\ Asks(stdout') = IF line.kind = "ask" THEN Asks(stdout) \cup {Entry(line)} ELSE Asks(stdout)
    BY <2>1, LinesOf
  <2>. QED
    BY <2>1, <2>2, AppendProperties DEF Told, Judged
<1>5. LockIsHeld' /\ FatesAreFinal' /\ AttemptIsNoted' /\ ReadOnlyTurnsAskNothing'
  BY <1>1, <1>l DEF GInv, LockIsHeld, FatesAreFinal, AttemptIsNoted, ReadOnlyTurnsAskNothing
(* What the step says, and of whom.                                          *)
<1>k. \/ UNCHANGED stdout
      \/ \E line \in Lines :
            /\ Says(line)
            /\ line.kind = "ok" => line.of \in owed \/ (takes /\ line.of = y /\ y \in Detached)
            /\ line.kind = "rpc" => Refuses /\ line.of = y
            /\ line.kind = "ask" => turn # NoTurn /\ turn' = turn /\ Entry(line) = turn
  <2>0. stdin # <<>> => y \in Requests
    <3>1. stdin # <<>> => Head(stdin) \in Frames
      BY Taken
    <3>. QED
      BY <3>1 DEF Frames
  <2>1. \A r \in Requests : Line("ok", r, NoMode) \in Lines /\ Line("rpc", r, NoMode) \in Lines
    BY DEF Line, Lines
  <2>2. \A m \in Modes : Line("settings", Nobody, m) \in Lines
    BY DEF Line, Lines
  <2>3. CASE StartsTurn
    <3>. DEFINE m == IF Head(stdin).mode = NoMode THEN thread ELSE Head(stdin).mode
    <3>1. UNCHANGED stdout \/ Says(Line("settings", Nobody, m))
      BY <2>3 DEF StartsTurn
    <3>2. m \in Modes
      BY <2>3, Taken DEF StartsTurn, Frames
    <3>. HIDE DEF m
    <3>. QED
      BY <2>2, <3>1, <3>2 DEF Line
  <2>4. CASE AnswersRead
    <3>1. takes /\ y \in Detached /\ Says(Line("ok", y, NoMode))
      BY <2>4 DEF AnswersRead
    <3>. HIDE DEF y, takes
    <3>2. y \in Requests /\ Line("ok", y, NoMode).kind = "ok" /\ Line("ok", y, NoMode).of = y
      BY <3>1 DEF Line, Requests
    <3>. QED
      BY <2>1, <3>1, <3>2
  <2>5. CASE Refuses
    <3>1. y \in Requests /\ Says(Line("rpc", y, NoMode))
      BY <2>0, <2>5 DEF Refuses
    <3>. HIDE DEF y
    <3>. QED
      BY <2>1, <2>5, <3>1 DEF Line
  <2>6. ASSUME NEW q \in Requests, Answers(q)
        PROVE  \E line \in Lines : /\ Says(line) /\ line.kind = "ok" /\ line.of \in owed
    BY <2>1, <2>6 DEF Answers, Line
  <2>7. CASE AsksForTool
    <3>1. turn # NoTurn /\ turn \in Running /\ turn' = turn /\ Says(Line("ask", turn.of, turn.mode))
      BY <2>7 DEF AsksForTool
    <3>2. Line("ask", turn.of, turn.mode) \in Lines /\ Entry(Line("ask", turn.of, turn.mode)) = turn
      BY <3>1 DEF Line, Lines, Entry, Running
    <3>. QED
      BY <3>1, <3>2 DEF Line
  <2>8. CASE EndsTurn \/ Exits
    BY <2>8 DEF EndsTurn, Exits
  <2>. HIDE DEF y, takes
  <2>. QED
    BY <2>3, <2>4, <2>5, <2>6, <2>7, <2>8 DEF Server
<1>e. owed' \cup answered' \subseteq owed \cup answered \cup (IF takes THEN {y} ELSE {})
  BY DEF Server, StartsTurn, AnswersRead, Refuses, Answers, AsksForTool, EndsTurn, Exits
<1>f. /\ owed' \subseteq owed \cup (IF StartsTurn THEN {y} ELSE {})
      /\ \/ child' = "exited"
         \/ \A x \in owed : x \in owed' \/ Says(Line("ok", x, NoMode))
  BY DEF Server, StartsTurn, AnswersRead, Refuses, Answers, AsksForTool, EndsTurn, Exits
<1>c. StartsTurn =>
        /\ takes /\ y \in Turns /\ y \in owed'
        /\ turn' = [of |-> y, mode |-> thread']
        /\ thread' = IF carries[y] = NoMode THEN thread ELSE carries[y]
  BY <1>h DEF StartsTurn
<1>r. Refuses => takes
  BY DEF Refuses
<1>d. ~StartsTurn => thread' = thread /\ turn' \in {turn, NoTurn}
  BY DEF Server, AnswersRead, Refuses, Answers, AsksForTool, EndsTurn, Exits
<1>. HIDE DEF y, takes
<1>a. \A a \in Active' : a \in Active \/ (StartsTurn /\ a = turn')
  <2>1. Judged' \subseteq Active
    <3>1. CASE UNCHANGED stdout
      BY <3>1 DEF Active, Judged, Asks, Kind
    <3>2. ASSUME NEW line \in Lines, Says(line), line.kind = "ask" => turn # NoTurn /\ Entry(line) = turn
          PROVE  Judged' \subseteq Active
      BY <1>s, <3>2 DEF Active
    <3>. QED
      BY <1>k, <3>1, <3>2
  <2>. QED
    BY <1>d, <2>1 DEF Active
<1>o. \A x \in Told("ok")' : x \in Told("ok") \cup owed \cup Detached
  <2>1. CASE UNCHANGED stdout
    BY <2>1 DEF Told, Ofs, Kind
  <2>2. ASSUME NEW line \in Lines, Says(line),
               line.kind = "ok" => line.of \in owed \/ (takes /\ line.of = y /\ y \in Detached)
        PROVE  \A x \in Told("ok")' : x \in Told("ok") \cup owed \cup Detached
    BY <1>s, <2>2
  <2>. QED
    BY <1>k, <2>1, <2>2
<1>p. \A x \in Told("rpc")' : x \in Told("rpc") \/ (Refuses /\ x = y)
  <2>1. CASE UNCHANGED stdout
    BY <2>1 DEF Told, Ofs, Kind
  <2>2. ASSUME NEW line \in Lines, Says(line), line.kind = "rpc" => Refuses /\ line.of = y
        PROVE  \A x \in Told("rpc")' : x \in Told("rpc") \/ (Refuses /\ x = y)
    BY <1>s, <2>2
  <2>. QED
    BY <1>k, <2>1, <2>2
<1>q. Told("ok") \subseteq Told("ok")'
  <2>1. CASE UNCHANGED stdout
    BY <2>1 DEF Told, Ofs, Kind
  <2>2. ASSUME NEW line \in Lines, Says(line) PROVE Told("ok") \subseteq Told("ok")'
    <3>1. Told("ok")' = IF line.kind = "ok" THEN Told("ok") \cup {line.of} ELSE Told("ok")
      BY <1>s, <2>2
    <3>. QED
      BY <3>1
  <2>. QED
    BY <1>k, <2>1, <2>2
<1>b. /\ \A x \in Turns : Started(x)' => Started(x) \/ (StartsTurn /\ x = y)
      /\ \A x \in Turns : Refused(x)' => Refused(x) \/ (Refuses /\ x = y)
  BY <1>1, <1>f, <1>o, <1>p, RequestsAreApart DEF Started, Refused
<1>g. child' # "exited" => \A x \in Turns : Started(x) => Started(x)'
  <2>1. ASSUME NEW x \in Requests, Says(Line("ok", x, NoMode)) PROVE x \in Told("ok")'
    <3>1. Line("ok", x, NoMode) \in Lines
      BY DEF Line, Lines
    <3>. QED
      BY <1>s, <2>1, <3>1 DEF Line
  <2>. QED
    BY <1>1, <1>f, <1>q, <2>1 DEF Started
<1>7. NothingEarly'
  <2>1. ASSUME NEW x \in Requests \ Queued', phase[x] \notin Reached
        PROVE  x \notin owed' \cup answered' /\ \A a \in Active' : a.of # x
    BY <1>a, <1>c, <1>e, <1>h, <2>1 DEF GInv, NothingEarly
  <2>2. ASSUME NEW x \in Queued'
        PROVE  phase[x] \in Reached /\ x \notin owed' \cup answered' /\ \A a \in Active' : a.of # x
    BY <1>3, <1>a, <1>c, <1>e, <1>h, <2>2 DEF GInv, NothingEarly
  <2>3. child' = "exited" => stdin' = <<>>
    <3>1. child' = child \/ stdin' = <<>>
      BY DEF Server, StartsTurn, AnswersRead, Refuses, Answers, AsksForTool, EndsTurn, Exits
    <3>2. child = "exited" => stdin = <<>>
      BY DEF GInv, NothingEarly
    <3>. QED
      BY <1>1, <3>1, <3>2
  <2>. QED
    BY <1>1, <2>1, <2>2, <2>3 DEF GInv, NothingEarly
<1>8. FramesAreInOrder'
  <2>1. CASE UNCHANGED stdin
    BY <1>1, <2>1 DEF GInv, FramesAreInOrder
  <2>2. CASE stdin' = <<>>
    BY <2>2 DEF FramesAreInOrder
  <2>3. CASE stdin # <<>> /\ stdin' = Tail(stdin)
    <3>1. /\ Len(stdin) \in Nat /\ Len(stdin') = Len(stdin) - 1
          /\ \A i \in 1 .. Len(stdin') : i + 1 \in 1 .. Len(stdin) /\ stdin'[i] = stdin[i + 1]
      BY <2>3, HeadTailProperties
    <3>2. ASSUME NEW i \in 1 .. Len(stdin')
          PROVE  /\ stdin'[i].mode = carries[stdin'[i].of]
                 /\ \A j \in 1 .. Len(stdin') : stdin'[j].of = stdin'[i].of => i = j
                 /\ stdin'[i].of \in Turns /\ stdin'[i].of = holder => i = Len(stdin')
      <4>1. /\ stdin[i + 1].mode = carries[stdin[i + 1].of]
            /\ \A j \in 1 .. Len(stdin) : stdin[j].of = stdin[i + 1].of => i + 1 = j
            /\ stdin[i + 1].of \in Turns /\ stdin[i + 1].of = holder => i + 1 = Len(stdin)
        BY <3>1 DEF GInv, FramesAreInOrder
      <4>2. \A j \in 1 .. Len(stdin') : stdin'[j].of = stdin'[i].of => i + 1 = j + 1
        BY <3>1, <4>1
      <4>3. i + 1 = Len(stdin) => i = Len(stdin')
        BY <3>1
      <4>4. stdin'[i] = stdin[i + 1] /\ \A j \in 1 .. Len(stdin') : i + 1 = j + 1 => i = j
        BY <3>1
      <4>. QED
        BY <4>1, <4>2, <4>3, <4>4
    <3>. QED
      BY <1>1, <3>2 DEF FramesAreInOrder
  <2>. QED
    BY <1>1, <2>1, <2>2, <2>3
<1>9. NothingAfter'
  <2>1. ASSUME NEW x \in Turns, phase[x] \in {"written", "settling"}, x \in owed' \cup answered'
        PROVE  stdin' = <<>>
    <3>1. CASE x \in owed \cup answered
      BY <1>1, <2>1, <3>1 DEF GInv, NothingAfter
    <3>2. CASE takes /\ x = y
      BY <1>h, <2>1, <3>2
    <3>. QED
      BY <1>e, <2>1, <3>1, <3>2
  <2>. QED
    BY <1>1, <2>1 DEF NothingAfter
<1>11. RefusedNeverStart'
  <2>1. ASSUME NEW x \in Turns, Refused(x)'
        PROVE  x \notin Queued' /\ ~Started(x)' /\ \A a \in Active' : a.of # x
    <3>1. CASE Refused(x)
      <4>1. x \notin Queued /\ ~Started(x) /\ \A a \in Active : a.of # x
        BY <3>1 DEF GInv, RefusedNeverStart
      <4>2. ~(StartsTurn /\ x = y)
        BY <1>c, <1>h, <4>1
      <4>. QED
        BY <1>3, <1>a, <1>b, <1>c, <4>1, <4>2
    <3>2. CASE Refuses /\ x = y
      <4>1. x \notin Queued' /\ x \notin owed \cup answered /\ \A a \in Active : a.of # x
        BY <1>h, <1>r, <3>2
      <4>2. ~Started(x)
        BY <1>t, <4>1 DEF Started, ResultsAreTrue, Requests
      <4>3. ~StartsTurn
        BY <3>2, <4>1 DEF Refuses, StartsTurn, y
      <4>. QED
        BY <1>a, <1>b, <4>1, <4>2, <4>3
    <3>. QED
      BY <1>b, <2>1, <3>1, <3>2
  <2>. QED
    BY <2>1 DEF RefusedNeverStart
<1>12. AnswersComeLast'
  <2>1. ASSUME NEW x \in Turns, phase[x] = "written", x \in owed' \cup Told("ok")', turn' # NoTurn
        PROVE  turn'.of = x
    <3>1. x \in owed \cup Told("ok") \/ (StartsTurn /\ x = y)
      BY <1>f, <1>o, <2>1, RequestsAreApart
    <3>2. CASE StartsTurn
      BY <1>c, <1>h, <2>1, <3>1, <3>2 DEF Started
    <3>3. CASE ~StartsTurn
      BY <1>d, <2>1, <3>1, <3>3 DEF GInv, AnswersComeLast
    <3>. QED
      BY <3>2, <3>3
  <2>2. ASSUME NEW x \in Turns, phase[x] = "settling" \/ (phase[x] = "written" /\ inbox[x] = "ok")
        PROVE  \A a \in Active' : a.of = x
    <3>1. ~StartsTurn
      BY <1>c, <1>h, <2>2 DEF Started
    <3>. QED
      BY <1>a, <2>2, <3>1 DEF GInv, AnswersComeLast, OnlyOf
  <2>3. ASSUME NEW x \in Turns, phase[x] = "written",
               NEW i \in 1 .. Len(stdout'), NEW j \in 1 .. Len(stdout'), i < j,
               stdout'[i].kind = "ok", stdout'[i].of = x, stdout'[j].kind = "ask"
        PROVE  stdout'[j].of = x
    <3>0. \A k, l \in 1 .. Len(stdout) :
              k < l /\ stdout[k].kind = "ok" /\ stdout[k].of = x /\ stdout[l].kind = "ask"
              => stdout[l].of = x
      BY <2>3 DEF GInv, AnswersComeLast
    <3>1. CASE UNCHANGED stdout
      BY <2>3, <3>0, <3>1
    <3>2. ASSUME NEW line \in Lines, Says(line),
                 line.kind = "ask" => turn # NoTurn /\ Entry(line) = turn
          PROVE  stdout'[j].of = x
      <4>1. /\ Len(stdout') = Len(stdout) + 1 /\ stdout'[Len(stdout')] = line /\ Len(stdout) \in Nat
            /\ \A k \in 1 .. Len(stdout) : stdout'[k] = stdout[k]
        BY <1>s, <3>2
      <4>2. i \in 1 .. Len(stdout)
        BY <2>3, <4>1
      <4>3. CASE j \in 1 .. Len(stdout)
        <5>1. stdout'[i] = stdout[i] /\ stdout'[j] = stdout[j]
          BY <4>1, <4>2, <4>3
        <5>. QED
          BY <2>3, <3>0, <4>2, <4>3, <5>1
      <4>4. CASE j = Len(stdout')
        <5>1. x \in Told("ok")
          BY <2>3, <4>1, <4>2 DEF Told, Ofs, Kind
        <5>2. line.kind = "ask" /\ turn # NoTurn /\ line.of = turn.of
          BY <2>3, <3>2, <4>1, <4>4 DEF Entry
        <5>. QED
          BY <2>3, <4>1, <4>4, <5>1, <5>2 DEF GInv, AnswersComeLast
      <4>. QED
        BY <4>1, <4>3, <4>4
    <3>. QED
      BY <1>k, <3>1, <3>2
  <2>. QED
    BY <1>1, <2>1, <2>2, <2>3 DEF AnswersComeLast, OnlyOf
<1>13. ModesAreCarried'
  <2>1. ASSUME NEW a \in Active', carries[a.of] # NoMode PROVE a.mode = carries[a.of]
    BY <1>a, <1>c, <2>1 DEF GInv, ModesAreCarried
  <2>2. ASSUME NEW x \in Turns, phase[x] \in {"written", "settling"}, Started(x)', carries[x] # NoMode
        PROVE  thread' = carries[x]
    <3>1. CASE StartsTurn
      BY <1>b, <1>c, <1>h, <2>2, <3>1
    <3>2. CASE ~StartsTurn
      BY <1>b, <1>d, <2>2, <3>2 DEF GInv, ModesAreCarried
    <3>. QED
      BY <3>1, <3>2
  <2>. QED
    BY <1>1, <2>1, <2>2 DEF ModesAreCarried
<1>14. InForceIsOurs'
  <2>1. StartsTurn => fate[turn'.of] # "ok"
    BY <1>c, <1>h DEF ResultsAreTrue
  <2>. QED
    BY <1>1, <1>a, <2>1 DEF GInv, InForceIsOurs
(* When a turn starts, no start that came before it is still waited for.     *)
<1>w. StartsTurn /\ pump = "reading" /\ ~LateStart /\ thread = "readonly" => inForce = "readonly"
  BY <1>c, <1>h DEF GInv, ThreadIsKnown
<1>15. ThreadIsKnown'
  <2>. SUFFICES ASSUME pump = "reading", child' = "running", thread' = "readonly", ~LateStart
                PROVE  \/ inForce = "readonly"
                       \/ /\ holder \in Turns /\ phase[holder] \in {"written", "settling"}
                          /\ Started(holder)' /\ carries[holder] = "readonly"
    BY <1>1, <1>l DEF ThreadIsKnown
  <2>1. CASE StartsTurn /\ carries[y] = NoMode
    BY <1>c, <1>w, <2>1
  <2>2. CASE StartsTurn /\ carries[y] # NoMode
    <3>1. carries[y] = "readonly" /\ y \in Turns /\ y \in owed' /\ takes
      BY <1>c, <2>2
    <3>2. fate[y] \notin {"ok", "rpc", "closed", "timeout"}
      <4>1. y \in Queued /\ y \notin answered
        BY <1>h, <3>1
      <4>2. ~Refused(y)
        BY <3>1, <4>1 DEF GInv, RefusedNeverStart
      <4>3. fate[y] # "timeout"
        BY <3>1 DEF LateStart
      <4>. QED
        BY <3>1, <4>1, <4>2, <4>3 DEF Refused, ResultsAreTrue, Requests
    <3>3. phase[y] \in {"written", "settling"}
      BY <1>h, <3>1, <3>2 DEF GInv, FatesAreFinal, Reached
    <3>. QED
      <4>1. holder = y /\ holder' = y
        BY <1>1, <1>h, <3>1, <3>3
      <4>2. Started(holder)'
        BY <3>1, <4>1 DEF Started
      <4>. QED
        BY <3>1, <3>3, <4>1, <4>2
  <2>3. CASE ~StartsTurn
    BY <1>1, <1>d, <1>g, <2>3 DEF GInv, ThreadIsKnown
  <2>. QED
    BY <2>1, <2>2, <2>3
<1>16. InheritedIsKnown'
  <2>1. ASSUME NEW a \in Active', pump = "reading", ~LateStart, a.mode = "readonly",
               carries[a.of] = NoMode, fate[a.of] # "timeout"
        PROVE  inForce = "readonly"
    <3>1. CASE a \in Active
      BY <2>1, <3>1 DEF GInv, InheritedIsKnown
    <3>2. CASE StartsTurn /\ a = turn'
      BY <1>c, <1>w, <2>1, <3>2
    <3>. QED
      BY <1>a, <3>1, <3>2
  <2>. QED
    BY <1>1, <1>l, <2>1 DEF InheritedIsKnown
<1>. QED
  BY <1>5, <1>7, <1>8, <1>9, <1>11, <1>12, <1>13, <1>14, <1>15, <1>16 DEF GInv

-----------------------------------------------------------------------------
(* At first nothing is on its way, and what is in force is the thread's.     *)
LEMMA InitGInv == Init => GInv
<1>. SUFFICES ASSUME Init PROVE GInv
  OBVIOUS
<1>1. /\ stdin = <<>> /\ stdout = <<>> /\ Len(<<>>) = 0 /\ turn = NoTurn /\ owed = {} /\ answered = {}
      /\ holder = Nobody /\ carded = {} /\ child = "running" /\ inForce = thread /\ attempted = thread
      /\ phase = [r \in Requests |-> "idle"]
      /\ fate = [r \in Requests |-> "none"]
      /\ inbox = [r \in Requests |-> "empty"]
      /\ carries = [r \in Requests |-> NoMode]
  BY DEF Init
<1>2. Active = {} /\ Queued = {} /\ \A kind : Told(kind) = {}
  BY <1>1 DEF Active, Judged, Asks, Queued, Owners, Told, Ofs, Kind
<1>. QED
  BY <1>1, <1>2 DEF GInv, LockIsHeld, FatesAreFinal, NothingEarly, FramesAreInOrder,
     NothingAfter,
     AttemptIsNoted, RefusedNeverStart, AnswersComeLast, ModesAreCarried, InForceIsOurs,
     ThreadIsKnown, InheritedIsKnown, ReadOnlyTurnsAskNothing, Refused, Started, OnlyOf, Reached,
     Requests

(* A pick changes what the next turn will carry and what the person sees.    *)
LEMMA PickKeepsGate ==
  ASSUME IInv, GInv, NEW m \in Modes, Pick(m)
  PROVE  GInv'
<1>1. /\ UNCHANGED <<phase, fate, carries, holder, inbox, attempted, inForce, pump, child, stdin,
                     thread, turn, owed, stdout, answered, carded>>
  BY DEF Pick, requestVars, orderVars, serverVars
<1>. QED
  BY <1>1 DEF GInv, LockIsHeld, FatesAreFinal, NothingEarly, FramesAreInOrder, NothingAfter,
     AttemptIsNoted, RefusedNeverStart, AnswersComeLast, ModesAreCarried, InForceIsOurs,
     ThreadIsKnown, InheritedIsKnown, ReadOnlyTurnsAskNothing, LateStart, Refused, Started, OnlyOf,
     Active, Judged, Asks, Queued, Owners, Told, Ofs, Kind

(* Whoever takes the step.                                                   *)
LEMMA StepGInv == IInv /\ IInv' /\ GInv /\ [Next]_vars => GInv'
<1>. SUFFICES ASSUME IInv, IInv', GInv, [Next]_vars PROVE GInv'
  OBVIOUS
<1>1. CASE UNCHANGED vars
  BY <1>1 DEF vars, requestVars, orderVars, serverVars, modeVars, GInv, LockIsHeld,
     FatesAreFinal,
     NothingEarly, FramesAreInOrder, NothingAfter, AttemptIsNoted, RefusedNeverStart,
     AnswersComeLast, ModesAreCarried, InForceIsOurs, ThreadIsKnown, InheritedIsKnown,
     ReadOnlyTurnsAskNothing, LateStart, Refused, Started, OnlyOf, Active, Judged, Asks, Queued,
     Owners, Told, Ofs, Kind
<1>. QED
  BY <1>1, PickKeepsGate, CallerKeepsGate, PumpKeepsGate, ServerKeepsGate DEF Next

(* No MCP call of a turn that runs Read-only reaches the person, for any set *)
(* of turns and any bounds, but for a start the caller gave up on.           *)
THEOREM ReadOnlyHoldsAlways == Spec => []ReadOnlyTurnsAskNothing
<1>1. GInv => ReadOnlyTurnsAskNothing
  BY DEF GInv
<1>. QED
  BY <1>1, Invariant, InitGInv, StepGInv, PTL DEF Spec

-----------------------------------------------------------------------------
(* The mode picks: once nothing waits, all agree on the last of them.        *)

(* No frame of a pipe names a mode.                                          *)
NamesNone(s) == \A i \in 1 .. Len(s) : s[i].mode = NoMode

(* With no pick waiting or under way there is one mode, and none on the way. *)
OneModeOnly ==
    pending = NoMode /\ Carriers = {} =>
        inForce = thread /\ attempted = thread /\ NamesNone(stdin)

(* A pick taken along before another is with the child before it, unless the *)
(* sends have crossed.                                                       *)
OlderGoFirst ==
    \A q \in Turns : \A t \in ahead[q] :
        /\ phase[t] # "idle" /\ phase[q] # "idle" /\ carries[q] # NoMode
        /\ ~crossed /\ phase[t] \in {"taken", "registered", "written", "settling"} =>
              phase[q] = "taken"

(* The last pick waits, or is under way, or is the thread's mode.            *)
LastPickIsSomewhere ==
    ~crossed =>
        /\ pending # NoMode => pending = wanted
        /\ pending = NoMode =>
              /\ \A t \in Carriers :
                    (\A q \in Turns : t \notin ahead[q]) => carries[t] = wanted
              /\ Carriers = {} => thread = wanted

(* The lines that restate a mode; the last of them states m.                 *)
Restates(s) == {i \in 1 .. Len(s) : s[i].kind = "settings"}

EndsOn(s, m) == \A i \in Restates(s) : s[i].mode = m \/ \E j \in Restates(s) : i < j

(* The last such line to come states the thread's mode, and with none to     *)
(* come the chip shows that mode or the last pick.                           *)
ChipFollows ==
    /\ EndsOn(stdout, thread)
    /\ Restates(stdout) = {} => chip \in {thread, wanted}

PInv == OneModeOnly /\ OlderGoFirst /\ LastPickIsSomewhere /\ ChipFollows

(* At first the last pick waits, or there is one mode only.                  *)
LEMMA InitPInv == Init => PInv
<1>. SUFFICES ASSUME Init PROVE PInv
  OBVIOUS
<1>1. /\ stdin = <<>> /\ stdout = <<>> /\ Len(<<>>) = 0
      /\ phase = [r \in Requests |-> "idle"] /\ ahead = [t \in Turns |-> {}]
      /\ inForce = thread /\ attempted = thread /\ wanted = chip
      /\ chip = IF pending = NoMode THEN thread ELSE pending
  BY DEF Init
<1>2. Carriers = {}
  BY <1>1 DEF Carriers, UnderWay, Requests
<1>3. NamesNone(stdin) /\ Restates(stdout) = {}
  BY <1>1 DEF NamesNone, Restates
<1>. QED
  BY <1>1, <1>2, <1>3 DEF PInv, OneModeOnly, OlderGoFirst, LastPickIsSomewhere, ChipFollows, EndsOn

(* What a caller's step leaves alone.                                        *)
LEMMA CallerSaysNothing ==
  ASSUME NEW r \in Requests, Take(r) \/ Caller(r), ChipFollows
  PROVE  ChipFollows'
<1>1. UNCHANGED <<stdout, thread, chip, wanted>>
  BY DEF Take, Caller, Register, Write, WriteFails, Receive, Settle, TimeOut, KeepMode,
     serverVars, modeVars
<1>. QED
  BY <1>1 DEF ChipFollows, EndsOn, Restates

(* The pick that waited goes along, ahead of it those under way.             *)
LEMMA TakeKeepsPicks ==
  ASSUME IInv, GInv, PInv, NEW t \in Requests, Take(t)
  PROVE  PInv'
<1>1. /\ t \in Turns /\ phase[t] = "idle" /\ t \in Requests
      /\ phase' = [phase EXCEPT ![t] = "taken"]
      /\ carries' = [carries EXCEPT ![t] = pending]
      /\ pending' = NoMode
      /\ ahead' = [ahead EXCEPT ![t] = IF pending = NoMode THEN {} ELSE Carriers]
      /\ UNCHANGED <<crossed, inForce, attempted, thread, wanted, stdin>>
  BY DEF Take, serverVars, Requests
<1>2. /\ phase \in [Requests -> {"idle", "taken", "registered", "written", "settling",
                               "failed", "done"}]
      /\ carries \in [Requests -> Modes \cup {NoMode}]
      /\ ahead \in [Turns -> SUBSET Turns] /\ Turns \subseteq Requests
  BY DEF IInv, TypeOK, Requests
<1>3. t \notin Carriers /\ Carriers' = IF pending = NoMode THEN Carriers ELSE Carriers \cup {t}
  BY <1>1, <1>2 DEF Carriers, UnderWay
<1>4. \A c \in Carriers : c \in Turns /\ phase[c] \notin {"idle", "done"} /\ carries[c] # NoMode
  BY DEF Carriers, UnderWay
<1>5. \A q \in Turns : t \notin ahead[q]
  BY <1>1 DEF PInv, OlderGoFirst
<1>6. OneModeOnly'
  BY <1>1, <1>3 DEF PInv, OneModeOnly
<1>7. OlderGoFirst'
  <2>. SUFFICES ASSUME NEW q \in Turns, NEW c \in ahead'[q]
                PROVE  /\ phase'[c] # "idle" /\ phase'[q] # "idle" /\ carries'[q] # NoMode
                       /\ ~crossed /\ phase'[c] \in {"taken", "registered", "written", "settling"}
                          => phase'[q] = "taken"
    BY <1>1 DEF OlderGoFirst
  <2>1. CASE q = t
    <3>1. pending # NoMode /\ c \in Carriers
      BY <1>1, <1>2, <2>1
    <3>. QED
      BY <1>1, <1>2, <1>4, <2>1, <3>1
  <2>2. CASE q # t
    <3>1. c \in ahead[q] /\ c # t /\ c \in Turns
      BY <1>1, <1>2, <1>5, <2>2
    <3>2. phase'[c] = phase[c] /\ phase'[q] = phase[q] /\ carries'[q] = carries[q]
      BY <1>1, <1>2, <2>2, <3>1
    <3>. QED
      BY <3>1, <3>2 DEF PInv, OlderGoFirst
  <2>. QED
    BY <2>1, <2>2
<1>8. LastPickIsSomewhere'
  <2>. SUFFICES ASSUME ~crossed
                PROVE  /\ \A c \in Carriers' :
                             (\A q \in Turns : c \notin ahead'[q]) => carries'[c] = wanted
                       /\ Carriers' = {} => thread = wanted
    BY <1>1 DEF LastPickIsSomewhere
  <2>1. CASE pending = NoMode
    <3>1. \A c \in Carriers : carries'[c] = carries[c] /\ c # t
      BY <1>1, <1>2, <1>3, <1>4
    <3>2. \A q \in Turns : ahead'[q] = IF q = t THEN {} ELSE ahead[q]
      BY <1>1, <1>2, <2>1
    <3>3. ahead[t] = {}
      BY <1>1, <1>2 DEF PInv, OlderGoFirst
    <3>. QED
      BY <1>3, <2>1, <3>1, <3>2, <3>3 DEF PInv, LastPickIsSomewhere
  <2>2. CASE pending # NoMode
    <3>1. pending = wanted /\ carries'[t] = wanted /\ ahead'[t] = Carriers
      BY <1>1, <1>2, <2>2 DEF PInv, LastPickIsSomewhere
    <3>. QED
      BY <1>1, <1>3, <2>2, <3>1
  <2>. QED
    BY <2>1, <2>2
<1>9. ChipFollows'
  BY CallerSaysNothing DEF PInv
<1>. QED
  BY <1>6, <1>7, <1>8, <1>9 DEF PInv

(* A caller's step that ends no request and takes none along: only where the *)
(* request is may change, and the lock and the notes.                        *)
LEMMA OnTheWay ==
  ASSUME IInv, PInv, NEW r \in Requests,
         phase[r] # "idle" \/ r \in Detached,
         phase' = [phase EXCEPT ![r] = phase'[r]],
         phase'[r] # "idle",
         r \in Turns /\ carries[r] # NoMode => phase[r] # "done" /\ phase'[r] # "done",
         UNCHANGED <<carries, ahead, pending, inForce, thread, wanted>>,
         attempted' = attempted \/ (r \in Turns /\ carries[r] # NoMode),
         NamesNone(stdin) /\ (r \in Turns => carries[r] = NoMode) => NamesNone(stdin'),
         crossed => crossed',
         ~crossed' /\ r \in Turns =>
             /\ phase'[r] \in {"taken", "registered", "written", "settling"} =>
                   phase[r] \in {"taken", "registered", "written", "settling"}
             /\ phase'[r] = phase[r]
                \/ \A c \in ahead[r] : phase[c] \notin {"taken", "registered", "written", "settling"}
                \/ phase[r] # "taken"
  PROVE  OneModeOnly' /\ OlderGoFirst' /\ LastPickIsSomewhere'
<1>1. /\ phase \in [Requests -> {"idle", "taken", "registered", "written", "settling",
                               "failed", "done"}]
      /\ ahead \in [Turns -> SUBSET Turns] /\ Turns \subseteq Requests
  BY DEF IInv, TypeOK, Requests
<1>2. \A q \in Requests : q # r => phase'[q] = phase[q]
  BY <1>1
<1>3. Carriers' = Carriers
  BY <1>1, <1>2, RequestsAreApart DEF Carriers, UnderWay
<1>4. OneModeOnly'
  <2>1. r \in Turns /\ carries[r] # NoMode => r \in Carriers
    BY RequestsAreApart DEF Carriers, UnderWay
  <2>. QED
    BY <1>3, <2>1 DEF PInv, OneModeOnly
<1>5. OlderGoFirst'
  <2>. SUFFICES ASSUME NEW q \in Turns, NEW c \in ahead[q]
                PROVE  /\ phase'[c] # "idle" /\ phase'[q] # "idle" /\ carries[q] # NoMode
                       /\ ~crossed' /\ phase'[c] \in {"taken", "registered", "written", "settling"}
                          => phase'[q] = "taken"
    BY DEF OlderGoFirst
  <2>1. /\ phase[c] # "idle" /\ phase[q] # "idle" /\ carries[q] # NoMode
        /\ ~crossed /\ phase[c] \in {"taken", "registered", "written", "settling"} =>
               phase[q] = "taken"
        /\ c \in Turns
    BY <1>1 DEF PInv, OlderGoFirst
  <2>2. phase'[c] # "idle" /\ phase'[q] # "idle"
    BY <1>1, <1>2, <2>1
  <2>3. ASSUME ~crossed', phase'[c] \in {"taken", "registered", "written", "settling"}
        PROVE  phase'[q] = "taken"
    <3>1. phase[c] \in {"taken", "registered", "written", "settling"} /\ phase[q] = "taken"
      BY <1>1, <1>2, <2>1, <2>3
    <3>. QED
      BY <1>1, <1>2, <2>3, <3>1
  <2>. QED
    BY <2>1, <2>2, <2>3
<1>6. LastPickIsSomewhere'
  BY <1>3 DEF PInv, LastPickIsSomewhere
<1>. QED
  BY <1>4, <1>5, <1>6

(* A turn gets the lock: an older one that is still without has been passed. *)
LEMMA RegisterKeepsPicks ==
  ASSUME IInv, GInv, PInv, NEW r \in Requests, Register(r)
  PROVE  PInv'
<1>1. /\ (r \in Turns /\ phase[r] = "taken") \/ (r \in Detached /\ phase[r] = "idle")
      /\ holder = Nobody
      /\ phase' = [phase EXCEPT ![r] = "registered"]
      /\ attempted' = Attempt(carries[r])
      /\ crossed' = (crossed \/ (r \in Turns /\ \E q \in ahead[r] : phase[q] = "taken"))
      /\ UNCHANGED <<ahead, carries, pending, inForce, thread, wanted, stdin>>
  BY DEF Register, serverVars
<1>2. /\ phase \in [Requests -> {"idle", "taken", "registered", "written", "settling",
                               "failed", "done"}]
      /\ ahead \in [Turns -> SUBSET Turns]
      /\ crossed \in BOOLEAN
  BY DEF IInv, TypeOK
<1>3. phase'[r] = "registered" /\ phase' = [phase EXCEPT ![r] = phase'[r]]
  BY <1>1, <1>2
<1>4. \A x \in Turns : phase[x] \notin {"registered", "written", "settling"}
  BY <1>1, RequestsAreApart DEF GInv, LockIsHeld, Requests
<1>5. ASSUME ~crossed', r \in Turns
      PROVE  \A c \in ahead[r] : phase[c] \notin {"taken", "registered", "written", "settling"}
  BY <1>1, <1>2, <1>4, <1>5
<1>6. attempted' = attempted \/ (r \in Turns /\ carries[r] # NoMode)
  BY <1>1 DEF Attempt, GInv, NothingEarly, Requests
<1>7. OneModeOnly' /\ OlderGoFirst' /\ LastPickIsSomewhere'
  BY <1>1, <1>2, <1>3, <1>5, <1>6, OnTheWay, RequestsAreApart
<1>8. ChipFollows'
  BY CallerSaysNothing DEF PInv, Caller
<1>. QED
  BY <1>7, <1>8 DEF PInv

(* A frame more in the pipe.                                                 *)
LEMMA NamesNoneAppend ==
  ASSUME NEW s \in Seq(Frames), NEW f \in Frames, NamesNone(s), f.mode = NoMode
  PROVE  NamesNone(Append(s, f))
<1>. DEFINE t == Append(s, f)
<1>1. /\ Len(t) = Len(s) + 1 /\ t[Len(t)] = f /\ Len(s) \in Nat
      /\ \A i \in 1 .. Len(s) : t[i] = s[i]
  BY AppendProperties
<1>. HIDE DEF t
<1>2. \A i \in 1 .. Len(t) : i \in 1 .. Len(s) \/ i = Len(t)
  BY <1>1
<1>3. NamesNone(t)
  BY <1>1, <1>2 DEF NamesNone
<1>. QED
  BY <1>3 DEF t

(* The frame goes out, and the wait ends, one way or the other.              *)
LEMMA WaitKeepsPicks ==
  ASSUME IInv, GInv, PInv, NEW r \in Requests,
         Write(r) \/ WriteFails(r) \/ Receive(r) \/ TimeOut(r)
  PROVE  PInv'
<1>1. /\ phase[r] \in {"registered", "written"}
      /\ phase' = [phase EXCEPT ![r] = phase'[r]]
      /\ phase'[r] \in {"written", "settling", "failed", "done"}
      /\ r \in Turns => phase'[r] # "done"
      /\ UNCHANGED <<ahead, carries, pending, inForce, attempted, thread, wanted, crossed>>
  BY DEF Write, WriteFails, Receive, TimeOut, EndWith, modeVars, serverVars, orderVars,
     IInv, TypeOK
<1>2. NamesNone(stdin) /\ (r \in Turns => carries[r] = NoMode) => NamesNone(stdin')
  <2>1. carries[r] \in Modes \cup {NoMode} /\ (r \in Detached => carries[r] = NoMode)
    BY DEF IInv, TypeOK, GInv, NothingEarly
  <2>2. CASE Write(r)
    <3>. DEFINE f == [of |-> r, mode |-> carries[r]]
    <3>1. f \in Frames /\ stdin' = Append(stdin, f) /\ stdin \in Seq(Frames) /\ f.mode = carries[r]
      BY <2>1, <2>2 DEF Write, Frames, IInv, TypeOK
    <3>. HIDE DEF f
    <3>. QED
      BY <2>1, <3>1, NamesNoneAppend DEF Requests
  <2>3. CASE ~Write(r)
    BY <2>3 DEF WriteFails, Receive, TimeOut, serverVars
  <2>. QED
    BY <2>2, <2>3
<1>3. OneModeOnly' /\ OlderGoFirst' /\ LastPickIsSomewhere'
  BY <1>1, <1>2, OnTheWay
<1>4. ChipFollows'
  BY CallerSaysNothing DEF PInv, Caller
<1>. QED
  BY <1>3, <1>4 DEF PInv

(* A start that was answered puts its pick in force.                         *)
LEMMA SettleKeepsPicks ==
  ASSUME IInv, GInv, PInv, NEW r \in Requests, Settle(r)
  PROVE  PInv'
<1>1. /\ phase[r] = "settling" /\ phase' = [phase EXCEPT ![r] = "done"]
      /\ inForce' = IF carries[r] = NoMode THEN inForce ELSE carries[r]
      /\ UNCHANGED <<ahead, carries, pending, attempted, thread, wanted, crossed, stdin>>
  BY DEF Settle, EndWith, serverVars, orderVars
<1>2. /\ phase \in [Requests -> {"idle", "taken", "registered", "written", "settling",
                               "failed", "done"}]
      /\ ahead \in [Turns -> SUBSET Turns] /\ Turns \subseteq Requests
  BY DEF IInv, TypeOK, Requests
<1>3. ChipFollows'
  BY CallerSaysNothing DEF PInv, Caller
<1>4. CASE carries[r] = NoMode
  <2>1. phase'[r] = "done" /\ phase' = [phase EXCEPT ![r] = phase'[r]]
    BY <1>1, <1>2
  <2>2. OneModeOnly' /\ OlderGoFirst' /\ LastPickIsSomewhere'
    BY <1>1, <1>4, <2>1, OnTheWay
  <2>. QED
    BY <1>3, <2>2 DEF PInv
<1>5. CASE carries[r] # NoMode
  <2>1. r \in Turns
    BY <1>5 DEF GInv, NothingEarly, Requests
  <2>2. /\ thread = carries[r] /\ attempted = carries[r] /\ inForce' = carries[r]
        /\ stdin = <<>>
    <3>1. Started(r) /\ r \in answered
      BY <1>1 DEF Started, IInv, ResultsAreTrue
    <3>. QED
      BY <1>1, <1>5, <2>1, <3>1 DEF GInv, ModesAreCarried, AttemptIsNoted, NothingAfter
  <2>3. NamesNone(stdin)
    BY <2>2 DEF NamesNone
  <2>4. \A q \in Requests : phase'[q] = IF q = r THEN "done" ELSE phase[q]
    BY <1>1, <1>2
  <2>5. r \in Carriers /\ Carriers' = Carriers \ {r}
    BY <1>1, <1>2, <1>5, <2>1, <2>4 DEF Carriers, UnderWay
  <2>6. OneModeOnly'
    BY <1>1, <2>2, <2>3 DEF OneModeOnly
  <2>7. OlderGoFirst'
    <3>. SUFFICES ASSUME NEW q \in Turns, NEW c \in ahead[q]
                  PROVE  /\ phase'[c] # "idle" /\ phase'[q] # "idle" /\ carries[q] # NoMode
                         /\ ~crossed /\ phase'[c] \in {"taken", "registered", "written", "settling"}
                            => phase'[q] = "taken"
      BY <1>1 DEF OlderGoFirst
    <3>1. /\ c \in Turns /\ phase[c] # "idle" /\ phase[q] # "idle" /\ carries[q] # NoMode
          /\ ~crossed /\ phase[c] \in {"taken", "registered", "written", "settling"} =>
                 phase[q] = "taken"
      BY <1>2 DEF PInv, OlderGoFirst
    <3>. QED
      BY <1>1, <1>2, <2>4, <3>1
  <2>8. LastPickIsSomewhere'
    <3>. SUFFICES ASSUME ~crossed, pending = NoMode
                  PROVE  /\ \A t \in Carriers' :
                              (\A q \in Turns : t \notin ahead[q]) => carries[t] = wanted
                         /\ Carriers' = {} => thread = wanted
      BY <1>1 DEF PInv, LastPickIsSomewhere
    <3>1. \A t \in Carriers : (\A q \in Turns : t \notin ahead[q]) => carries[t] = wanted
      BY DEF PInv, LastPickIsSomewhere
    <3>2. ASSUME Carriers' = {} PROVE thread = wanted
      <4>1. ASSUME NEW q \in Turns, r \in ahead[q] PROVE FALSE
        <5>1. phase[q] = "taken" /\ carries[q] # NoMode
          BY <1>1, <4>1 DEF PInv, OlderGoFirst
        <5>2. q \in Carriers /\ q # r
          BY <1>1, <1>2, <5>1 DEF Carriers, UnderWay
        <5>. QED
          BY <2>5, <3>2, <5>2
      <4>. QED
        BY <2>2, <2>5, <3>1, <4>1
    <3>. QED
      BY <2>5, <3>1, <3>2
  <2>. QED
    BY <1>3, <2>6, <2>7, <2>8 DEF PInv
<1>. QED
  BY <1>4, <1>5

(* A start that failed gives its pick back.                                  *)
LEMMA KeepModeKeepsPicks ==
  ASSUME IInv, GInv, PInv, NEW r \in Requests, KeepMode(r)
  PROVE  PInv'
<1>1. /\ phase[r] = "failed" /\ phase' = [phase EXCEPT ![r] = "done"]
      /\ pending' = Kept(carries[r])
      /\ crossed' = (crossed \/ (pending = NoMode /\ \E q \in Turns : r \in ahead[q]))
      /\ UNCHANGED <<ahead, carries, attempted, inForce, thread, wanted, stdin>>
  BY DEF KeepMode, serverVars
<1>2. /\ phase \in [Requests -> {"idle", "taken", "registered", "written", "settling",
                               "failed", "done"}]
      /\ ahead \in [Turns -> SUBSET Turns] /\ Turns \subseteq Requests /\ crossed \in BOOLEAN
  BY DEF IInv, TypeOK, Requests
<1>3. ChipFollows'
  BY CallerSaysNothing DEF PInv, Caller
<1>4. phase'[r] = "done" /\ phase' = [phase EXCEPT ![r] = phase'[r]]
  BY <1>1, <1>2
<1>5. CASE carries[r] = NoMode
  <2>1. pending' = pending /\ (crossed => crossed')
    BY <1>1, <1>5 DEF Kept
  <2>2. OneModeOnly' /\ OlderGoFirst' /\ LastPickIsSomewhere'
    BY <1>1, <1>4, <1>5, <2>1, OnTheWay
  <2>. QED
    BY <1>3, <2>2 DEF PInv
<1>6. CASE carries[r] # NoMode
  <2>1. r \in Turns /\ r \in Carriers
    BY <1>1, <1>6 DEF GInv, NothingEarly, Requests, Carriers, UnderWay
  <2>2. pending' # NoMode
    BY <1>1, <1>6 DEF Kept
  <2>3. \A q \in Requests : phase'[q] = IF q = r THEN "done" ELSE phase[q]
    BY <1>1, <1>2
  <2>4. OneModeOnly'
    BY <2>2 DEF OneModeOnly
  <2>5. OlderGoFirst'
    <3>. SUFFICES ASSUME NEW q \in Turns, NEW c \in ahead[q]
                  PROVE  /\ phase'[c] # "idle" /\ phase'[q] # "idle" /\ carries[q] # NoMode
                         /\ ~crossed' /\ phase'[c] \in {"taken", "registered", "written", "settling"}
                            => phase'[q] = "taken"
      BY <1>1 DEF OlderGoFirst
    <3>1. /\ c \in Turns /\ phase[c] # "idle" /\ phase[q] # "idle" /\ carries[q] # NoMode
          /\ ~crossed /\ phase[c] \in {"taken", "registered", "written", "settling"} =>
                 phase[q] = "taken"
      BY <1>2 DEF PInv, OlderGoFirst
    <3>. QED
      BY <1>1, <1>2, <2>3, <3>1
  <2>6. LastPickIsSomewhere'
    <3>. SUFFICES ASSUME ~crossed' PROVE pending' = wanted
      BY <1>1, <2>2 DEF LastPickIsSomewhere
    <3>1. CASE pending = NoMode
      BY <1>1, <1>2, <2>1, <3>1 DEF PInv, LastPickIsSomewhere, Kept
    <3>2. CASE pending # NoMode
      BY <1>1, <3>2 DEF PInv, LastPickIsSomewhere, Kept
    <3>. QED
      BY <3>1, <3>2
  <2>. QED
    BY <1>3, <2>4, <2>5, <2>6 DEF PInv
<1>. QED
  BY <1>5, <1>6

(* The first line read.                                                      *)
LEMMA LineRead ==
  ASSUME NEW s \in Seq(Lines), s # <<>>, NEW m, EndsOn(s, m)
  PROVE  /\ EndsOn(Tail(s), m)
         /\ Restates(Tail(s)) = {} /\ Head(s).kind = "settings" => Head(s).mode = m
         /\ Restates(Tail(s)) = {} /\ Head(s).kind # "settings" => Restates(s) = {}
<1>. DEFINE t == Tail(s)
            h == Head(s)
<1>1. /\ Len(t) = Len(s) - 1 /\ h = s[1] /\ Len(s) \in Nat /\ Len(s) >= 1
      /\ \A i \in 1 .. Len(t) : t[i] = s[i + 1]
  BY HeadTailProperties
<1>. HIDE DEF t, h
<1>2. \A i \in Restates(s) : (i = 1 /\ h.kind = "settings") \/ i - 1 \in Restates(t)
  BY <1>1 DEF Restates
<1>3. \A i \in Restates(t) : i \in Nat /\ i + 1 \in Restates(s) /\ s[i + 1] = t[i]
  BY <1>1 DEF Restates
<1>4. h.kind = "settings" => 1 \in Restates(s) /\ s[1] = h
  BY <1>1 DEF Restates
<1>5. EndsOn(t, m)
  <2>. SUFFICES ASSUME NEW i \in Restates(t), t[i].mode # m
                PROVE  \E j \in Restates(t) : i < j
    BY DEF EndsOn
  <2>1. PICK j \in Restates(s) : i + 1 < j
    BY <1>3 DEF EndsOn
  <2>2. i \in Nat /\ i >= 1 /\ j \in Nat
    BY <1>1 DEF Restates
  <2>3. j - 1 \in Restates(t) /\ i < j - 1
    BY <1>2, <2>1, <2>2
  <2>. QED
    BY <2>3
<1>6. ASSUME Restates(t) = {}, h.kind = "settings" PROVE h.mode = m
  <2>1. \A j \in Restates(s) : j = 1
    BY <1>2, <1>6
  <2>. QED
    BY <1>4, <1>6, <2>1 DEF EndsOn
<1>7. Restates(t) = {} /\ h.kind # "settings" => Restates(s) = {}
  BY <1>2
<1>. QED
  BY <1>5, <1>6, <1>7 DEF t, h

(* A line said after the others.                                             *)
LEMMA LineSaid ==
  ASSUME NEW s \in Seq(Lines), NEW l \in Lines, NEW m, EndsOn(s, m)
  PROVE  /\ l.kind # "settings" =>
               EndsOn(Append(s, l), m) /\ Restates(Append(s, l)) = Restates(s)
         /\ l.kind = "settings" =>
               EndsOn(Append(s, l), l.mode) /\ Restates(Append(s, l)) # {}
<1>. DEFINE t == Append(s, l)
<1>1. /\ Len(t) = Len(s) + 1 /\ t[Len(t)] = l /\ Len(s) \in Nat
      /\ \A i \in 1 .. Len(s) : t[i] = s[i]
  BY AppendProperties
<1>. HIDE DEF t
<1>2. \A i : i \in 1 .. Len(t) <=> (i \in 1 .. Len(s) \/ i = Len(t))
  BY <1>1
<1>3. Restates(t) = IF l.kind = "settings" THEN Restates(s) \cup {Len(t)} ELSE Restates(s)
  BY <1>1, <1>2 DEF Restates
<1>4. \A i \in Restates(s) : t[i] = s[i] /\ i < Len(t)
  BY <1>1 DEF Restates
<1>5. l.kind # "settings" => EndsOn(t, m) /\ Restates(t) = Restates(s)
  BY <1>3, <1>4 DEF EndsOn
<1>6. l.kind = "settings" => EndsOn(t, l.mode) /\ Restates(t) # {}
  BY <1>1, <1>3, <1>4 DEF EndsOn
<1>. QED
  BY <1>5, <1>6 DEF t

(* The pump moves the chip, and nothing else the picks are about.            *)
LEMMA PumpKeepsPicks ==
  ASSUME IInv, PInv, Pump
  PROVE  PInv'
<1>1. UNCHANGED <<phase, carries, ahead, crossed, pending, attempted, inForce, wanted, thread, stdin>>
  BY DEF Pump, PumpAnswers, PumpJudges, PumpRestates, PumpEnds, Reading, requestVars,
     orderVars, modeVars, serverVars
<1>2. Carriers' = Carriers
  BY <1>1 DEF Carriers, UnderWay
<1>3. OneModeOnly' /\ OlderGoFirst' /\ LastPickIsSomewhere'
  BY <1>1, <1>2 DEF PInv, OneModeOnly, OlderGoFirst, LastPickIsSomewhere
<1>4. ChipFollows'
  <2>1. CASE UNCHANGED <<stdout, chip>>
    BY <1>1, <2>1 DEF PInv, ChipFollows, EndsOn, Restates
  <2>2. CASE ~UNCHANGED <<stdout, chip>>
    <3>1. /\ stdout # <<>> /\ stdout' = Tail(stdout) /\ stdout \in Seq(Lines)
          /\ \/ NextLine.kind = "settings" /\ chip' = NextLine.mode
             \/ NextLine.kind # "settings" /\ chip' = chip
      BY <2>2 DEF Pump, PumpAnswers, PumpJudges, PumpRestates, PumpEnds, Reading, modeVars,
         serverVars, IInv, TypeOK
    <3>2. /\ EndsOn(Tail(stdout), thread)
          /\ Restates(Tail(stdout)) = {} /\ NextLine.kind = "settings" => NextLine.mode = thread
          /\ Restates(Tail(stdout)) = {} /\ NextLine.kind # "settings" => Restates(stdout) = {}
      BY <3>1, LineRead DEF PInv, ChipFollows, NextLine
    <3>3. Restates(stdout') = {} => chip' \in {thread, wanted}
      BY <3>1, <3>2 DEF PInv, ChipFollows
    <3>4. EndsOn(stdout', thread')
      BY <1>1, <3>1, <3>2
    <3>. QED
      BY <1>1, <3>3, <3>4 DEF ChipFollows
  <2>. QED
    BY <2>1, <2>2
<1>. QED
  BY <1>3, <1>4 DEF PInv

(* A frame less in the pipe.                                                 *)
LEMMA NamesNoneTail ==
  ASSUME NEW s \in Seq(Frames), NamesNone(s), s # <<>>
  PROVE  Head(s).mode = NoMode /\ NamesNone(Tail(s))
<1>. DEFINE t == Tail(s)
<1>1. /\ Len(t) = Len(s) - 1 /\ Head(s) = s[1] /\ Len(s) \in Nat /\ Len(s) >= 1
      /\ \A i \in 1 .. Len(t) : t[i] = s[i + 1]
  BY HeadTailProperties
<1>. HIDE DEF t
<1>2. 1 \in 1 .. Len(s) /\ \A i \in 1 .. Len(t) : i + 1 \in 1 .. Len(s)
  BY <1>1
<1>3. NamesNone(t)
  BY <1>1, <1>2 DEF NamesNone
<1>. QED
  BY <1>1, <1>2, <1>3 DEF NamesNone, t

(* The child takes a frame up, says something, or falls silent.              *)
LEMMA ServerKeepsPicks ==
  ASSUME IInv, PInv, Server
  PROVE  PInv'
<1>. USE DEF clientVars, requestVars, orderVars, modeVars
<1>0. /\ stdin \in Seq(Frames) /\ stdout \in Seq(Lines) /\ turn \in Running \cup {NoTurn}
      /\ thread \in Modes /\ owed \subseteq Requests
  BY DEF IInv, TypeOK
<1>1. UNCHANGED <<phase, carries, ahead, crossed, pending, attempted, inForce, wanted, chip>>
  BY DEF Server, StartsTurn, AnswersRead, Refuses, AsksForTool, EndsTurn, Exits, Answers
<1>2. Carriers' = Carriers
  BY <1>1 DEF Carriers, UnderWay
<1>3. stdin' = stdin \/ stdin' = <<>> \/ (stdin # <<>> /\ stdin' = Tail(stdin))
  BY DEF Server, StartsTurn, AnswersRead, Refuses, AsksForTool, EndsTurn, Exits, Answers
<1>4. NamesNone(stdin) => NamesNone(stdin')
  <2>1. NamesNone(<<>>)
    BY DEF NamesNone
  <2>2. CASE stdin # <<>> /\ stdin' = Tail(stdin)
    BY <1>0, <2>2, NamesNoneTail
  <2>. QED
    BY <1>3, <2>1, <2>2
<1>5. CASE StartsTurn
  <2>. DEFINE f == Head(stdin)
              m == IF f.mode = NoMode THEN thread ELSE f.mode
  <2>1. /\ stdin # <<>> /\ thread' = m
        /\ stdout' = IF m = thread THEN stdout ELSE Append(stdout, Line("settings", Nobody, m))
    BY <1>5 DEF StartsTurn, Says
  <2>2. f \in Frames
    BY <1>0, <2>1, HeadTailProperties
  <2>3. NamesNone(stdin) => thread' = thread
    BY <1>0, <2>1, NamesNoneTail
  <2>4. m \in Modes
    BY <1>0, <2>2 DEF Frames
  <2>. HIDE DEF f, m
  <2>5. OneModeOnly'
    BY <1>1, <1>2, <1>4, <2>3 DEF PInv, OneModeOnly
  <2>6. LastPickIsSomewhere'
    BY <1>1, <1>2, <2>3 DEF PInv, OneModeOnly, LastPickIsSomewhere
  <2>7. ChipFollows'
    <3>1. CASE m = thread
      BY <1>1, <2>1, <3>1 DEF PInv, ChipFollows, EndsOn, Restates
    <3>2. CASE m # thread
      <4>. DEFINE l == Line("settings", Nobody, m)
      <4>1. l \in Lines /\ l.kind = "settings" /\ l.mode = m
        BY <2>4 DEF Line, Lines
      <4>2. stdout' = Append(stdout, l)
        BY <2>1, <3>2
      <4>. HIDE DEF l
      <4>3. EndsOn(Append(stdout, l), m) /\ Restates(Append(stdout, l)) # {}
        BY <1>0, <4>1, LineSaid DEF PInv, ChipFollows
      <4>. QED
        BY <2>1, <4>2, <4>3 DEF ChipFollows
    <3>. QED
      BY <3>1, <3>2
  <2>8. OlderGoFirst'
    BY <1>1 DEF PInv, OlderGoFirst
  <2>. QED
    BY <2>5, <2>6, <2>7, <2>8 DEF PInv
<1>6. CASE ~StartsTurn
  <2>1. thread' = thread
    BY <1>6 DEF Server, AnswersRead, Refuses, AsksForTool, EndsTurn, Exits, Answers
  <2>2. stdout' = stdout \/ \E l \in Lines : l.kind # "settings" /\ stdout' = Append(stdout, l)
    <3>1. CASE AnswersRead \/ Refuses
      <4>b. stdin # <<>>
        BY <3>1 DEF AnswersRead, Refuses
      <4>a. Head(stdin) \in Frames
        BY <1>0, <4>b, HeadTailProperties
      <4>1. Head(stdin).of \in Requests
        BY <4>a DEF Frames
      <4>2. \A k \in {"ok", "rpc"} : Line(k, Head(stdin).of, NoMode) \in Lines
                                     /\ Line(k, Head(stdin).of, NoMode).kind # "settings"
        BY <4>1 DEF Line, Lines
      <4>. QED
        BY <3>1, <4>2 DEF AnswersRead, Refuses, Says
    <3>2. CASE AsksForTool
      <4>1. Line("ask", turn.of, turn.mode) \in Lines /\ Line("ask", turn.of, turn.mode).kind # "settings"
        BY <1>0, <3>2 DEF AsksForTool, Line, Lines, Running
      <4>. QED
        BY <3>2, <4>1 DEF AsksForTool, Says
    <3>3. CASE \E r \in Requests : Answers(r)
      <4>1. \A r \in Requests : Line("ok", r, NoMode) \in Lines /\ Line("ok", r, NoMode).kind # "settings"
        BY DEF Line, Lines
      <4>. QED
        BY <3>3, <4>1 DEF Answers, Says
    <3>4. CASE EndsTurn \/ Exits
      BY <3>4 DEF EndsTurn, Exits
    <3>. QED
      BY <1>6, <3>1, <3>2, <3>3, <3>4 DEF Server
  <2>3. EndsOn(stdout', thread) /\ Restates(stdout') = Restates(stdout)
    <3>1. CASE stdout' = stdout
      BY <3>1 DEF PInv, ChipFollows
    <3>2. CASE \E l \in Lines : l.kind # "settings" /\ stdout' = Append(stdout, l)
      BY <1>0, <3>2, LineSaid DEF PInv, ChipFollows
    <3>. QED
      BY <2>2, <3>1, <3>2
  <2>4. ChipFollows'
    BY <1>1, <2>1, <2>3 DEF PInv, ChipFollows
  <2>5. OneModeOnly' /\ OlderGoFirst' /\ LastPickIsSomewhere'
    BY <1>1, <1>2, <1>4, <2>1 DEF PInv, OneModeOnly, OlderGoFirst, LastPickIsSomewhere
  <2>. QED
    BY <2>4, <2>5 DEF PInv
<1>. QED
  BY <1>5, <1>6

(* Whoever takes the step.                                                   *)
LEMMA StepPInv == IInv /\ IInv' /\ GInv /\ PInv /\ [Next]_vars => PInv'
<1>. SUFFICES ASSUME IInv, GInv, PInv, [Next]_vars PROVE PInv'
  OBVIOUS
<1>1. CASE UNCHANGED vars
  BY <1>1 DEF vars, requestVars, orderVars, serverVars, modeVars, PInv, OneModeOnly,
     OlderGoFirst, LastPickIsSomewhere, ChipFollows, EndsOn, Restates, Carriers, UnderWay
<1>2. ASSUME NEW m \in Modes, Pick(m) PROVE PInv'
  <2>1. /\ pending' = m /\ chip' = m /\ wanted' = m /\ m # NoMode
        /\ UNCHANGED <<phase, carries, ahead, crossed, stdout, thread>>
    BY <1>2, RequestsAreApart DEF Pick, requestVars, orderVars, serverVars
  <2>. QED
    BY <2>1 DEF PInv, OneModeOnly, OlderGoFirst, LastPickIsSomewhere, ChipFollows, EndsOn, Restates
<1>. QED
  BY <1>1, <1>2, TakeKeepsPicks, RegisterKeepsPicks, WaitKeepsPicks, SettleKeepsPicks,
     KeepModeKeepsPicks, PumpKeepsPicks, ServerKeepsPicks DEF Next, Caller

(* Once nothing is outstanding and no pick waits, the gate, the thread, the  *)
(* chip and the person go by one mode, whatever was picked, refused, lost or *)
(* answered late before, for any set of turns.                               *)
THEOREM LastPickStandsAlways == Spec => []LastPickStands
<1>1. IInv /\ PInv => LastPickStands
  <2>. SUFFICES ASSUME IInv, PInv, AtRest PROVE LastPickStands
    BY DEF LastPickStands
  <2>1. Carriers = {} /\ pending = NoMode
    BY DEF AtRest, Carriers, UnderWay
  <2>2. Restates(stdout) = {}
    BY DEF AtRest, Restates
  <2>3. {inForce, attempted} = {thread}
    BY <2>1 DEF PInv, OneModeOnly
  <2>4. ~crossed => {chip, wanted} = {thread}
    BY <2>1, <2>2 DEF PInv, LastPickIsSomewhere, ChipFollows
  <2>. QED
    BY <2>3, <2>4 DEF LastPickStands
<1>. QED
  BY <1>1, Invariant, InitGInv, StepGInv, InitPInv, StepPInv, PTL DEF Spec
=============================================================================

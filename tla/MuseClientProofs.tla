-------------------------- MODULE MuseClientProofs --------------------------
(***************************************************************************)
(* The two planes of muse-client.  The request plane: its safety for any   *)
(* set of calls, and that it implements RequestContract.  The event plane: *)
(* what its consumer sees, for any number of events and pages, in order    *)
(* behind every gap, and after one gap complete and without repetition.    *)
(***************************************************************************)
EXTENDS MuseRequests, GapFill, FiniteSetTheorems, SequenceTheorems, TLAPS

-----------------------------------------------------------------------------
(* The request plane.                                                        *)

LEMMA TypeInit == Init => TypeOK
<1>1. NoReply \in Replies
  BY DEF NoReply, Replies
<1>. SUFFICES ASSUME Init PROVE TypeOK
  OBVIOUS
<1>2. /\ pc \in [Calls -> Places] /\ id \in [Calls -> Nat]
      /\ reply \in [Calls -> Replies] /\ result \in [Calls -> Replies]
  BY <1>1 DEF Init, Places
<1>3. nextId \in Nat \ {0}
  BY DEF Init, FirstId
<1>. QED
  BY <1>2, <1>3 DEF Init, TypeOK, ReaderPlaces, ShutPlaces

LEMMA TypeNext == TypeOK /\ [Next]_vars => TypeOK'
<1>. SUFFICES ASSUME TypeOK, [Next]_vars PROVE TypeOK'
  OBVIOUS
<1>. USE CallsAssumption, FaultsAssumption DEF TypeOK, inner, calls, rthread, stop, pipes,
       Places, ReaderPlaces, ShutPlaces
<1>1. CASE UNCHANGED vars
  BY <1>1 DEF vars
<1>2. ASSUME NEW c \in Calls, CallStep(c) PROVE TypeOK'
  <2>1. CASE Enter(c)
    BY <2>1 DEF Enter
  <2>2. CASE CheckClosed(c)
    BY <2>2 DEF CheckClosed, IsClosed, Return, Closed, Replies
  <2>3. CASE Register(c)
    BY <2>3 DEF Register, Insert, Requests
  <2>4. CASE WriteLine(c)
    BY <2>4 DEF WriteLine, Requests
  <2>5. CASE Receive(c)
    BY <2>5 DEF Receive, Return
  <2>6. CASE Expire(c)
    BY <2>6 DEF Expire
  <2>7. CASE GiveUp(c)
    BY <2>7 DEF GiveUp, Return, Closed, TimedOut, Replies, Without
  <2>. QED
    BY <1>2, <2>1, <2>2, <2>3, <2>4, <2>5, <2>6, <2>7 DEF CallStep
<1>3. CASE ReaderStep
  <2>1. CASE ReadFrame
    <3>. PICK f \in stdout : /\ stdout' = stdout \ {f}
                             /\ HandleResponse(f) \/ HandleErrorResponse(f) \/ HandleNoise(f)
      BY <2>1 DEF ReadFrame
    <3>1. f \in Frames /\ stdout' \in SUBSET Frames
      OBVIOUS
    <3>2. CASE HandleResponse(f)
      BY <2>1, <3>1, <3>2 DEF ReadFrame, HandleResponse, Waiters, Without, AnswerOf,
         Frames, Replies, Requests
    <3>3. CASE HandleErrorResponse(f)
      BY <2>1, <3>1, <3>3 DEF ReadFrame, HandleErrorResponse, Waiters, Without, AnswerOf,
         Frames, Replies, Requests
    <3>4. CASE HandleNoise(f)
      BY <2>1, <3>1, <3>4 DEF ReadFrame, HandleNoise, Frames
    <3>. QED
      BY <3>2, <3>3, <3>4
  <2>2. ASSUME NEW c \in Calls, SpawnFill(c) PROVE TypeOK'
    BY <2>2 DEF SpawnFill
  <2>3. CASE EndOfStream
    BY <2>3 DEF EndOfStream
  <2>4. CASE MarkClosed
    BY <2>4 DEF MarkClosed
  <2>5. CASE LockChild
    BY <2>5 DEF LockChild
  <2>6. CASE Reap
    BY <2>6 DEF Reap
  <2>7. CASE Drain
    BY <2>7 DEF Drain, Closed, Requests, Replies
  <2>8. CASE Deliver
    BY <2>8 DEF Deliver
  <2>9. CASE AnnounceClosed
    BY <2>9 DEF AnnounceClosed
  <2>. QED
    BY <1>3, <2>1, <2>2, <2>3, <2>4, <2>5, <2>6, <2>7, <2>8, <2>9 DEF ReaderStep
<1>4. CASE ShutdownStep
  BY <1>4 DEF ShutdownStep, BeginShutdown, DropWrites, KillChild, TakeFills,
     JoinFills, JoinThreads
<1>5. CASE WriterWrite \/ WriterEnd
  BY <1>5 DEF WriterWrite, WriterEnd
<1>6. CASE ServerStep
  <2>1. CASE ServerAnswer
    BY <2>1 DEF ServerAnswer, Requests, Frames
  <2>2. CASE ServerFault
    BY <2>2 DEF ServerFault, Noise, Frames
  <2>3. CASE ChildExit
    BY <2>3 DEF ChildExit
  <2>. QED
    BY <1>6, <2>1, <2>2, <2>3 DEF ServerStep
<1>7. CASE Finished
  BY <1>7 DEF Finished, vars
<1>. QED
  BY <1>1, <1>2, <1>3, <1>4, <1>5, <1>6, <1>7 DEF Next

\* Type correctness.
THEOREM TypeCorrect == Spec => []TypeOK
  BY TypeInit, TypeNext, PTL DEF Spec

-----------------------------------------------------------------------------
(* The inductive invariant *)

LEMMA InvInit == Init => IInv
<1>. SUFFICES ASSUME Init PROVE IInv
  OBVIOUS
<1>1. TypeOK
  BY TypeInit
<1>. QED
  BY <1>1, CallsAssumption DEF Init, IInv, TypeOK, FirstId, NoReply, CallsKeepTheirId,
     WaitersOwnTheirEntry, ClaimsAreSound, LinesCarryTheirId,
     OutcomesAreJustified, DownIsRecorded

LEMMA RegisterInv ==
  ASSUME IInv, TypeOK', NEW c \in Calls, Register(c) PROVE IInv'
<1>. USE CallsAssumption DEF IInv, TypeOK, rthread, stop, pipes, Register
<1>1. /\ id' = [id EXCEPT ![c] = nextId] /\ id[c] = 0 /\ nextId # 0
      /\ pc' = [pc EXCEPT ![c] = "registered"] /\ reply[c] = NoReply
  BY DEF CallsKeepTheirId
<1>2. CallsKeepTheirId'
  BY DEF CallsKeepTheirId
<1>3. WaitersOwnTheirEntry'
  <2>. SUFFICES ASSUME NEW p \in pending'
                PROVE  /\ p.id = id'[p.call] /\ p.id # 0 /\ reply'[p.call] = NoReply
                       /\ pc'[p.call] \in {"registered", "waiting", "refused", "expired"}
    BY DEF WaitersOwnTheirEntry
  <2>1. CASE p = [id |-> nextId, call |-> c]
    BY <1>1, <2>1
  <2>2. CASE p \in pending
    <3>1. p.call # c /\ p.call \in Calls
      BY <2>2 DEF WaitersOwnTheirEntry, Requests
    <3>. QED
      BY <1>1, <2>2, <3>1 DEF WaitersOwnTheirEntry
  <2>. QED
    BY <2>1, <2>2 DEF Insert
<1>4. ClaimsAreSound'
  <2>1. \A h \in hand : h.call # c /\ h.call \in Calls
    BY <1>1 DEF ClaimsAreSound
  <2>2. \A h \in hand, p \in pending' : p.call # h.call
    BY <2>1 DEF Insert, ClaimsAreSound
  <2>3. \A h \in hand : id'[h.call] # 0
    BY <1>1, <2>1 DEF ClaimsAreSound
  <2>. QED
    BY <2>2, <2>3 DEF ClaimsAreSound, Answered, IsClosed, Closed
<1>5. LinesCarryTheirId'
  <2>1. \A l \in outbox \cup inbox : l.call # c /\ l.call \in Calls
    BY <1>1 DEF LinesCarryTheirId, Requests
  <2>2. \A f \in sent : f.of # c /\ f.of \in Calls
    BY <1>1 DEF LinesCarryTheirId
  <2>. QED
    BY <1>1, <2>1, <2>2 DEF LinesCarryTheirId, Noise
<1>6. OutcomesAreJustified' /\ DownIsRecorded'
  BY DEF OutcomesAreJustified, DownIsRecorded, Answered, Down, IsClosed, NoReply
<1>. QED
  BY <1>2, <1>3, <1>4, <1>5, <1>6

LEMMA WriteLineInv ==
  ASSUME IInv, TypeOK', NEW c \in Calls, WriteLine(c) PROVE IInv'
<1>. USE CallsAssumption DEF IInv, TypeOK, inner, rthread, stop, WriteLine
<1>1. LinesCarryTheirId'
  <2>1. id[c] # 0
    BY DEF CallsKeepTheirId
  <2>2. outbox' \subseteq outbox \cup {[id |-> id[c], call |-> c]}
    OBVIOUS
  <2>. QED
    BY <2>1, <2>2 DEF LinesCarryTheirId, Noise
<1>2. OutcomesAreJustified'
  <2>1. pc'[c] = "refused" => Down
    BY DEF DownIsRecorded, Down
  <2>. QED
    BY <2>1 DEF OutcomesAreJustified, Answered, Down, IsClosed, NoReply
<1>. QED
  BY <1>1, <1>2 DEF CallsKeepTheirId, WaitersOwnTheirEntry, ClaimsAreSound,
     DownIsRecorded, Answered, Down, IsClosed, Closed, NoReply, Requests

LEMMA CallStepInv ==
  ASSUME IInv, TypeOK', NEW c \in Calls, CallStep(c) PROVE IInv'
<1>. USE CallsAssumption DEF IInv, TypeOK, inner, rthread, stop, pipes, CallsKeepTheirId,
       WaitersOwnTheirEntry, ClaimsAreSound, LinesCarryTheirId, OutcomesAreJustified,
       DownIsRecorded, Requests, NoReply, Closed, TimedOut, Answered, Down,
       IsClosed, Noise
<1>1. CASE Enter(c)
  BY <1>1 DEF Enter
<1>2. CASE CheckClosed(c)
  BY <1>2 DEF CheckClosed, Return
<1>3. CASE Receive(c)
  BY <1>3 DEF Receive, Return
<1>4. CASE Expire(c)
  BY <1>4 DEF Expire
<1>5. CASE GiveUp(c)
  BY <1>5 DEF GiveUp, Return, Without
<1>. QED
  BY <1>1, <1>2, <1>3, <1>4, <1>5, RegisterInv, WriteLineInv DEF CallStep

\* A frame off the pipe: answer, error answer or noise.
LEMMA ReadFrameInv == ASSUME IInv, TypeOK', ReadFrame PROVE IInv'
<1>. USE CallsAssumption DEF IInv, TypeOK, stop, ReadFrame, Requests, NoReply, Answered
<1>1. PICK f \in stdout :
        /\ stdout' = stdout \ {f}
        /\ HandleResponse(f) \/ HandleErrorResponse(f) \/ HandleNoise(f)
  OBVIOUS
<1>2. hand = {} /\ sent' = sent /\ f \in Frames /\ (f \in sent \/ f.id = 0)
  BY DEF ClaimsAreSound, LinesCarryTheirId, Noise
<1>3. CallsKeepTheirId' /\ LinesCarryTheirId' /\ DownIsRecorded'
  <2>1. LinesCarryTheirId' /\ DownIsRecorded'
    BY <1>1 DEF HandleResponse, HandleErrorResponse, HandleNoise, LinesCarryTheirId,
       Noise, DownIsRecorded, Down, IsClosed
  <2>2. \A c \in Calls : reply'[c] = reply[c] \/ pc[c] \notin {"start", "called", "checked"}
    BY <1>1 DEF HandleResponse, HandleErrorResponse, HandleNoise, Waiters,
       WaitersOwnTheirEntry
  <2>. QED
    BY <2>1, <2>2 DEF CallsKeepTheirId
<1>4. CASE HandleNoise(f)
  BY <1>2, <1>3, <1>4 DEF HandleNoise, WaitersOwnTheirEntry, ClaimsAreSound,
     OutcomesAreJustified, Down, IsClosed
<1>5. CASE Waiters(f.id) = {} /\ ~HandleNoise(f)
  BY <1>1, <1>2, <1>3, <1>5 DEF HandleResponse, HandleErrorResponse,
     WaitersOwnTheirEntry, ClaimsAreSound, OutcomesAreJustified, Down, IsClosed
<1>6. CASE Waiters(f.id) # {} /\ ~HandleNoise(f)
  <2>1. PICK p \in pending : p.id = f.id
    BY <1>6 DEF Waiters
  <2>2. p.call \in Calls /\ id[p.call] = f.id /\ f.id # 0 /\ reply[p.call] = NoReply
    BY <2>1 DEF WaitersOwnTheirEntry
  <2>3. Waiters(f.id) = {p}
    BY <2>1, <2>2 DEF Waiters, WaitersOwnTheirEntry, CallsKeepTheirId
  <2>4. f \in sent /\ f.of = p.call
    BY <1>2, <2>2 DEF LinesCarryTheirId, CallsKeepTheirId
  <2>5. \A q \in pending' : q \in pending /\ q.call # p.call
    BY <1>1, <1>6, <2>2, <2>3 DEF HandleResponse, HandleErrorResponse, Without,
       WaitersOwnTheirEntry, Waiters
  <2>6. CASE HandleResponse(f)
    <3>1. reply' = [reply EXCEPT ![p.call] = [kind |-> "ok", of |-> p.call]]
      BY <2>3, <2>4, <2>6 DEF HandleResponse, AnswerOf
    <3>2. WaitersOwnTheirEntry' /\ ClaimsAreSound'
      BY <1>2, <2>2, <2>5, <2>6, <3>1 DEF HandleResponse, WaitersOwnTheirEntry,
         ClaimsAreSound
    <3>3. OutcomesAreJustified'
      BY <1>2, <2>2, <2>4, <3>1 DEF OutcomesAreJustified, Down, IsClosed
    <3>. QED
      BY <1>3, <3>2, <3>3
  <2>7. CASE HandleErrorResponse(f)
    <3>1. /\ hand' = {[call |-> p.call, res |-> [kind |-> "rpc", of |-> p.call]]}
          /\ reader' = "delivering" /\ reply' = reply
      BY <2>3, <2>4, <2>7 DEF HandleErrorResponse, AnswerOf
    <3>2. WaitersOwnTheirEntry' /\ ClaimsAreSound'
      BY <1>2, <2>2, <2>4, <2>5, <3>1 DEF WaitersOwnTheirEntry, ClaimsAreSound
    <3>3. OutcomesAreJustified'
      BY <1>2, <3>1 DEF OutcomesAreJustified, Down, IsClosed
    <3>. QED
      BY <1>3, <3>2, <3>3
  <2>. QED
    BY <1>1, <1>6, <2>6, <2>7
<1>. QED
  BY <1>4, <1>5, <1>6

LEMMA DrainInv == ASSUME IInv, TypeOK', Drain PROVE IInv'
<1>. USE CallsAssumption DEF IInv, TypeOK, calls, stop, pipes, Drain, Requests
<1>1. ClaimsAreSound'
  <2>1. IsClosed
    BY DEF DownIsRecorded
  <2>2. \A p \in pending : reply[p.call] = NoReply /\ id[p.call] # 0
    BY DEF WaitersOwnTheirEntry
  <2>. QED
    BY <2>1, <2>2 DEF ClaimsAreSound, IsClosed, Closed
<1>. QED
  BY <1>1 DEF CallsKeepTheirId, WaitersOwnTheirEntry, LinesCarryTheirId,
     OutcomesAreJustified, DownIsRecorded, Noise, Answered, Down, IsClosed, NoReply

LEMMA DeliverInv == ASSUME IInv, TypeOK', Deliver PROVE IInv'
<1>. USE CallsAssumption DEF IInv, TypeOK, inner, stop, pipes, Deliver, Requests
<1>1. PICK h \in hand : /\ hand' = hand \ {h}
                        /\ reply' = IF pc[h.call] = "returned" THEN reply
                                    ELSE [reply EXCEPT ![h.call] = h.res]
  OBVIOUS
<1>2. /\ h.call \in Calls /\ id[h.call] # 0
      /\ \/ h.res = Closed /\ IsClosed
         \/ h.res.kind = "rpc" /\ h.res.of = h.call /\ Answered(h.call)
  BY DEF ClaimsAreSound
<1>3. \A c \in Calls : reply'[c] = reply[c] \/ (c = h.call /\ reply'[c] = h.res)
  BY <1>1, <1>2
<1>4. CallsKeepTheirId' /\ LinesCarryTheirId' /\ DownIsRecorded'
  BY <1>2, <1>3 DEF CallsKeepTheirId, LinesCarryTheirId, DownIsRecorded, Noise, Down, IsClosed
<1>5. WaitersOwnTheirEntry'
  BY <1>3 DEF WaitersOwnTheirEntry, ClaimsAreSound
<1>6. ClaimsAreSound'
  <2>1. \A k \in hand' : k \in hand /\ k.call # h.call /\ reader # "delivering"
    BY <1>1 DEF ClaimsAreSound
  <2>. QED
    BY <1>3, <2>1 DEF ClaimsAreSound, Answered, IsClosed, Closed
<1>7. OutcomesAreJustified'
  BY <1>2, <1>3 DEF OutcomesAreJustified, Answered, Down, IsClosed, NoReply, Closed
<1>. QED
  BY <1>4, <1>5, <1>6, <1>7

\* The steps that touch neither a waiter nor an answer.
LEMMA QuietInv ==
  ASSUME IInv, TypeOK',
         \/ \E c \in Calls : SpawnFill(c)
         \/ EndOfStream \/ MarkClosed \/ LockChild \/ Reap \/ AnnounceClosed
         \/ ShutdownStep \/ WriterWrite \/ WriterEnd
         \/ ServerAnswer \/ ServerFault \/ ChildExit
  PROVE  IInv'
<1>. USE CallsAssumption DEF IInv, TypeOK, inner, calls, rthread, stop, pipes,
       CallsKeepTheirId, WaitersOwnTheirEntry, ClaimsAreSound, LinesCarryTheirId,
       OutcomesAreJustified, DownIsRecorded, Requests, NoReply, Closed, Answered,
       Down, IsClosed
<1>1. ASSUME NEW c \in Calls, SpawnFill(c) PROVE IInv'
  BY <1>1 DEF SpawnFill, Noise
<1>2. CASE EndOfStream \/ LockChild \/ Reap \/ AnnounceClosed
  BY <1>2 DEF EndOfStream, LockChild, Reap, AnnounceClosed, Noise
<1>3. CASE MarkClosed \/ BeginShutdown
  BY <1>3 DEF MarkClosed, BeginShutdown, Noise
<1>4. CASE DropWrites \/ TakeFills \/ JoinFills \/ JoinThreads
  BY <1>4 DEF DropWrites, TakeFills, JoinFills, JoinThreads, Noise
<1>5. CASE KillChild \/ ChildExit
  BY <1>5 DEF KillChild, ChildExit, Noise
<1>6. CASE WriterWrite
  BY <1>6 DEF WriterWrite, Noise
<1>7. CASE WriterEnd
  BY <1>7 DEF WriterEnd, Noise
<1>8. CASE ServerAnswer
  BY <1>8 DEF ServerAnswer, Noise
<1>9. CASE ServerFault
  BY <1>9 DEF ServerFault, Noise
<1>. QED
  BY <1>1, <1>2, <1>3, <1>4, <1>5, <1>6, <1>7, <1>8, <1>9 DEF ShutdownStep

LEMMA InvNext == IInv /\ [Next]_vars => IInv'
<1>. SUFFICES ASSUME IInv, [Next]_vars PROVE IInv'
  OBVIOUS
<1>1. TypeOK'
  BY TypeNext DEF IInv
<1>2. CASE UNCHANGED vars
  BY <1>1, <1>2 DEF vars, inner, calls, rthread, stop, pipes, IInv, CallsKeepTheirId,
     WaitersOwnTheirEntry, ClaimsAreSound, LinesCarryTheirId, OutcomesAreJustified,
     DownIsRecorded, Noise, Answered, Down, IsClosed
<1>. QED
  BY <1>1, <1>2, CallStepInv, ReadFrameInv, DrainInv, DeliverInv, QuietInv
     DEF Next, ReaderStep, ServerStep, Finished

\* The invariant holds in every behaviour.
THEOREM Invariant == Spec => []IInv
  BY InvInit, InvNext, PTL DEF Spec

\* The reader never blocks on a reply channel.
THEOREM ReaderNeverBlocksAlways == Spec => []ReaderNeverBlocks
<1>1. IInv => ReaderNeverBlocks
  BY DEF IInv, ReaderNeverBlocks, WaitersOwnTheirEntry, ClaimsAreSound
<1>. QED
  BY <1>1, Invariant, PTL

\* A caller only ever gets the server's answer to its own request.
THEOREM AnswersAreOwn == Spec => []AnswerIsOwn
<1>1. IInv => AnswerIsOwn
  BY DEF IInv, AnswerIsOwn, OutcomesAreJustified
<1>. QED
  BY <1>1, Invariant, PTL

\* A call that has returned has no waiter left in the table.
THEOREM NoWaiterLeaks == Spec => []ReturnedCallsLeaveNoWaiter
<1>1. IInv => ReturnedCallsLeaveNoWaiter
  BY DEF IInv, ReturnedCallsLeaveNoWaiter, WaitersOwnTheirEntry
<1>. QED
  BY <1>1, Invariant, PTL

\* Closed is reported of a connection that is down, and of no other.
THEOREM ClosedIsHonest == Spec => []ClosedMeansDown
<1>1. IInv => ClosedMeansDown
  BY DEF IInv, ClosedMeansDown, OutcomesAreJustified, Closed
<1>. QED
  BY <1>1, Invariant, PTL

-----------------------------------------------------------------------------
(* Refinement of RequestContract *)

LEMMA ContractInit == Init => Contract!CInit
  BY DEF Init, Contract!CInit, OutcomeBar, AnsweredBar, Down, IsClosed

\* A call's own step opens it, settles it or is invisible.
LEMMA ContractCall ==
  ASSUME IInv, NEW c \in Calls, CallStep(c)
  PROVE  [Contract!CNext]_(Contract!cvars)
<1>. USE DEF IInv, TypeOK, OutcomeBar, AnsweredBar, Down, IsClosed, Contract!cvars,
       inner, rthread, stop, pipes
<1>0. AnsweredBar' = AnsweredBar /\ Down' = Down
  BY DEF CallStep, Enter, CheckClosed, Register, WriteLine, Receive, Expire, GiveUp
<1>1. CASE Enter(c)
  <2>1. Contract!Open(c)
    BY <1>0, <1>1 DEF Enter, Contract!Open
  <2>. QED
    BY <2>1 DEF Contract!CNext
<1>2. ASSUME NEW r \in Replies, Return(c, r), pc[c] \notin {"start", "returned"},
             r.kind \in {"ok", "rpc"} => r.of = c /\ Answered(c),
             r.kind = "closed" => Down, r.kind # "none"
      PROVE  [Contract!CNext]_(Contract!cvars)
  <2>1. OutcomeBar' = [OutcomeBar EXCEPT ![c] = r.kind] /\ OutcomeBar[c] = "open"
    BY <1>2 DEF Return, Replies
  <2>2. r.kind \in {"ok", "rpc"} => c \in AnsweredBar
    BY <1>2 DEF Answered
  <2>3. Contract!Settle(c, r.kind)
    BY <1>0, <1>2, <2>1, <2>2 DEF Contract!Settle
  <2>. QED
    BY <1>2, <2>3 DEF Contract!CNext, Replies
<1>3. CASE CheckClosed(c) /\ IsClosed
  BY <1>2, <1>3 DEF CheckClosed, Closed, Replies
<1>4. CASE Receive(c)
  <2>1. /\ reply[c] \in Replies /\ reply[c].kind # "none"
        /\ reply[c].kind \in {"ok", "rpc"} => reply[c].of = c /\ Answered(c)
        /\ reply[c].kind = "closed" => Down
    BY <1>4 DEF Receive, OutcomesAreJustified
  <2>. QED
    BY <1>2, <1>4, <2>1 DEF Receive
<1>5. CASE GiveUp(c)
  <2>1. pc[c] = "refused" => Down
    BY DEF OutcomesAreJustified
  <2>. QED
    BY <1>2, <1>5, <2>1 DEF GiveUp, Closed, TimedOut, Replies
<1>6. CASE Register(c) \/ WriteLine(c) \/ Expire(c) \/ (CheckClosed(c) /\ ~IsClosed)
  <2>1. OutcomeBar' = OutcomeBar
    BY <1>6 DEF Register, WriteLine, Expire, CheckClosed
  <2>. QED
    BY <1>0, <2>1
<1>7. \/ Enter(c) \/ CheckClosed(c) \/ Register(c) \/ WriteLine(c)
      \/ Receive(c) \/ Expire(c) \/ GiveUp(c)
  BY DEF CallStep
<1>. HIDE DEF IInv, TypeOK, OutcomeBar, AnsweredBar, Down, IsClosed, Contract!cvars,
       inner, rthread, stop, pipes
<1>. QED
  BY <1>1, <1>3, <1>4, <1>5, <1>6, <1>7

\* The other threads open gap-fill calls, answer, or bring the connection down.
LEMMA ContractRest ==
  ASSUME IInv, ReaderStep \/ ShutdownStep \/ WriterWrite \/ WriterEnd \/ ServerStep
  PROVE  [Contract!CNext]_(Contract!cvars)
<1>. USE DEF IInv, TypeOK, OutcomeBar, AnsweredBar, Down, IsClosed, Contract!cvars,
       inner, calls, rthread, stop, pipes
<1>1. ASSUME NEW c \in Calls, SpawnFill(c) PROVE Contract!Open(c)
  BY <1>1 DEF SpawnFill, Contract!Open
<1>2. CASE ServerAnswer
  <2>1. PICK l \in inbox, k \in {"ok", "rpc"} :
          sent' = sent \cup {[kind |-> k, id |-> l.id, of |-> l.call]}
    BY <1>2 DEF ServerAnswer
  <2>2. l.call \in Calls /\ pc[l.call] # "start"
    BY DEF LinesCarryTheirId, CallsKeepTheirId, Requests
  <2>3. AnsweredBar' = AnsweredBar \cup {l.call}
    <3>. DEFINE f == [kind |-> k, id |-> l.id, of |-> l.call]
    <3>1. sent' = sent \cup {f} /\ f.of = l.call
      BY <2>1
    <3>. HIDE DEF f
    <3>. QED
      BY ONLY <3>1 DEF AnsweredBar
  <2>4. OutcomeBar[l.call] # "idle" /\ OutcomeBar' = OutcomeBar /\ Down' = Down
    BY <1>2, <2>2 DEF ServerAnswer, Replies
  <2>. QED
    BY <2>2, <2>3, <2>4 DEF Contract!Answer, Contract!CNext
<1>3. CASE MarkClosed \/ BeginShutdown \/ KillChild \/ ChildExit
  <2>1. OutcomeBar' = OutcomeBar /\ AnsweredBar' = AnsweredBar /\ Down' = TRUE
    BY <1>3 DEF MarkClosed, BeginShutdown, KillChild, ChildExit
  <2>. QED
    BY <2>1 DEF Contract!GoDown, Contract!CNext
<1>4. CASE \/ ReadFrame \/ EndOfStream \/ LockChild \/ Reap \/ Drain \/ Deliver
           \/ AnnounceClosed \/ DropWrites \/ TakeFills \/ JoinFills \/ JoinThreads
           \/ WriterWrite \/ WriterEnd \/ ServerFault
  <2>1. OutcomeBar' = OutcomeBar /\ AnsweredBar' = AnsweredBar /\ Down' = Down
    BY <1>4 DEF ReadFrame, EndOfStream, LockChild, Reap, Drain, Deliver,
       AnnounceClosed, DropWrites, TakeFills, JoinFills, JoinThreads, WriterWrite,
       WriterEnd, ServerFault
  <2>. QED
    BY <2>1
<1>. QED
  BY <1>1, <1>2, <1>3, <1>4 DEF ReaderStep, ShutdownStep, ServerStep, Contract!CNext

\* The request plane implements the contract its callers rely on.
THEOREM Refinement == Spec => ImplementsContract
<1>1. IInv /\ [Next]_vars => [Contract!CNext]_(Contract!cvars)
  <2>. SUFFICES ASSUME IInv, [Next]_vars PROVE [Contract!CNext]_(Contract!cvars)
    OBVIOUS
  <2>1. CASE UNCHANGED vars
    BY <2>1 DEF vars, inner, calls, rthread, stop, pipes, Contract!cvars, OutcomeBar,
       AnsweredBar, Down, IsClosed
  <2>. QED
    BY <2>1, ContractCall, ContractRest DEF Next, Finished
<1>. QED
  BY <1>1, ContractInit, Invariant, PTL DEF Spec, ImplementsContract, Contract!CSpec

-----------------------------------------------------------------------------
(* The event plane.  Sequences.                                              *)

(* What a sequence holds.                                                    *)
In(q) == {q[i] : i \in DOMAIN q}

(* Of the items at some positions, in their order, how many are not later.   *)
LEMMA Ranked ==
  ASSUME NEW n \in Nat, NEW P \in SUBSET (1..n)
  PROVE  LET Rank(i) == Cardinality({j \in P : j <= i})
         IN /\ Cardinality(P) \in 0..n
            /\ \A i \in P : Rank(i) \in 1..Cardinality(P)
            /\ \A i, j \in P : i < j <=> Rank(i) < Rank(j)
            /\ \A i, j \in P : Rank(i) = Rank(j) => i = j
            /\ \A k \in 1..Cardinality(P) : \E i \in P : Rank(i) = k
<1>. DEFINE Below(i) == {j \in P : j <= i}
            Rank(i) == Cardinality(Below(i))
            rank == [i \in P |-> Rank(i)]
<1>1. IsFiniteSet(1..n) /\ Cardinality(1..n) = n
  BY FS_Interval
<1>2. IsFiniteSet(P) /\ Cardinality(P) \in Nat /\ Cardinality(P) <= n
  <2>1. IsFiniteSet(P) /\ Cardinality(P) <= n
    BY <1>1, FS_Subset
  <2>. QED
    BY <2>1, FS_CardinalityType
<1>3. ASSUME NEW i \in P
      PROVE  IsFiniteSet(Below(i)) /\ Rank(i) \in 1..Cardinality(P)
  <2>1. Below(i) \in SUBSET P /\ Below(i) # {}
    OBVIOUS
  <2>2. IsFiniteSet(Below(i)) /\ Rank(i) <= Cardinality(P)
    BY <1>2, <2>1, FS_Subset
  <2>3. Rank(i) \in Nat
    BY <2>2, FS_CardinalityType
  <2>4. Rank(i) # 0
    BY <2>1, <2>2, FS_EmptySet
  <2>. QED
    BY <1>2, <2>2, <2>3, <2>4
<1>4. ASSUME NEW i \in P, NEW j \in P, i < j
      PROVE  Rank(i) < Rank(j)
  <2>0. \A k \in P : k \in Nat
    OBVIOUS
  <2>1. Below(i) \in SUBSET Below(j) /\ j \in Below(j) /\ j \notin Below(i)
    <3>1. i \in Nat /\ j \in Nat /\ ~(j <= i) /\ j <= j
      BY <1>4, <2>0
    <3>2. \A k \in P : k <= i => k <= j
      BY <1>4, <2>0, <3>1
    <3>. QED
      BY <3>1, <3>2
  <2>2. Rank(i) <= Rank(j) /\ (Rank(i) = Rank(j) => Below(i) = Below(j))
    BY <1>3, <2>1, FS_Subset
  <2>. QED
    BY <1>2, <1>3, <2>1, <2>2
<1>5. ASSUME NEW i \in P, NEW j \in P
      PROVE  /\ i < j <=> Rank(i) < Rank(j)
             /\ Rank(i) = Rank(j) => i = j
  <2>1. i \in Nat /\ j \in Nat /\ Rank(i) \in Nat /\ Rank(j) \in Nat
    BY <1>2, <1>3
  <2>2. i < j => Rank(i) < Rank(j)
    BY <1>4
  <2>3. j < i => Rank(j) < Rank(i)
    BY <1>4
  <2>. HIDE DEF Rank
  <2>. QED
    BY <2>1, <2>2, <2>3
<1>6. rank \in Surjection(P, 1..Cardinality(P))
  <2>1. rank \in [P -> 1..Cardinality(P)]
    BY <1>3
  <2>2. rank \in Injection(P, 1..Cardinality(P))
    <3>1. \A i, j \in P : rank[i] = rank[j] => i = j
      BY <1>5
    <3>. HIDE DEF rank
    <3>. QED
      BY <2>1, <3>1 DEF Injection, IsInjective
  <2>3. IsFiniteSet(1..Cardinality(P)) /\ Cardinality(1..Cardinality(P)) = Cardinality(P)
    BY <1>2, FS_Interval
  <2>. QED
    BY <2>2, <2>3, FS_Injection
<1>7. \A k \in 1..Cardinality(P) : \E i \in P : Rank(i) = k
  BY <1>6 DEF Surjection
<1>. QED
  BY <1>2, <1>3, <1>5, <1>7

LEMMA RowsAre ==
  ASSUME NEW S, NEW q \in Seq(S), NEW P \in SUBSET (DOMAIN q)
  PROVE  \E at \in [1..Cardinality(P) -> P] :
            /\ Cardinality(P) \in 0..Len(q)
            /\ Rows(q, P) = [k \in 1..Cardinality(P) |-> q[at[k]]]
            /\ \A j, k \in 1..Cardinality(P) : j < k => at[j] < at[k]
            /\ \A i \in P : \E k \in 1..Cardinality(P) : at[k] = i
<1>. DEFINE Rank(i) == Cardinality({j \in P : j <= i})
            At(k) == CHOOSE i \in P : Rank(i) = k
            at == [k \in 1..Cardinality(P) |-> At(k)]
<1>1. /\ Cardinality(P) \in 0..Len(q)
      /\ \A i \in P : Rank(i) \in 1..Cardinality(P)
      /\ \A i, j \in P : i < j <=> Rank(i) < Rank(j)
      /\ \A i, j \in P : Rank(i) = Rank(j) => i = j
      /\ \A k \in 1..Cardinality(P) : \E i \in P : Rank(i) = k
  <2>1. DOMAIN q = 1..Len(q) /\ Len(q) \in Nat
    BY LenProperties
  <2>. QED
    BY <2>1, Ranked
<1>2. Rows(q, P) = [k \in 1..Cardinality(P) |-> q[At(k)]]
  BY DEF Rows
<1>. HIDE DEF Rank
<1>3. \A k \in 1..Cardinality(P) : At(k) \in P /\ Rank(At(k)) = k
  BY <1>1
<1>. HIDE DEF At
<1>4. at \in [1..Cardinality(P) -> P]
  BY <1>3
<1>5. \A j, k \in 1..Cardinality(P) : j < k => at[j] < at[k]
  BY <1>1, <1>3
<1>6. \A i \in P : \E k \in 1..Cardinality(P) : at[k] = i
  BY <1>1, <1>3
<1>7. Rows(q, P) = [k \in 1..Cardinality(P) |-> q[at[k]]]
  BY <1>2
<1>. QED
  BY <1>1, <1>4, <1>5, <1>6, <1>7

LEMMA CursorsOf ==
  ASSUME NEW q, NEW n
  PROVE  n \in CursorsIn(q) <=> \E e \in In(q) : e.kind = "event" /\ e.at = n
  BY DEF CursorsIn, In

LEMMA NothingIn == In(<<>>) = {} /\ CursorsIn(<<>>) = {} /\ Increasing(<<>>)
  BY DEF In, CursorsIn, Increasing

LEMMA RowsOf ==
  ASSUME NEW S, NEW q \in Seq(S), NEW P \in SUBSET (DOMAIN q)
  PROVE  /\ Rows(q, P) \in Seq(S)
         /\ In(Rows(q, P)) = {q[i] : i \in P}
         /\ Increasing(q) => Increasing(Rows(q, P))
<1>1. PICK at \in [1..Cardinality(P) -> P] :
            /\ Cardinality(P) \in 0..Len(q)
            /\ Rows(q, P) = [k \in 1..Cardinality(P) |-> q[at[k]]]
            /\ \A j, k \in 1..Cardinality(P) : j < k => at[j] < at[k]
            /\ \A i \in P : \E k \in 1..Cardinality(P) : at[k] = i
  BY RowsAre
<1>. DEFINE r == Rows(q, P)
<1>2. DOMAIN q = 1..Len(q) /\ Len(q) \in Nat /\ \A i \in DOMAIN q : q[i] \in S
  BY LenProperties, ElementOfSeq
<1>3. DOMAIN r = 1..Cardinality(P) /\ \A k \in DOMAIN r : at[k] \in P /\ r[k] = q[at[k]]
  BY <1>1
<1>4. r \in Seq(S)
  <2>1. Cardinality(P) \in Nat
    BY <1>1, <1>2
  <2>2. r \in [1..Cardinality(P) -> S]
    BY <1>1, <1>2, <1>3
  <2>. QED
    BY <2>1, <2>2
<1>5. In(r) = {q[i] : i \in P}
  BY <1>1, <1>3 DEF In
<1>6. Increasing(q) => Increasing(r)
  BY <1>1, <1>3 DEF Increasing
<1>. QED
  BY <1>4, <1>5, <1>6

LEMMA TailOf ==
  ASSUME NEW S, NEW q \in Seq(S), q # <<>>
  PROVE  /\ Tail(q) \in Seq(S) /\ Head(q) = q[1] /\ Head(q) \in S
         /\ Len(q) \in Nat /\ DOMAIN q = 1..Len(q) /\ 1 \in DOMAIN q
         /\ \A i \in DOMAIN Tail(q) : i \in Nat \ {0} /\ i + 1 \in DOMAIN q /\ Tail(q)[i] = q[i + 1]
         /\ Len(Tail(q)) < Len(q)
         /\ In(q) = {Head(q)} \cup In(Tail(q))
         /\ CursorsIn(q) = CursorsIn(Tail(q)) \cup (IF Head(q).kind = "event" THEN {Head(q).at} ELSE {})
         /\ Increasing(q) => Increasing(Tail(q))
<1>. DEFINE t == Tail(q)
<1>1. /\ t \in Seq(S) /\ Head(q) = q[1] /\ Head(q) \in S /\ Len(q) \in Nat /\ DOMAIN q = 1..Len(q)
      /\ Len(t) = Len(q) - 1 /\ \A i \in 1..Len(t) : t[i] = q[i + 1]
  BY HeadTailProperties, LenProperties
<1>2. DOMAIN t = 1..Len(t) /\ Len(t) \in Nat
  BY <1>1, LenProperties
<1>. HIDE DEF t
<1>3. 1 \in DOMAIN q /\ \A i \in DOMAIN t : i \in Nat \ {0} /\ i + 1 \in DOMAIN q /\ t[i] = q[i + 1]
  BY <1>1, <1>2
<1>4. \A i \in DOMAIN q : i = 1 \/ (i - 1 \in DOMAIN t /\ t[i - 1] = q[i])
  <2>. SUFFICES ASSUME NEW i \in DOMAIN q, i # 1 PROVE i - 1 \in DOMAIN t /\ t[i - 1] = q[i]
    OBVIOUS
  <2>1. i - 1 \in 1..Len(t) /\ (i - 1) + 1 = i
    BY <1>1
  <2>. QED
    BY <1>1, <1>2, <2>1
<1>5. In(q) = {Head(q)} \cup In(t)
  <2>1. In(q) \subseteq {Head(q)} \cup In(t)
    BY <1>1, <1>4 DEF In
  <2>2. {Head(q)} \cup In(t) \subseteq In(q)
    BY <1>1, <1>3 DEF In
  <2>. QED
    BY <2>1, <2>2
<1>6. CursorsIn(q) = CursorsIn(t) \cup (IF Head(q).kind = "event" THEN {Head(q).at} ELSE {})
  <2>1. \A n : n \in CursorsIn(q) <=> n \in CursorsIn(t) \/ (Head(q).kind = "event" /\ n = Head(q).at)
    BY <1>5, CursorsOf
  <2>. QED
    BY <2>1
<1>7. Increasing(q) => Increasing(t)
  BY <1>3 DEF Increasing
<1>. QED
  BY <1>1, <1>2, <1>3, <1>5, <1>6, <1>7 DEF t

LEMMA AppendOf ==
  ASSUME NEW S, NEW q \in Seq(S), NEW e \in S
  PROVE  /\ Append(q, e) \in Seq(S) /\ Len(q) \in Nat /\ DOMAIN q = 1..Len(q)
         /\ Len(Append(q, e)) = Len(q) + 1
         /\ DOMAIN Append(q, e) = 1..(Len(q) + 1)
         /\ \A i \in 1..(Len(q) + 1) :
               \/ i \in DOMAIN q /\ Append(q, e)[i] = q[i]
               \/ i = Len(q) + 1 /\ Append(q, e)[i] = e
         /\ \A i \in DOMAIN q : i \in 1..(Len(q) + 1) /\ i < Len(q) + 1 /\ Append(q, e)[i] = q[i]
         /\ In(Append(q, e)) = In(q) \cup {e}
         /\ CursorsIn(Append(q, e)) = CursorsIn(q) \cup (IF e.kind = "event" THEN {e.at} ELSE {})
         /\ Increasing(q) /\ (e.kind = "event" => \A a \in CursorsIn(q) : a < e.at)
               => Increasing(Append(q, e))
<1>. DEFINE r == Append(q, e)
<1>1. /\ r \in Seq(S) /\ Len(q) \in Nat /\ DOMAIN q = 1..Len(q) /\ DOMAIN r = 1..(Len(q) + 1)
      /\ \A i \in 1..Len(q) : r[i] = q[i]
      /\ r[Len(q) + 1] = e /\ Len(r) = Len(q) + 1
  BY AppendProperties, LenProperties
<1>. HIDE DEF r
<1>2. \A i \in 1..(Len(q) + 1) : (i \in DOMAIN q /\ r[i] = q[i]) \/ (i = Len(q) + 1 /\ r[i] = e)
  BY <1>1
<1>3. /\ \A i \in DOMAIN q : i \in 1..(Len(q) + 1) /\ i < Len(q) + 1 /\ r[i] = q[i]
      /\ Len(q) + 1 \in 1..(Len(q) + 1)
  BY <1>1
<1>4. In(r) = In(q) \cup {e}
  <2>1. In(r) \subseteq In(q) \cup {e}
    BY <1>1, <1>2 DEF In
  <2>2. In(q) \cup {e} \subseteq In(r)
    BY <1>1, <1>3 DEF In
  <2>. QED
    BY <2>1, <2>2
<1>5. CursorsIn(r) = CursorsIn(q) \cup (IF e.kind = "event" THEN {e.at} ELSE {})
  <2>1. \A n : n \in CursorsIn(r) <=> n \in CursorsIn(q) \/ (e.kind = "event" /\ n = e.at)
    BY <1>4, CursorsOf
  <2>. QED
    BY <2>1
<1>6. ASSUME Increasing(q), e.kind = "event" => \A a \in CursorsIn(q) : a < e.at
      PROVE  Increasing(r)
  <2>. SUFFICES ASSUME NEW i \in DOMAIN r, NEW j \in DOMAIN r, i < j, r[i].kind = "event", r[j].kind = "event"
                PROVE  r[i].at < r[j].at
    BY DEF Increasing
  <2>1. i \in DOMAIN q /\ r[i] = q[i]
    BY <1>1
  <2>2. CASE j \in DOMAIN q
    BY <1>1, <1>6, <2>1, <2>2 DEF Increasing
  <2>3. CASE j = Len(q) + 1
    <3>1. r[i].at \in CursorsIn(q)
      BY <2>1 DEF CursorsIn
    <3>. QED
      BY <1>1, <1>6, <2>3, <3>1
  <2>. QED
    BY <1>1, <2>2, <2>3
<1>. QED
  BY <1>1, <1>2, <1>3, <1>4, <1>5, <1>6 DEF r

LEMMA Joined ==
  ASSUME NEW S, NEW p \in Seq(S), NEW q \in Seq(S)
  PROVE  /\ Len(p) \in Nat /\ DOMAIN p = 1..Len(p) /\ Len(q) \in Nat /\ DOMAIN q = 1..Len(q)
         /\ DOMAIN (p \o q) = 1..(Len(p) + Len(q))
         /\ \A i \in 1..Len(p) : (p \o q)[i] = p[i]
         /\ \A i \in 1..Len(q) : (p \o q)[Len(p) + i] = q[i]
         /\ \A i \in 1..(Len(p) + Len(q)) :
               \/ i \in 1..Len(p) /\ (p \o q)[i] = p[i]
               \/ i > Len(p) /\ i - Len(p) \in 1..Len(q) /\ (p \o q)[i] = q[i - Len(p)]
<1>. DEFINE r == p \o q
<1>1. /\ Len(p) \in Nat /\ DOMAIN p = 1..Len(p) /\ Len(q) \in Nat /\ DOMAIN q = 1..Len(q)
      /\ DOMAIN r = 1..(Len(p) + Len(q))
      /\ \A i \in 1..Len(p) : r[i] = p[i]
      /\ \A i \in 1..Len(q) : r[Len(p) + i] = q[i]
  <2>1. /\ Len(p) \in Nat /\ DOMAIN p = 1..Len(p) /\ Len(q) \in Nat /\ DOMAIN q = 1..Len(q)
        /\ r \in Seq(S) /\ Len(r) = Len(p) + Len(q)
        /\ \A i \in 1..(Len(p) + Len(q)) : r[i] = IF i <= Len(p) THEN p[i] ELSE q[i - Len(p)]
    BY ConcatProperties, LenProperties
  <2>2. DOMAIN r = 1..Len(r)
    BY <2>1, LenProperties
  <2>. HIDE DEF r
  <2>3. ASSUME NEW i \in 1..Len(p) PROVE r[i] = p[i]
    BY <2>1
  <2>4. ASSUME NEW i \in 1..Len(q) PROVE r[Len(p) + i] = q[i]
    <3>1. /\ Len(p) + i \in 1..(Len(p) + Len(q)) /\ ~(Len(p) + i <= Len(p))
          /\ (Len(p) + i) - Len(p) = i
      BY <2>1
    <3>. QED
      BY <2>1, <3>1
  <2>. QED
    BY <2>1, <2>2, <2>3, <2>4
<1>. HIDE DEF r
<1>2. ASSUME NEW i \in 1..(Len(p) + Len(q))
      PROVE  \/ i \in 1..Len(p) /\ r[i] = p[i]
             \/ i > Len(p) /\ i - Len(p) \in 1..Len(q) /\ r[i] = q[i - Len(p)]
  <2>1. CASE i <= Len(p)
    BY <1>1, <2>1
  <2>2. CASE i > Len(p)
    <3>1. i - Len(p) \in 1..Len(q) /\ Len(p) + (i - Len(p)) = i
      BY <1>1, <2>2
    <3>. QED
      BY <1>1, <2>2, <3>1
  <2>. QED
    BY <1>1, <2>1, <2>2
<1>. QED
  BY <1>1, <1>2 DEF r

LEMMA ConcatOf ==
  ASSUME NEW S, NEW p \in Seq(S), NEW q \in Seq(S)
  PROVE  /\ p \o q \in Seq(S)
         /\ In(p \o q) = In(p) \cup In(q) /\ CursorsIn(p \o q) = CursorsIn(p) \cup CursorsIn(q)
         /\ Increasing(p) /\ Increasing(q) /\ (\A a \in CursorsIn(p), b \in CursorsIn(q) : a < b)
               => Increasing(p \o q)
<1>. DEFINE r == p \o q
<1>1. /\ Len(p) \in Nat /\ DOMAIN p = 1..Len(p) /\ Len(q) \in Nat /\ DOMAIN q = 1..Len(q)
      /\ DOMAIN r = 1..(Len(p) + Len(q))
      /\ \A i \in 1..Len(p) : r[i] = p[i]
      /\ \A i \in 1..Len(q) : r[Len(p) + i] = q[i]
      /\ \A i \in 1..(Len(p) + Len(q)) :
            \/ i \in 1..Len(p) /\ r[i] = p[i]
            \/ i > Len(p) /\ i - Len(p) \in 1..Len(q) /\ r[i] = q[i - Len(p)]
  BY Joined
<1>2. r \in Seq(S)
  BY ConcatProperties
<1>. HIDE DEF r
<1>3. In(r) = In(p) \cup In(q)
  <2>1. In(r) \subseteq In(p) \cup In(q)
    BY <1>1 DEF In
  <2>2. In(p) \cup In(q) \subseteq In(r)
    <3>1. /\ \A i \in 1..Len(p) : i \in 1..(Len(p) + Len(q))
          /\ \A i \in 1..Len(q) : Len(p) + i \in 1..(Len(p) + Len(q))
      BY <1>1
    <3>2. In(p) \subseteq In(r)
      BY <1>1, <3>1 DEF In
    <3>3. In(q) \subseteq In(r)
      BY <1>1, <3>1 DEF In
    <3>. QED
      BY <3>2, <3>3
  <2>. QED
    BY <2>1, <2>2
<1>4. CursorsIn(r) = CursorsIn(p) \cup CursorsIn(q)
  <2>1. \A n : n \in CursorsIn(r) <=> n \in CursorsIn(p) \/ n \in CursorsIn(q)
    BY <1>3, CursorsOf
  <2>. QED
    BY <2>1
<1>5. ASSUME Increasing(p), Increasing(q), \A a \in CursorsIn(p), b \in CursorsIn(q) : a < b
      PROVE  Increasing(r)
  <2>. SUFFICES ASSUME NEW i \in DOMAIN r, NEW j \in DOMAIN r, i < j, r[i].kind = "event", r[j].kind = "event"
                PROVE  r[i].at < r[j].at
    BY DEF Increasing
  <2>1. CASE i \in 1..Len(p) /\ j \in 1..Len(p)
    BY <1>1, <1>5, <2>1 DEF Increasing
  <2>2. CASE i \notin 1..Len(p)
    <3>1. /\ i - Len(p) \in DOMAIN q /\ r[i] = q[i - Len(p)]
          /\ j - Len(p) \in DOMAIN q /\ r[j] = q[j - Len(p)] /\ i - Len(p) < j - Len(p)
      BY <1>1, <2>2
    <3>. QED
      BY <1>5, <3>1 DEF Increasing
  <2>3. CASE i \in 1..Len(p) /\ j \notin 1..Len(p)
    <3>1. /\ i \in DOMAIN p /\ r[i] = p[i]
          /\ j - Len(p) \in DOMAIN q /\ r[j] = q[j - Len(p)]
      BY <1>1, <2>3
    <3>2. r[i].at \in CursorsIn(p) /\ r[j].at \in CursorsIn(q)
      BY <3>1 DEF CursorsIn
    <3>. QED
      BY <1>5, <3>2
  <2>. QED
    BY <2>1, <2>2, <2>3
<1>. QED
  BY <1>2, <1>3, <1>4, <1>5 DEF r

-----------------------------------------------------------------------------
(* The event plane.  Types.                                                  *)

(* A fill that asks still has pages to ask for.                              *)
PagesLeft == \A f \in GapFills : fpc[f] \in {"none", "asking", "served"} => pages[f] < MaxPages

GapTypeInv == GapTypeOK /\ PagesLeft

LEMMA GapBounds ==
  /\ MaxCursor \in Nat /\ MaxCursor > 0 /\ PageLimit \in Nat /\ PageLimit > 0
  /\ MaxPages \in Nat /\ MaxPages > 0 /\ MaxBuffered \in Nat /\ MaxBuffered > 0 /\ MaxGaps \in Nat
  BY BoundsAssumption

LEMMA GapKinds ==
  /\ \A e \in Events : e.kind = "event" /\ e.at \in 1..MaxCursor /\ e = Event(e.at)
  /\ \A n \in 1..MaxCursor : Event(n) \in Events /\ Event(n).at = n /\ Event(n).kind = "event"
  /\ \A n \in 0..MaxCursor : Gap(n) \in Parkable /\ Gap(n).at = n /\ Gap(n).kind = "gap"
  /\ \A e \in Parkable : e.kind \in {"event", "gap"} /\ e.at \in 0..MaxCursor /\ e # Abort
                         /\ (e.kind = "event" => e \in Events)
  /\ Events \subseteq Parkable /\ Parkable \subseteq Sent /\ Events \subseteq Sent
  /\ Abort \in Sent /\ ClosedEvent \in Sent /\ Abort.kind = "abort" /\ ClosedEvent.kind = "closed"
  /\ \A e \in Pages : /\ e.kind = "page" /\ e.fill \in GapFills /\ e.lo \in 1..(MaxCursor + 1)
                      /\ e.hi \in 0..MaxCursor /\ e.more \in BOOLEAN
  /\ \A e \in Parkable \cup Pages : /\ e.kind \in {"event", "gap", "page"}
                                    /\ (e.kind \in {"event", "gap"} => e \in Parkable)
                                    /\ (e.kind = "event" => e \in Events)
                                    /\ (e.kind = "page" => e \in Pages)
  /\ \A e \in Sent : e.kind = "event" => e \in Events
<1>1. MaxCursor \in Nat
  BY GapBounds
<1>2. \A e \in Events : e.kind = "event" /\ e.at \in 1..MaxCursor /\ e = Event(e.at)
  BY DEF Events, Event
<1>3. \A n \in 1..MaxCursor : Event(n) \in Events /\ Event(n).at = n /\ Event(n).kind = "event"
  BY DEF Events, Event
<1>4. \A n \in 0..MaxCursor : Gap(n) \in Parkable /\ Gap(n).at = n /\ Gap(n).kind = "gap"
  BY DEF Parkable, Gap
<1>5. /\ Abort.kind = "abort" /\ ClosedEvent.kind = "closed" /\ Abort \in Sent /\ ClosedEvent \in Sent
      /\ Events \subseteq Parkable /\ Parkable \subseteq Sent /\ Events \subseteq Sent
  BY DEF Abort, ClosedEvent, Sent, Parkable
<1>6. \A e \in Parkable : e.kind \in {"event", "gap"} /\ e.at \in 0..MaxCursor /\ (e.kind = "event" => e \in Events)
  BY <1>1 DEF Parkable, Events
<1>7. \A e \in Parkable : e # Abort
  BY <1>5, <1>6
<1>8. \A e \in Pages : /\ e.kind = "page" /\ e.fill \in GapFills /\ e.lo \in 1..(MaxCursor + 1)
                       /\ e.hi \in 0..MaxCursor /\ e.more \in BOOLEAN
  BY DEF Pages
<1>9. \A e \in Sent : e.kind = "event" => e \in Events
  BY <1>5, <1>6 DEF Sent
<1>10. \A e \in Parkable \cup Pages : /\ e.kind \in {"event", "gap", "page"}
                                      /\ (e.kind \in {"event", "gap"} => e \in Parkable)
                                      /\ (e.kind = "event" => e \in Events)
                                      /\ (e.kind = "page" => e \in Pages)
  BY <1>6, <1>8
<1>. QED
  BY <1>2, <1>3, <1>4, <1>5, <1>6, <1>7, <1>8, <1>9, <1>10

LEMMA EventsOfType ==
  ASSUME NEW lo \in 1..(MaxCursor + 1), NEW hi \in 0..MaxCursor
  PROVE  /\ EventsOf(lo, hi) \in Seq(Events)
         /\ lo <= hi + 1 => Len(EventsOf(lo, hi)) = hi - lo + 1
         /\ DOMAIN EventsOf(lo, hi) = 1..(hi - lo + 1)
         /\ \A i \in 1..(hi - lo + 1) : EventsOf(lo, hi)[i] = Event(lo + i - 1)
<1>. USE GapBounds
<1>1. \A i \in 1..(hi - lo + 1) : Event(lo + i - 1) \in Events
  <2>1. \A i \in 1..(hi - lo + 1) : lo + i - 1 \in 1..MaxCursor
    OBVIOUS
  <2>. QED
    BY <2>1, GapKinds
<1>2. CASE lo <= hi + 1
  <2>1. hi - lo + 1 \in Nat
    BY <1>2
  <2>2. EventsOf(lo, hi) \in [1..(hi - lo + 1) -> Events]
    BY <1>1 DEF EventsOf
  <2>. QED
    BY <2>1, <2>2 DEF EventsOf
<1>3. CASE ~(lo <= hi + 1)
  <2>1. 1..(hi - lo + 1) = {} /\ 1..0 = {}
    BY <1>3
  <2>2. EventsOf(lo, hi) \in [1..0 -> Events]
    BY <2>1 DEF EventsOf
  <2>. QED
    BY <1>3, <2>1, <2>2 DEF EventsOf
<1>. QED
  BY <1>2, <1>3

LEMMA GapTypeInit == GapInit => GapTypeInv
<1>. SUFFICES ASSUME GapInit PROVE GapTypeInv
  OBVIOUS
<1>1. /\ <<>> \in Seq(Parkable \cup Pages) /\ <<>> \in Seq(Parkable) /\ Len(<<>>) = 0
      /\ <<>> \in Seq(Sent) /\ <<>> \in Seq(Events)
  BY EmptySeq
<1>. USE GapBounds DEF GapInit
<1>2. wire \in Seq(Parkable \cup Pages) /\ readerOut \in Seq(Sent) /\ out \in Seq(Sent)
      /\ parked \in Seq(Parkable) /\ Len(parked) <= MaxBuffered
  BY <1>1
<1>3. filled \in [GapFills -> Seq(Events)] /\ fillOut \in [GapFills -> Seq(Sent)]
  BY <1>1
<1>4. fpc \in [GapFills -> {"none", "asking", "served", "ending", "sending", "done"}]
      /\ cursor \in [GapFills -> 0..MaxCursor] /\ pages \in [GapFills -> 0..MaxPages]
      /\ aborted \in [GapFills -> BOOLEAN] /\ PagesLeft
  BY DEF PagesLeft
<1>5. pos \in 0..MaxCursor /\ gaps \in 0..MaxGaps /\ link \in {"up", "stopped", "closed"} /\ ahead \subseteq 1..MaxCursor
  OBVIOUS
<1>6. parking \in BOOLEAN /\ abandoned \in BOOLEAN
  BY Zenon
<1>. HIDE DEF GapInit
<1>. QED
  BY <1>2, <1>3, <1>4, <1>5, <1>6 DEF GapTypeInv, GapTypeOK

LEMMA WireHead ==
  ASSUME GapTypeInv, wire # <<>>, wire' = Tail(wire)
  PROVE  /\ wire' \in Seq(Parkable \cup Pages) /\ Head(wire) \in Parkable \cup Pages
         /\ Head(wire).kind \in {"event", "gap", "page"}
         /\ Head(wire).kind \in {"event", "gap"} => Head(wire) \in Parkable
         /\ Head(wire).kind = "event" => Head(wire) \in Events
         /\ Head(wire).kind = "page" => Head(wire) \in Pages
<1>1. wire \in Seq(Parkable \cup Pages)
  BY DEF GapTypeInv, GapTypeOK
<1>2. wire' \in Seq(Parkable \cup Pages) /\ Head(wire) \in Parkable \cup Pages
  BY <1>1, TailOf
<1>. QED
  BY <1>2, GapKinds

LEMMA DispatchTypes ==
  ASSUME GapTypeInv, NEW e \in Parkable, Dispatch(e), readerOut = <<>>
  PROVE  /\ parked' \in Seq(Parkable) /\ Len(parked') <= MaxBuffered
         /\ out' \in Seq(Sent) /\ readerOut' \in Seq(Sent)
         /\ parking' \in BOOLEAN /\ abandoned' \in BOOLEAN /\ ahead' \subseteq 1..MaxCursor
<1>. USE GapBounds DEF GapTypeInv, GapTypeOK
<1>1. e \in Sent /\ Abort \in Sent
  BY GapKinds
<1>5. ahead' \subseteq 1..MaxCursor
  <2>1. CursorsIn(<<e>>) \subseteq 1..MaxCursor
    <3>1. e.kind = "event" => e.at \in 1..MaxCursor
      BY GapKinds
    <3>2. DOMAIN <<e>> = {1} /\ <<e>>[1] = e
      OBVIOUS
    <3>. QED
      BY <3>1, <3>2 DEF CursorsIn
  <2>2. ahead' = ahead \/ ahead' = ahead \cup CursorsIn(<<e>>)
    BY DEF Dispatch, PassOn
  <2>. QED
    BY <2>1, <2>2
<1>2. CASE ~parking
  <2>1. out \in Seq(Sent) /\ Append(out, e) \in Seq(Sent)
    BY <1>1, AppendProperties
  <2>2. out' = Append(out, e) /\ UNCHANGED <<parking, parked, abandoned, readerOut>>
    BY <1>2 DEF Dispatch, PassOn, gapState
  <2>. QED
    BY <1>5, <2>1, <2>2
<1>3. CASE parking /\ Len(parked) < MaxBuffered
  <2>1. Append(parked, e) \in Seq(Parkable) /\ Len(parked) \in Nat /\ Len(Append(parked, e)) = Len(parked) + 1
    BY AppendOf
  <2>2. parked' = Append(parked, e) /\ UNCHANGED <<parking, abandoned, readerOut, out>>
    BY <1>3 DEF Dispatch
  <2>3. Len(parked') <= MaxBuffered
    BY <1>3, <2>1, <2>2
  <2>. QED
    BY <1>5, <2>1, <2>2, <2>3
<1>4. CASE parking /\ ~(Len(parked) < MaxBuffered)
  <2>1. parked \in Seq(Sent) /\ <<Abort>> \in Seq(Sent) /\ <<e>> \in Seq(Sent)
    BY <1>1, GapKinds, SeqMonotonic
  <2>2. <<Abort>> \o parked \in Seq(Sent)
    BY <2>1, ConcatProperties
  <2>3. (<<Abort>> \o parked) \o <<e>> \in Seq(Sent)
    BY <2>1, <2>2, ConcatProperties
  <2>4. <<>> \in Seq(Parkable) /\ Len(<<>>) = 0
    BY EmptySeq
  <2>5. /\ parking' = FALSE /\ parked' = <<>> /\ abandoned' = TRUE
        /\ readerOut' = (<<Abort>> \o parked) \o <<e>> /\ out' = out
    BY <1>4 DEF Dispatch
  <2>6. out' \in Seq(Sent) /\ parked' \in Seq(Parkable) /\ Len(parked') <= MaxBuffered
    BY <2>4, <2>5
  <2>7. readerOut' \in Seq(Sent)
    BY <2>3, <2>5
  <2>8. parking' \in BOOLEAN /\ abandoned' \in BOOLEAN
    BY <2>5
  <2>. QED
    BY <1>5, <2>6, <2>7, <2>8
<1>. QED
  BY <1>2, <1>3, <1>4, <1>5

LEMMA GapTypeStep == GapTypeInv /\ [GapNext]_gapVars => GapTypeInv'
<1>. SUFFICES ASSUME GapTypeInv, [GapNext]_gapVars PROVE GapTypeInv'
  OBVIOUS
<1>. USE GapBounds DEF GapTypeInv, GapTypeOK, PagesLeft, server, gapState, fill
<1>1. CASE Produce
  <2>1. pos + 1 \in 1..MaxCursor /\ pos + 1 \in 0..MaxCursor
    BY <1>1 DEF Produce
  <2>2. Event(pos + 1) \in Parkable \cup Pages
    BY <2>1, GapKinds
  <2>3. wire' \in Seq(Parkable \cup Pages)
    BY <1>1, <2>2, AppendOf DEF Produce
  <2>. QED
    BY <1>1, <2>1, <2>3 DEF Produce
<1>2. CASE Skip
  <2>1. pos' \in 0..MaxCursor /\ gaps' \in 0..MaxGaps /\ Gap(pos) \in Parkable \cup Pages
    BY <1>2, GapKinds DEF Skip
  <2>2. wire' \in Seq(Parkable \cup Pages)
    BY <1>2, <2>1, AppendOf DEF Skip
  <2>. QED
    BY <1>2, <2>1, <2>2 DEF Skip
<1>3. CASE Stop
  BY <1>3 DEF Stop
<1>4. ASSUME NEW f \in GapFills, ServePage(f) PROVE GapTypeInv'
  <2>. DEFINE last == IF cursor[f] + PageLimit < pos THEN cursor[f] + PageLimit ELSE pos
  <2>1. last \in 0..MaxCursor /\ cursor[f] + 1 \in 1..(MaxCursor + 1)
    OBVIOUS
  <2>2. wire' = Append(wire, Page(f, cursor[f] + 1, last)) /\ fpc' = [fpc EXCEPT ![f] = "served"] /\ fpc[f] = "asking"
        /\ UNCHANGED <<server, gapState, readerOut, cursor, pages, filled, aborted, fillOut, out, ahead>>
    BY <1>4 DEF ServePage
  <2>. HIDE DEF last
  <2>3. Page(f, cursor[f] + 1, last) \in Parkable \cup Pages
    BY <2>1 DEF Page, Pages
  <2>4. wire' \in Seq(Parkable \cup Pages)
    BY <2>2, <2>3, AppendOf
  <2>. QED
    BY <2>2, <2>4
<1>5. CASE ReadEvent
  <2>1. Head(wire) \in Parkable /\ wire' \in Seq(Parkable \cup Pages)
    BY <1>5, WireHead DEF ReadEvent
  <2>2. Dispatch(Head(wire)) /\ readerOut = <<>> /\ UNCHANGED <<server, fill>>
    BY <1>5 DEF ReadEvent
  <2>. QED
    BY <2>1, <2>2, DispatchTypes
<1>6. CASE ReadGap
  <2>1. Head(wire) \in Parkable /\ wire' \in Seq(Parkable \cup Pages) /\ Head(wire).at \in 0..MaxCursor
    BY <1>6, WireHead, GapKinds DEF ReadGap
  <2>2. CASE parking
    <3>1. Dispatch(Head(wire)) /\ readerOut = <<>> /\ UNCHANGED <<server, fill>>
      BY <1>6, <2>2 DEF ReadGap
    <3>. QED
      BY <2>1, <3>1, DispatchTypes
  <2>3. CASE ~parking
    <3>1. PICK f \in GapFills :
            /\ fpc[f] = "none"
            /\ parking' = TRUE /\ parked' = <<Head(wire)>>
            /\ fpc' = [fpc EXCEPT ![f] = "asking"]
            /\ cursor' = [cursor EXCEPT ![f] = Head(wire).at]
            /\ UNCHANGED <<abandoned, readerOut, pages, filled, aborted, fillOut, out, ahead, server>>
      BY <1>6, <2>3 DEF ReadGap
    <3>2. parked' \in Seq(Parkable) /\ Len(parked') = 1
      BY <2>1, <3>1
    <3>. QED
      BY <2>1, <3>1, <3>2
  <2>. QED
    BY <2>2, <2>3
<1>7. CASE ReadPage
  <2>1. Head(wire) \in Pages /\ wire' \in Seq(Parkable \cup Pages)
    BY <1>7, WireHead DEF ReadPage
  <2>2. CASE UNCHANGED fill
    BY <1>7, <2>1, <2>2 DEF ReadPage
  <2>3. CASE fpc[Head(wire).fill] = "served" /\ TakePage(Head(wire).fill, Head(wire))
    <3>. DEFINE p == Head(wire)
                f == p.fill
    <3>1. f \in GapFills /\ EventsOf(p.lo, p.hi) \in Seq(Events) /\ p.hi \in 0..MaxCursor
      BY <2>1, GapKinds, EventsOfType
    <3>2. filled[f] \o EventsOf(p.lo, p.hi) \in Seq(Events)
      BY <3>1, ConcatProperties
    <3>. HIDE DEF p, f
    <3>3. fpc[f] = "served" /\ TakePage(f, p)
      BY <2>3 DEF p, f
    <3>4. pages[f] + 1 \in 0..MaxPages
      BY <3>1, <3>3
    <3>5. filled' \in [GapFills -> Seq(Events)] /\ pages' \in [GapFills -> 0..MaxPages]
          /\ cursor' \in [GapFills -> 0..MaxCursor] /\ aborted' \in [GapFills -> BOOLEAN] /\ fillOut' = fillOut
          /\ fpc' \in [GapFills -> {"none", "asking", "served", "ending", "sending", "done"}]
      BY <3>1, <3>2, <3>3, <3>4 DEF TakePage
    <3>6. PagesLeft'
      BY <3>1, <3>3, <3>4 DEF TakePage
    <3>. QED
      BY <1>7, <2>1, <3>5, <3>6 DEF ReadPage
  <2>. QED
    BY <1>7, <2>2, <2>3 DEF ReadPage
<1>8. CASE ReaderSend
  <2>1. Head(readerOut) \in Sent /\ readerOut' \in Seq(Sent)
    BY <1>8, TailOf DEF ReaderSend
  <2>2. out' \in Seq(Sent)
    BY <1>8, <2>1, AppendProperties DEF ReaderSend
  <2>. QED
    BY <1>8, <2>1, <2>2 DEF ReaderSend
<1>9. CASE ReadEnd
  <2>1. out' \in Seq(Sent)
    BY <1>9, GapKinds, AppendOf DEF ReadEnd
  <2>. QED
    BY <1>9, <2>1 DEF ReadEnd
<1>10. ASSUME NEW f \in GapFills, PageFails(f) PROVE GapTypeInv'
  BY <1>10 DEF PageFails
<1>11. ASSUME NEW f \in GapFills, Release(f) PROVE GapTypeInv'
  <2>1. CASE abandoned
    BY <1>11, <2>1 DEF Release
  <2>2. CASE ~abandoned
    <3>1. NotSeen(f) \in Seq(Parkable)
      BY RowsOf DEF NotSeen, Unseen
    <3>2. NotSeen(f) \in Seq(Sent) /\ filled[f] \in Seq(Sent)
      BY <3>1, GapKinds, SeqMonotonic
    <3>3. (IF aborted[f] THEN <<Abort>> ELSE <<>>) \in Seq(Sent)
      BY GapKinds, EmptySeq
    <3>4. (IF aborted[f] THEN <<Abort>> ELSE <<>>) \o filled[f] \in Seq(Sent)
      BY <3>2, <3>3, ConcatProperties
    <3>5. ((IF aborted[f] THEN <<Abort>> ELSE <<>>) \o filled[f]) \o NotSeen(f) \in Seq(Sent)
      BY <3>2, <3>4, ConcatProperties
    <3>6. <<>> \in Seq(Parkable) /\ Len(<<>>) = 0
      BY EmptySeq
    <3>. DEFINE all == ((IF aborted[f] THEN <<Abort>> ELSE <<>>) \o filled[f]) \o NotSeen(f)
    <3>7. /\ parking' = FALSE /\ parked' = <<>> /\ fpc' = [fpc EXCEPT ![f] = "sending"]
          /\ fillOut' = [fillOut EXCEPT ![f] = all]
          /\ UNCHANGED <<pos, gaps, link, abandoned, wire, readerOut, cursor, pages, filled, aborted, out, ahead>>
      BY <1>11, <2>2 DEF Release
    <3>. HIDE DEF all
    <3>8. fillOut' \in [GapFills -> Seq(Sent)]
      BY <3>5, <3>7 DEF all
    <3>9. fpc' \in [GapFills -> {"none", "asking", "served", "ending", "sending", "done"}] /\ PagesLeft'
      BY <3>7
    <3>10. parked' \in Seq(Parkable) /\ Len(parked') <= MaxBuffered
      BY <3>6, <3>7
    <3>11. parking' \in BOOLEAN
      BY <3>7
    <3>. QED
      BY <3>7, <3>8, <3>9, <3>10, <3>11
  <2>. QED
    BY <2>1, <2>2
<1>12. ASSUME NEW f \in GapFills, FillSend(f) PROVE GapTypeInv'
  <2>1. CASE fillOut[f] = <<>>
    BY <1>12, <2>1 DEF FillSend
  <2>2. CASE fillOut[f] # <<>>
    <3>1. fillOut[f] \in Seq(Sent)
      OBVIOUS
    <3>2. Head(fillOut[f]) \in Sent /\ Tail(fillOut[f]) \in Seq(Sent)
      BY <2>2, <3>1, TailOf
    <3>3. out' \in Seq(Sent)
      <4>1. out' = Append(out, Head(fillOut[f]))
        BY <1>12, <2>2 DEF FillSend
      <4>. QED
        BY <3>2, <4>1, AppendProperties
    <3>4. fillOut' \in [GapFills -> Seq(Sent)]
      BY <1>12, <2>2, <3>2 DEF FillSend
    <3>. QED
      BY <1>12, <2>2, <3>3, <3>4 DEF FillSend
  <2>. QED
    BY <2>1, <2>2
<1>13. CASE UNCHANGED gapVars
  BY <1>13 DEF gapVars
<1>. QED
  BY <1>1, <1>2, <1>3, <1>4, <1>5, <1>6, <1>7, <1>8, <1>9, <1>10, <1>11, <1>12, <1>13
     DEF GapNext, ReaderTurn, FillStep, GapFinished

(* Every variable of the event plane keeps its type, for any bounds.         *)
THEOREM GapTypeCorrect == GapSpec => []GapTypeOK
  BY GapTypeInit, GapTypeStep, PTL DEF GapSpec, GapTypeInv

-----------------------------------------------------------------------------
(* The event plane.  The invariant.                                          *)

(* A fill that may still splice, and one that was started.                   *)
Active(f) == fpc[f] \in {"asking", "served", "ending"}
Started(f) == fpc[f] # "none"

(* The last cursor that an item of the wire covers; a cursor that stands      *)
(* before an item; one that stands before everything still to come.          *)
Last(e) == IF e.kind = "page" THEN e.hi ELSE e.at
Before(n, e) == (e.kind = "event" => n < e.at) /\ (e.kind = "gap" => n <= e.at)
Behind(n) == n <= pos /\ \A i \in DOMAIN wire : Before(n, wire[i])

WireInOrder ==
    \A i \in DOMAIN wire :
        /\ Last(wire[i]) <= pos
        /\ \A j \in DOMAIN wire : i < j => Before(Last(wire[i]), wire[j])

(* A fill has one page on its way at most, the one it asked for.             *)
Due(p) ==
    /\ fpc[p.fill] \notin {"none", "asking"}
    /\ fpc[p.fill] = "served" => p.lo = cursor[p.fill] + 1 /\ cursor[p.fill] <= p.hi
    /\ p.lo > p.hi => ~p.more

PagesAreDue ==
    \A i \in DOMAIN wire : wire[i].kind = "page" =>
        /\ Due(wire[i])
        /\ \A j \in DOMAIN wire : wire[j].kind = "page" /\ wire[j].fill = wire[i].fill => j = i

(* The pages of a fill run on from the cursor b of its gap, and what is      *)
(* parked or on the wire is behind it.                                       *)
RunsFrom(f, b) ==
    /\ \A i \in DOMAIN filled[f] : filled[f][i].at = b + i
    /\ \A a \in CursorsIn(parked) : b < a
    /\ Behind(b + Len(filled[f]))
    /\ fpc[f] \in {"asking", "served"} => cursor[f] = b + Len(filled[f])
    /\ gaps <= 1 /\ ~abandoned => \A a \in CursorsIn(out) : a <= b

FillRuns(f) ==
    /\ Active(f) => \E b \in 0..MaxCursor : RunsFrom(f, b)
    /\ fpc[f] = "none" => filled[f] = <<>> /\ ~aborted[f]
    /\ fpc[f] # "sending" => fillOut[f] = <<>>

FillsRun == \A f \in GapFills : FillRuns(f)

(* What was sent, or is to be sent or parked, is older than the wire.        *)
Older(q) == \A a \in CursorsIn(q) : Behind(a)

SentInOrder ==
    /\ Older(out) /\ Older(readerOut) /\ Older(parked) /\ \A f \in GapFills : Older(fillOut[f])
    /\ Increasing(parked) /\ Increasing(readerOut) /\ \A f \in GapFills : Increasing(fillOut[f])
    /\ ~parking => parked = <<>>

(* With one gap there is one fill; it parks until it ends or is abandoned.   *)
GapAt(i) == wire[i].kind = "gap"

OneFill ==
    /\ \A i, j \in DOMAIN wire : GapAt(i) /\ GapAt(j) => i = j
    /\ \A f, g \in GapFills : Started(f) /\ Started(g) => f = g
    /\ \A f \in GapFills, i \in DOMAIN wire : ~(Started(f) /\ GapAt(i))
    /\ gaps = 0 => (\A i \in DOMAIN wire : ~GapAt(i)) /\ \A f \in GapFills : ~Started(f)
    /\ parking <=> ~abandoned /\ \E f \in GapFills : Active(f)
    /\ abandoned => \E f \in GapFills : Active(f)
    /\ readerOut # <<>> => ~parking /\ \A f \in GapFills : fpc[f] # "sending"

Distinct(q) ==
    \A i, j \in DOMAIN q :
        q[i].kind = "event" /\ q[j].kind = "event" /\ q[i].at = q[j].at => i = j

NoRepeats ==
    /\ Distinct(out)
    /\ \A a \in CursorsIn(out) : a \notin CursorsIn(readerOut) /\ \A f \in GapFills : a \notin CursorsIn(fillOut[f])

(* What was sent is in order, and older than what is to be sent, but for the *)
(* live events that have overtaken a splice.                                 *)
InTurn(a, b) == a < b \/ a \in ahead

Orderly ==
    \A i, j \in DOMAIN out :
        i < j /\ out[i].kind = "event" /\ out[j].kind = "event" => InTurn(out[i].at, out[j].at)

Sorted ==
    /\ Orderly
    /\ \A a \in CursorsIn(out) :
         /\ \A b \in CursorsIn(readerOut) : a < b
         /\ \A f \in GapFills : \A b \in CursorsIn(fillOut[f]) : InTurn(a, b)

(* The events that were sent, or still will be unless a fill covers them;    *)
(* and whether the app was told, or will be, that a backfill gave up.        *)
Held == CursorsIn(out) \cup CursorsIn(readerOut) \cup CursorsIn(parked) \cup CursorsIn(wire)
          \cup UNION {CursorsIn(fillOut[f]) : f \in GapFills}

Reported ==
    \/ Abort \in In(out) \/ Abort \in In(readerOut)
    \/ \E f \in GapFills : Abort \in In(fillOut[f])

(* Nothing is missing: but for the range of a gap on the wire, and what a    *)
(* fill has yet to fetch.                                                    *)
NoGapYet == (\A f \in GapFills : ~Started(f)) /\ \A e \in In(wire) : e.kind # "gap"

FillAccounted(f) ==
    /\ fpc[f] \in {"asking", "served"} => 1..cursor[f] \subseteq Held \cup CursorsIn(filled[f])
    /\ fpc[f] = "ending" /\ ~aborted[f] => 1..pos \subseteq Held \cup CursorsIn(filled[f])
    /\ fpc[f] \in {"sending", "done"} => 1..pos \subseteq Held

PageAccounted(p) == fpc[p.fill] = "served" /\ ~p.more => (p.hi + 1)..pos \subseteq Held

Accounted ==
    /\ NoGapYet => 1..pos \subseteq Held
    /\ \A e \in In(wire) : e.kind = "gap" => 1..e.at \subseteq Held
    /\ \A f \in GapFills : FillAccounted(f)
    /\ \A e \in In(wire) : e.kind = "page" => PageAccounted(e)

Complete == (abandoned => Reported) /\ (Reported \/ Accounted)

Order == WireInOrder /\ PagesAreDue /\ FillsRun /\ SentInOrder
OneGap == gaps <= 1 => OneFill /\ NoRepeats /\ Sorted /\ Complete

GapInv == GapTypeInv /\ Order /\ OneGap

(* The cursors of a sequence that is sent or parked, and those still to come.*)
LEMMA CursorTypes ==
  ASSUME NEW q \in Seq(Sent)
  PROVE  \A n \in CursorsIn(q) : n \in 1..MaxCursor /\ n \in Nat
  <1>1. \A e \in In(q) : e.kind = "event" => e.at \in 1..MaxCursor
    BY ElementOfSeq, GapKinds DEF In
  <1>. QED
    BY <1>1, CursorsOf, GapBounds

LEMMA SentSeqs ==
  ASSUME GapTypeInv
  PROVE  /\ out \in Seq(Sent) /\ readerOut \in Seq(Sent) /\ parked \in Seq(Sent) /\ parked \in Seq(Parkable)
         /\ \A f \in GapFills : /\ filled[f] \in Seq(Sent) /\ filled[f] \in Seq(Events) /\ fillOut[f] \in Seq(Sent)
                                /\ Len(filled[f]) \in Nat /\ DOMAIN filled[f] = 1..Len(filled[f])
         /\ wire \in Seq(Parkable \cup Pages) /\ Len(wire) \in Nat /\ DOMAIN wire = 1..Len(wire)
         /\ \A i \in DOMAIN wire : wire[i] \in Parkable \cup Pages
         /\ pos \in Nat /\ pos \in 0..MaxCursor
<1>1. Parkable \subseteq Sent /\ Events \subseteq Sent
  BY GapKinds
<1>2. out \in Seq(Sent) /\ readerOut \in Seq(Sent) /\ parked \in Seq(Parkable) /\ wire \in Seq(Parkable \cup Pages)
  BY DEF GapTypeInv, GapTypeOK
<1>3. parked \in Seq(Sent)
  BY <1>1, <1>2, SeqMonotonic
<1>4. \A f \in GapFills : filled[f] \in Seq(Events) /\ fillOut[f] \in Seq(Sent)
  BY DEF GapTypeInv, GapTypeOK
<1>5. \A f \in GapFills : /\ filled[f] \in Seq(Sent)
                          /\ Len(filled[f]) \in Nat /\ DOMAIN filled[f] = 1..Len(filled[f])
  BY <1>1, <1>4, SeqMonotonic, LenProperties
<1>6. /\ Len(wire) \in Nat /\ DOMAIN wire = 1..Len(wire)
      /\ \A i \in DOMAIN wire : wire[i] \in Parkable \cup Pages
  BY <1>2, LenProperties, ElementOfSeq
<1>7. pos \in Nat /\ pos \in 0..MaxCursor
  BY GapBounds DEF GapTypeInv, GapTypeOK
<1>. QED
  BY <1>2, <1>3, <1>4, <1>5, <1>6, <1>7

(* What a step does to the wire: nothing, take the head off, or add one item.*)
LEMMA WireMoves ==
  ASSUME GapTypeInv, [GapNext]_gapVars
  PROVE  \/ wire' = wire /\ pos' = pos
         \/ wire # <<>> /\ wire' = Tail(wire) /\ pos' = pos
         \/ \E e \in Parkable \cup Pages :
               /\ wire' = Append(wire, e) /\ pos' >= pos /\ pos' \in Nat
               /\ e.kind = "event" => e.at = pos + 1 /\ pos' = pos + 1
               /\ e.kind = "gap" => e.at = pos
               /\ e.kind = "page" => e.hi <= pos
<1>. USE GapBounds DEF server, gapState, fill
<1>0. pos \in Nat /\ pos \in 0..MaxCursor
  BY SentSeqs
<1>1. CASE Produce
  <2>1. Event(pos + 1) \in Parkable \cup Pages /\ Event(pos + 1).kind = "event" /\ Event(pos + 1).at = pos + 1
    BY <1>0, <1>1, GapKinds DEF Produce
  <2>. QED
    BY <1>0, <1>1, <2>1 DEF Produce
<1>2. CASE Skip
  <2>1. Gap(pos) \in Parkable \cup Pages /\ Gap(pos).kind = "gap" /\ Gap(pos).at = pos
    BY <1>0, GapKinds
  <2>2. pos' >= pos /\ pos' \in Nat /\ wire' = Append(wire, Gap(pos))
    BY <1>0, <1>2 DEF Skip
  <2>. QED
    BY <2>1, <2>2
<1>3. ASSUME NEW f \in GapFills, ServePage(f)
      PROVE  \E e \in Pages : wire' = Append(wire, e) /\ pos' = pos /\ e.hi <= pos
  <2>. DEFINE last == IF cursor[f] + PageLimit < pos THEN cursor[f] + PageLimit ELSE pos
  <2>1. last \in 0..MaxCursor /\ last <= pos /\ cursor[f] + 1 \in 1..(MaxCursor + 1)
    BY <1>0 DEF GapTypeInv, GapTypeOK
  <2>2. wire' = Append(wire, Page(f, cursor[f] + 1, last)) /\ pos' = pos
    BY <1>3 DEF ServePage
  <2>. HIDE DEF last
  <2>3. Page(f, cursor[f] + 1, last) \in Pages /\ Page(f, cursor[f] + 1, last).hi = last
    BY <2>1 DEF Page, Pages
  <2>. QED
    BY <2>1, <2>2, <2>3
<1>4. CASE ReadEvent \/ ReadGap \/ ReadPage
  BY <1>4 DEF ReadEvent, ReadGap, ReadPage
<1>5. CASE Stop \/ ReaderSend \/ ReadEnd
  BY <1>5 DEF Stop, ReaderSend, ReadEnd
<1>6. ASSUME NEW f \in GapFills, FillStep(f) PROVE wire' = wire /\ pos' = pos
  BY <1>6 DEF FillStep, PageFails, Release, FillSend
<1>7. CASE UNCHANGED gapVars
  BY <1>7 DEF gapVars
<1>8. \A e \in Pages : e.kind = "page" /\ e.kind # "event" /\ e.kind # "gap"
  BY GapKinds
<1>9. CASE \E f \in GapFills : ServePage(f)
  BY <1>0, <1>3, <1>8, <1>9
<1>. QED
  BY <1>1, <1>2, <1>4, <1>5, <1>6, <1>7, <1>9 DEF GapNext, ReaderTurn, GapFinished

LEMMA BehindStep ==
  ASSUME GapTypeInv, [GapNext]_gapVars
  PROVE  \A n \in Nat : Behind(n) => n <= pos' /\ \A i \in DOMAIN wire' : Before(n, wire'[i])
<1>. SUFFICES ASSUME NEW n \in Nat, Behind(n)
              PROVE  n <= pos' /\ \A i \in DOMAIN wire' : Before(n, wire'[i])
  OBVIOUS
<1>0. /\ wire \in Seq(Parkable \cup Pages) /\ pos \in Nat
      /\ n <= pos /\ \A i \in DOMAIN wire : Before(n, wire[i])
  BY SentSeqs DEF Behind
<1>1. CASE wire' = wire /\ pos' = pos
  BY <1>0, <1>1
<1>2. CASE wire # <<>> /\ wire' = Tail(wire) /\ pos' = pos
  BY <1>0, <1>2, TailOf
<1>3. ASSUME NEW e \in Parkable \cup Pages,
               wire' = Append(wire, e), pos' >= pos, pos' \in Nat,
               e.kind = "event" => e.at = pos + 1 /\ pos' = pos + 1,
               e.kind = "gap" => e.at = pos
      PROVE  n <= pos' /\ \A i \in DOMAIN wire' : Before(n, wire'[i])
  <2>1. Before(n, e)
    BY <1>0, <1>3 DEF Before
  <2>2. \A i \in DOMAIN wire' : (i \in DOMAIN wire /\ wire'[i] = wire[i]) \/ wire'[i] = e
    BY <1>0, <1>3, AppendOf
  <2>. QED
    BY <1>0, <1>3, <2>1, <2>2
<1>. QED
  BY <1>1, <1>2, <1>3, WireMoves

LEMMA WireInOrderStep ==
  ASSUME GapTypeInv, WireInOrder, [GapNext]_gapVars
  PROVE  WireInOrder'
<1>0. /\ wire \in Seq(Parkable \cup Pages) /\ pos \in Nat /\ DOMAIN wire = 1..Len(wire) /\ Len(wire) \in Nat
      /\ \A i \in DOMAIN wire : wire[i] \in Parkable \cup Pages
  BY SentSeqs
<1>1. \A e \in Parkable \cup Pages : Last(e) \in Nat
  BY GapKinds, GapBounds DEF Last
<1>2. CASE wire' = wire /\ pos' = pos
  BY <1>2 DEF WireInOrder
<1>3. CASE wire # <<>> /\ wire' = Tail(wire) /\ pos' = pos
  <2>1. \A i \in DOMAIN wire' : i \in Nat \ {0} /\ i + 1 \in DOMAIN wire /\ wire'[i] = wire[i + 1]
    BY <1>0, <1>3, TailOf
  <2>. SUFFICES ASSUME NEW i \in DOMAIN wire'
                PROVE  /\ Last(wire'[i]) <= pos'
                       /\ \A j \in DOMAIN wire' : i < j => Before(Last(wire'[i]), wire'[j])
    BY DEF WireInOrder
  <2>2. Last(wire'[i]) <= pos'
    BY <1>3, <2>1 DEF WireInOrder
  <2>3. ASSUME NEW j \in DOMAIN wire', i < j PROVE Before(Last(wire'[i]), wire'[j])
    <3>1. i + 1 < j + 1
      BY <2>1, <2>3
    <3>. QED
      BY <2>1, <3>1 DEF WireInOrder
  <2>. QED
    BY <2>2, <2>3
<1>4. ASSUME NEW e \in Parkable \cup Pages,
               wire' = Append(wire, e), pos' >= pos, pos' \in Nat,
               e.kind = "event" => e.at = pos + 1 /\ pos' = pos + 1,
               e.kind = "gap" => e.at = pos,
               e.kind = "page" => e.hi <= pos
      PROVE  WireInOrder'
  <2>1. Last(e) <= pos'
    <3>1. e.kind \in {"event", "gap", "page"}
      BY GapKinds
    <3>. QED
      BY <1>0, <1>1, <1>4, <3>1 DEF Last
  <2>2. /\ DOMAIN wire' = 1..(Len(wire) + 1)
        /\ \A i \in DOMAIN wire' : (i \in DOMAIN wire /\ wire'[i] = wire[i]) \/ (i = Len(wire) + 1 /\ wire'[i] = e)
    BY <1>0, <1>4, AppendOf
  <2>. SUFFICES ASSUME NEW i \in DOMAIN wire'
                PROVE  /\ Last(wire'[i]) <= pos'
                       /\ \A j \in DOMAIN wire' : i < j => Before(Last(wire'[i]), wire'[j])
    BY DEF WireInOrder
  <2>3. CASE i = Len(wire) + 1 /\ wire'[i] = e
    BY <1>0, <2>1, <2>2, <2>3
  <2>4. CASE i \in DOMAIN wire /\ wire'[i] = wire[i]
    <3>1. Last(wire[i]) <= pos /\ Last(wire[i]) \in Nat
      BY <1>0, <1>1, <2>4 DEF WireInOrder
    <3>2. Before(Last(wire[i]), e)
      BY <1>0, <1>4, <3>1 DEF Before
    <3>3. \A j \in DOMAIN wire : i < j => Before(Last(wire[i]), wire[j])
      BY <2>4 DEF WireInOrder
    <3>. QED
      BY <1>0, <1>4, <2>2, <2>4, <3>1, <3>2, <3>3
  <2>. QED
    BY <2>2, <2>3, <2>4
<1>. QED
  BY <1>2, <1>3, <1>4, WireMoves

-----------------------------------------------------------------------------
(* The event plane.  What the steps do to what is sent and parked.           *)

(* The cursor of an item, if it is an event.                                 *)
Its(e) == IF e.kind = "event" THEN {e.at} ELSE {}

(* The three branches of dispatch.                                           *)
PassedOn(e) ==
    /\ ~parking /\ out' = Append(out, e)
    /\ UNCHANGED <<parking, parked, abandoned, readerOut>>
    /\ In(out') = In(out) \cup {e} /\ CursorsIn(out') = CursorsIn(out) \cup Its(e)

ParkedBehind(e) ==
    /\ parking /\ UNCHANGED <<parking, abandoned, readerOut, out>>
    /\ CursorsIn(parked') = CursorsIn(parked) \cup Its(e)
    /\ Increasing(parked) /\ (\A n \in CursorsIn(parked), a \in Its(e) : n < a) => Increasing(parked')

GivenUp(e) ==
    /\ parking /\ ~parking' /\ abandoned' /\ parked' = <<>> /\ out' = out /\ readerOut' # <<>>
    /\ Abort \in In(readerOut') /\ CursorsIn(readerOut') = CursorsIn(parked) \cup Its(e)
    /\ Increasing(parked) /\ (\A n \in CursorsIn(parked), a \in Its(e) : n < a) => Increasing(readerOut')

LEMMA DispatchDoes ==
  ASSUME GapTypeInv, NEW e \in Parkable, Dispatch(e)
  PROVE  PassedOn(e) \/ ParkedBehind(e) \/ GivenUp(e)
<1>1. /\ e \in Sent /\ Abort \in Sent /\ Abort.kind # "event"
      /\ out \in Seq(Sent) /\ parked \in Seq(Sent) /\ parked \in Seq(Parkable)
  BY GapKinds, SentSeqs
<1>2. CASE ~parking
  <2>1. out' = Append(out, e) /\ UNCHANGED <<parking, parked, abandoned, readerOut>>
    BY <1>2 DEF Dispatch, PassOn, gapState
  <2>2. In(Append(out, e)) = In(out) \cup {e} /\ CursorsIn(Append(out, e)) = CursorsIn(out) \cup Its(e)
    BY <1>1, AppendOf DEF Its
  <2>. QED
    BY <1>2, <2>1, <2>2 DEF PassedOn
<1>3. CASE parking /\ Len(parked) < MaxBuffered
  <2>1. parked' = Append(parked, e) /\ UNCHANGED <<parking, abandoned, readerOut, out>>
    BY <1>3 DEF Dispatch
  <2>2. /\ CursorsIn(Append(parked, e)) = CursorsIn(parked) \cup Its(e)
        /\ Increasing(parked) /\ (e.kind = "event" => \A n \in CursorsIn(parked) : n < e.at)
             => Increasing(Append(parked, e))
    BY <1>1, AppendOf DEF Its
  <2>3. (\A n \in CursorsIn(parked), a \in Its(e) : n < a)
          => (e.kind = "event" => \A n \in CursorsIn(parked) : n < e.at)
    BY DEF Its
  <2>. QED
    BY <1>3, <2>1, <2>2, <2>3 DEF ParkedBehind
<1>4. CASE parking /\ ~(Len(parked) < MaxBuffered)
  <2>. DEFINE first == <<Abort>> \o parked
              all == first \o <<e>>
  <2>1. /\ parking' = FALSE /\ parked' = <<>> /\ abandoned' = TRUE
        /\ readerOut' = all /\ out' = out
    BY <1>4 DEF Dispatch
  <2>2. /\ <<Abort>> \in Seq(Sent) /\ In(<<Abort>>) = {Abort} /\ CursorsIn(<<Abort>>) = {}
        /\ Increasing(<<Abort>>)
    BY <1>1 DEF In, CursorsIn, Increasing
  <2>3. <<e>> \in Seq(Sent) /\ In(<<e>>) = {e} /\ Increasing(<<e>>)
    BY <1>1 DEF In, Increasing
  <2>4. CursorsIn(<<e>>) = Its(e)
    <3>1. \A n : n \in CursorsIn(<<e>>) <=> e.kind = "event" /\ e.at = n
      BY <2>3, CursorsOf
    <3>. QED
      BY <3>1 DEF Its
  <2>. DEFINE start == <<Abort>>
              end == <<e>>
  <2>. HIDE DEF start, end
  <2>8. first = start \o parked /\ all = first \o end
    BY DEF start, end
  <2>. HIDE DEF first
  <2>9. /\ first \in Seq(Sent) /\ In(first) = In(start) \cup In(parked)
        /\ CursorsIn(first) = CursorsIn(start) \cup CursorsIn(parked)
        /\ Increasing(start) /\ Increasing(parked) /\ (\A a \in CursorsIn(start), b \in CursorsIn(parked) : a < b)
             => Increasing(first)
    <3>1. start \in Seq(Sent) /\ parked \in Seq(Sent)
      BY <1>1, <2>2 DEF start
    <3>. QED
      BY <2>8, <3>1, ConcatOf
  <2>5. /\ first \in Seq(Sent) /\ In(first) = {Abort} \cup In(parked) /\ CursorsIn(first) = CursorsIn(parked)
        /\ Increasing(parked) => Increasing(first)
    BY <2>2, <2>9 DEF start
  <2>. HIDE DEF all
  <2>10. /\ In(all) = In(first) \cup In(end)
         /\ CursorsIn(all) = CursorsIn(first) \cup CursorsIn(end)
         /\ Increasing(first) /\ Increasing(end) /\ (\A a \in CursorsIn(first), b \in CursorsIn(end) : a < b)
              => Increasing(all)
    <3>1. first \in Seq(Sent) /\ end \in Seq(Sent) /\ all = first \o end
      BY <2>3, <2>5, <2>8 DEF end
    <3>. QED
      BY <3>1, ConcatOf
  <2>6. /\ In(all) = In(first) \cup {e} /\ CursorsIn(all) = CursorsIn(parked) \cup Its(e)
        /\ Increasing(first) /\ (\A n \in CursorsIn(parked), a \in Its(e) : n < a) => Increasing(all)
    BY <2>3, <2>4, <2>5, <2>10 DEF end
  <2>7. all # <<>>
    BY <2>6, NothingIn
  <2>. QED
    BY <1>4, <2>1, <2>5, <2>6, <2>7 DEF GivenUp
<1>. QED
  BY <1>2, <1>3, <1>4

(* What a read takes off the wire is next in order.                          *)
LEMMA HeadIsNext ==
  ASSUME GapTypeInv, WireInOrder, wire # <<>>
  PROVE  /\ 1 \in DOMAIN wire /\ wire[1] = Head(wire) /\ Head(wire) \in Parkable \cup Pages
         /\ Last(Head(wire)) <= pos /\ Last(Head(wire)) \in Nat
         /\ wire' = Tail(wire) /\ pos' = pos =>
              /\ \A i \in DOMAIN wire' : i \in Nat \ {0} /\ i + 1 \in DOMAIN wire /\ wire'[i] = wire[i + 1]
              /\ Last(Head(wire)) <= pos' /\ \A i \in DOMAIN wire' : Before(Last(Head(wire)), wire'[i])
<1>1. /\ wire \in Seq(Parkable \cup Pages) /\ pos \in Nat /\ DOMAIN wire = 1..Len(wire) /\ Len(wire) \in Nat
      /\ \A i \in DOMAIN wire : wire[i] \in Parkable \cup Pages
  BY SentSeqs
<1>2. 1 \in DOMAIN wire /\ wire[1] = Head(wire) /\ Head(wire) \in Parkable \cup Pages
  BY <1>1, TailOf
<1>3. Last(Head(wire)) \in Nat
  BY <1>2, GapKinds, GapBounds DEF Last
<1>4. Last(Head(wire)) <= pos
  BY <1>2 DEF WireInOrder
<1>5. ASSUME wire' = Tail(wire), pos' = pos
      PROVE  /\ \A i \in DOMAIN wire' : i \in Nat \ {0} /\ i + 1 \in DOMAIN wire /\ wire'[i] = wire[i + 1]
             /\ Last(Head(wire)) <= pos' /\ \A i \in DOMAIN wire' : Before(Last(Head(wire)), wire'[i])
  <2>1. \A i \in DOMAIN wire' : i \in Nat \ {0} /\ i + 1 \in DOMAIN wire /\ wire'[i] = wire[i + 1]
    BY <1>1, <1>5, TailOf
  <2>2. ASSUME NEW i \in DOMAIN wire' PROVE Before(Last(Head(wire)), wire'[i])
    <3>1. 1 < i + 1
      BY <2>1
    <3>. QED
      BY <1>2, <2>1, <3>1 DEF WireInOrder
  <2>. QED
    BY <1>4, <1>5, <2>1, <2>2
<1>. QED
  BY <1>2, <1>3, <1>4, <1>5

(* A page reply that its fill waits for.                                     *)
LEMMA TakePageDoes ==
  ASSUME GapTypeInv, NEW f \in GapFills, NEW p \in Pages, TakePage(f, p), p.lo <= p.hi + 1
  PROVE  /\ fillOut' = fillOut /\ fpc' = [fpc EXCEPT ![f] = fpc'[f]]
         /\ \A g \in GapFills : g # f => /\ filled'[g] = filled[g] /\ cursor'[g] = cursor[g]
                                         /\ aborted'[g] = aborted[g] /\ fpc'[g] = fpc[g]
         /\ Len(filled'[f]) = Len(filled[f]) + (p.hi - p.lo + 1)
         /\ DOMAIN filled'[f] = 1..Len(filled'[f])
         /\ \A i \in DOMAIN filled'[f] :
              \/ i \in DOMAIN filled[f] /\ filled'[f][i] = filled[f][i]
              \/ i > Len(filled[f]) /\ filled'[f][i].at = p.lo + (i - Len(filled[f])) - 1
         /\ CursorsIn(filled'[f]) = CursorsIn(filled[f]) \cup p.lo..p.hi
         /\ \/ p.more /\ p.lo <= p.hi /\ fpc'[f] = "asking" /\ cursor'[f] = p.hi /\ aborted'[f] = aborted[f]
            \/ p.more /\ p.lo <= p.hi /\ fpc'[f] = "ending" /\ cursor'[f] = p.hi /\ aborted'[f]
            \/ ~(p.more /\ p.lo <= p.hi) /\ fpc'[f] = "ending" /\ aborted'[f] = aborted[f]
<1>. DEFINE new == EventsOf(p.lo, p.hi)
            n == Len(filled[f])
<1>1. p.lo \in 1..(MaxCursor + 1) /\ p.hi \in 0..MaxCursor /\ p.lo \in Nat /\ p.hi \in Nat
  BY GapKinds, GapBounds
<1>2. /\ new \in Seq(Events) /\ Len(new) = p.hi - p.lo + 1 /\ DOMAIN new = 1..(p.hi - p.lo + 1)
      /\ \A i \in 1..(p.hi - p.lo + 1) : new[i] = Event(p.lo + i - 1)
  BY <1>1, EventsOfType
<1>3. filled[f] \in Seq(Events) /\ n \in Nat /\ DOMAIN filled[f] = 1..n
  BY SentSeqs
<1>4. filled'[f] = filled[f] \o new /\ \A g \in GapFills : g # f => filled'[g] = filled[g]
  <2>1. filled \in [GapFills -> Seq(Events)]
    BY DEF GapTypeInv, GapTypeOK
  <2>. QED
    BY <2>1 DEF TakePage
<1>. HIDE DEF new, n
<1>5. /\ filled'[f] \in Seq(Events) /\ DOMAIN filled'[f] = 1..(n + Len(new))
      /\ CursorsIn(filled'[f]) = CursorsIn(filled[f]) \cup CursorsIn(new)
      /\ \A i \in 1..(n + Len(new)) :
            \/ i \in 1..n /\ filled'[f][i] = filled[f][i]
            \/ i > n /\ i - n \in 1..Len(new) /\ filled'[f][i] = new[i - n]
  BY <1>2, <1>3, <1>4, ConcatOf, Joined DEF n
<1>6. Len(filled'[f]) = n + (p.hi - p.lo + 1) /\ DOMAIN filled'[f] = 1..Len(filled'[f])
  <2>1. Len(filled'[f]) = n + Len(new)
    BY <1>2, <1>3, <1>4, ConcatProperties DEF n
  <2>. QED
    BY <1>2, <1>5, <2>1
<1>7. ASSUME NEW i \in DOMAIN filled'[f]
      PROVE  \/ i \in DOMAIN filled[f] /\ filled'[f][i] = filled[f][i]
             \/ i > n /\ filled'[f][i].at = p.lo + (i - n) - 1
  BY <1>2, <1>3, <1>5 DEF Event
<1>8. CursorsIn(new) = p.lo..p.hi
  <2>1. \A i \in DOMAIN new : new[i].kind = "event" /\ new[i].at = p.lo + i - 1
    BY <1>2 DEF Event
  <2>2. CursorsIn(new) \subseteq p.lo..p.hi
    BY <1>1, <1>2, <2>1 DEF CursorsIn
  <2>3. ASSUME NEW a \in p.lo..p.hi PROVE a \in CursorsIn(new)
    <3>1. a - p.lo + 1 \in DOMAIN new /\ p.lo + (a - p.lo + 1) - 1 = a
      BY <1>1, <1>2
    <3>. QED
      BY <2>1, <3>1 DEF CursorsIn
  <2>. QED
    BY <2>2, <2>3
<1>9. /\ fpc \in [GapFills -> {"none", "asking", "served", "ending", "sending", "done"}]
      /\ cursor \in [GapFills -> 0..MaxCursor] /\ aborted \in [GapFills -> BOOLEAN]
  BY DEF GapTypeInv, GapTypeOK
<1>10. /\ fillOut' = fillOut /\ fpc' = [fpc EXCEPT ![f] = fpc'[f]]
       /\ \A g \in GapFills : g # f => cursor'[g] = cursor[g] /\ aborted'[g] = aborted[g] /\ fpc'[g] = fpc[g]
  BY <1>9 DEF TakePage
<1>11. \/ p.more /\ p.lo <= p.hi /\ fpc'[f] = "asking" /\ cursor'[f] = p.hi /\ aborted'[f] = aborted[f]
       \/ p.more /\ p.lo <= p.hi /\ fpc'[f] = "ending" /\ cursor'[f] = p.hi /\ aborted'[f]
       \/ ~(p.more /\ p.lo <= p.hi) /\ fpc'[f] = "ending" /\ aborted'[f] = aborted[f]
  BY <1>9 DEF TakePage
<1>. QED
  BY <1>4, <1>5, <1>6, <1>7, <1>8, <1>10, <1>11 DEF n

(* What a fill that was not given up on has to send.                         *)
LEMMA ReleaseDoes ==
  ASSUME GapTypeInv, NEW f \in GapFills, Release(f), ~abandoned
  PROVE  /\ fpc[f] = "ending" /\ ~parking' /\ parked' = <<>> /\ fpc' = [fpc EXCEPT ![f] = "sending"]
         /\ fpc'[f] = "sending" /\ \A g \in GapFills : g # f => fillOut'[g] = fillOut[g] /\ fpc'[g] = fpc[g]
         /\ UNCHANGED <<pos, gaps, link, abandoned, wire, readerOut, cursor, pages, filled, aborted, out>>
         /\ fillOut'[f] \in Seq(Sent)
         /\ CursorsIn(fillOut'[f]) = CursorsIn(filled[f]) \cup CursorsIn(parked)
         /\ aborted[f] => Abort \in In(fillOut'[f])
         /\ Increasing(filled[f]) /\ Increasing(parked)
              /\ (\A a \in CursorsIn(filled[f]), b \in CursorsIn(parked) : b \in CursorsIn(filled[f]) \/ a < b)
                => Increasing(fillOut'[f])
<1>. DEFINE start == IF aborted[f] THEN <<Abort>> ELSE <<>>
            head == start \o filled[f]
            rest == NotSeen(f)
            all == head \o rest
<1>1. /\ fpc[f] = "ending" /\ parking' = FALSE /\ parked' = <<>> /\ fpc' = [fpc EXCEPT ![f] = "sending"]
      /\ fillOut' = [fillOut EXCEPT ![f] = all]
      /\ UNCHANGED <<pos, gaps, link, abandoned, wire, readerOut, cursor, pages, filled, aborted, out>>
  BY DEF Release, server
<1>2. /\ parked \in Seq(Parkable) /\ filled[f] \in Seq(Sent) /\ Parkable \subseteq Sent
      /\ Abort \in Sent /\ Abort.kind # "event"
  BY SentSeqs, GapKinds
<1>3. /\ rest \in Seq(Parkable) /\ In(rest) = {parked[i] : i \in Unseen(f)}
      /\ Increasing(parked) => Increasing(rest)
  BY <1>2, RowsOf DEF NotSeen, Unseen
<1>4. rest \in Seq(Sent)
  BY <1>2, <1>3, SeqMonotonic
<1>5. /\ start \in Seq(Sent) /\ CursorsIn(start) = {} /\ Increasing(start)
      /\ aborted[f] => Abort \in In(start)
  <2>1. /\ <<Abort>> \in Seq(Sent) /\ In(<<Abort>>) = {Abort} /\ CursorsIn(<<Abort>>) = {}
        /\ Increasing(<<Abort>>)
    BY <1>2 DEF In, CursorsIn, Increasing
  <2>2. <<>> \in Seq(Sent) /\ CursorsIn(<<>>) = {} /\ Increasing(<<>>)
    BY EmptySeq, NothingIn
  <2>. QED
    BY <2>1, <2>2
<1>6. CursorsIn(rest) = CursorsIn(parked) \ CursorsIn(filled[f])
  <2>1. \A n : n \in CursorsIn(rest) <=> \E i \in Unseen(f) : parked[i].kind = "event" /\ parked[i].at = n
    BY <1>3, CursorsOf
  <2>. HIDE DEF rest
  <2>2. \A n : n \in CursorsIn(parked) <=> \E i \in DOMAIN parked : parked[i].kind = "event" /\ parked[i].at = n
    BY DEF CursorsIn
  <2>3. \A n : n \in CursorsIn(rest) <=> n \in CursorsIn(parked) /\ n \notin CursorsIn(filled[f])
    BY <2>1, <2>2 DEF Unseen
  <2>. QED
    BY <2>3
<1>. HIDE DEF start, rest
<1>13. /\ head \in Seq(Sent) /\ In(head) = In(start) \cup In(filled[f])
       /\ CursorsIn(head) = CursorsIn(start) \cup CursorsIn(filled[f])
       /\ Increasing(start) /\ Increasing(filled[f]) /\ (\A a \in CursorsIn(start), b \in CursorsIn(filled[f]) : a < b)
            => Increasing(head)
  <2>1. start \in Seq(Sent) /\ filled[f] \in Seq(Sent)
    BY <1>2, <1>5
  <2>. QED
    BY <2>1, ConcatOf
<1>7. /\ head \in Seq(Sent) /\ In(head) = In(start) \cup In(filled[f])
      /\ CursorsIn(head) = CursorsIn(filled[f])
      /\ Increasing(filled[f]) => Increasing(head)
  <2>. HIDE DEF head
  <2>. QED
    BY <1>5, <1>13
<1>. HIDE DEF head
<1>8. /\ all \in Seq(Sent) /\ In(all) = In(head) \cup In(rest)
      /\ CursorsIn(all) = CursorsIn(filled[f]) \cup CursorsIn(rest)
      /\ Increasing(head) /\ Increasing(rest) /\ (\A a \in CursorsIn(filled[f]), b \in CursorsIn(rest) : a < b)
           => Increasing(all)
  BY <1>4, <1>7, ConcatOf
<1>. HIDE DEF all
<1>9. /\ fillOut \in [GapFills -> Seq(Sent)]
      /\ fpc \in [GapFills -> {"none", "asking", "served", "ending", "sending", "done"}]
  BY DEF GapTypeInv, GapTypeOK
<1>10. /\ fillOut'[f] = all /\ fpc'[f] = "sending"
       /\ \A g \in GapFills : g # f => fillOut'[g] = fillOut[g] /\ fpc'[g] = fpc[g]
  BY <1>1, <1>9
<1>11. CursorsIn(all) = CursorsIn(filled[f]) \cup CursorsIn(parked)
  BY <1>6, <1>8
<1>12. ASSUME Increasing(filled[f]), Increasing(parked),
              \A a \in CursorsIn(filled[f]), b \in CursorsIn(parked) : b \in CursorsIn(filled[f]) \/ a < b
       PROVE  Increasing(all)
  BY <1>3, <1>6, <1>7, <1>8, <1>12
<1>. QED
  BY <1>1, <1>5, <1>7, <1>8, <1>10, <1>11, <1>12

(* The cursor that leads what is to be sent in order is not repeated in it.  *)
LEMMA HeadFirst ==
  ASSUME NEW q \in Seq(Sent), q # <<>>, Increasing(q), NEW n \in Its(Head(q))
  PROVE  n \notin CursorsIn(Tail(q)) /\ \A m \in CursorsIn(Tail(q)) : n < m
<1>. DEFINE e == Head(q)
<1>1. /\ e \in Sent /\ q[1] = e /\ 1 \in DOMAIN q
      /\ \A i \in DOMAIN Tail(q) : i \in Nat \ {0} /\ i + 1 \in DOMAIN q /\ Tail(q)[i] = q[i + 1]
  BY TailOf
<1>. HIDE DEF e
<1>2. e.kind = "event" /\ n = e.at /\ n \in Nat
  <2>1. n \in Its(e)
    BY DEF e
  <2>. QED
    BY <1>1, <2>1, GapKinds, GapBounds DEF Its
<1>3. ASSUME NEW i \in DOMAIN Tail(q), Tail(q)[i].kind = "event" PROVE Tail(q)[i].at # n /\ n < Tail(q)[i].at
  <2>1. 1 < i + 1
    BY <1>1
  <2>2. q[1].at < q[i + 1].at
    BY <1>1, <1>2, <1>3, <2>1 DEF Increasing
  <2>. QED
    BY <1>1, <1>2, <1>3, <2>2
<1>. QED
  BY <1>3 DEF CursorsIn

(* A fill sends one item, or has sent them all.                              *)
LEMMA FillSendDoes ==
  ASSUME GapTypeInv, NEW f \in GapFills, FillSend(f)
  PROVE  /\ fpc[f] = "sending"
         /\ UNCHANGED <<pos, gaps, link, wire, parking, parked, abandoned, readerOut, cursor, pages, filled, aborted>>
         /\ \A g \in GapFills : g # f => fillOut'[g] = fillOut[g] /\ fpc'[g] = fpc[g]
         /\ \/ /\ fpc'[f] = "done" /\ UNCHANGED <<fillOut, out>> /\ fillOut[f] = <<>>
            \/ /\ UNCHANGED fpc
               /\ \E e \in Sent :
                    /\ out' = Append(out, e)
                    /\ In(out') = In(out) \cup {e} /\ CursorsIn(out') = CursorsIn(out) \cup Its(e)
                    /\ In(fillOut[f]) = {e} \cup In(fillOut'[f])
                    /\ CursorsIn(fillOut[f]) = CursorsIn(fillOut'[f]) \cup Its(e)
                    /\ Increasing(fillOut[f]) =>
                         /\ Increasing(fillOut'[f])
                         /\ \A n \in Its(e) :
                              n \notin CursorsIn(fillOut'[f]) /\ \A m \in CursorsIn(fillOut'[f]) : n < m
<1>1. /\ fillOut \in [GapFills -> Seq(Sent)]
      /\ fpc \in [GapFills -> {"none", "asking", "served", "ending", "sending", "done"}]
  BY DEF GapTypeInv, GapTypeOK
<1>2. /\ fpc[f] = "sending"
      /\ UNCHANGED <<pos, gaps, link, wire, parking, parked, abandoned, readerOut, cursor, pages, filled, aborted>>
      /\ \A g \in GapFills : g # f => fillOut'[g] = fillOut[g] /\ fpc'[g] = fpc[g]
  BY <1>1 DEF FillSend, server, gapState
<1>3. CASE fillOut[f] = <<>>
  BY <1>1, <1>2, <1>3 DEF FillSend
<1>4. CASE fillOut[f] # <<>>
  <2>. DEFINE q == fillOut[f]
              e == Head(q)
  <2>1. out' = Append(out, e) /\ fillOut' = [fillOut EXCEPT ![f] = Tail(q)] /\ UNCHANGED fpc
    BY <1>4 DEF FillSend
  <2>2. q \in Seq(Sent) /\ out \in Seq(Sent) /\ fillOut'[f] = Tail(q)
    BY <1>1, <2>1, SentSeqs
  <2>. HIDE DEF q
  <2>3. /\ e \in Sent /\ In(q) = {e} \cup In(Tail(q)) /\ CursorsIn(q) = CursorsIn(Tail(q)) \cup Its(e)
        /\ Increasing(q) => /\ Increasing(Tail(q))
                            /\ \A n \in Its(e) :
                                 n \notin CursorsIn(Tail(q)) /\ \A m \in CursorsIn(Tail(q)) : n < m
    <3>1. q # <<>>
      BY <1>4 DEF q
    <3>2. /\ e \in Sent /\ In(q) = {e} \cup In(Tail(q)) /\ CursorsIn(q) = CursorsIn(Tail(q)) \cup Its(e)
          /\ Increasing(q) => Increasing(Tail(q))
      BY <2>2, <3>1, TailOf DEF Its
    <3>. HIDE DEF e
    <3>3. Increasing(q) => \A n \in Its(e) :
                              n \notin CursorsIn(Tail(q)) /\ \A m \in CursorsIn(Tail(q)) : n < m
      BY <2>2, <3>1, HeadFirst DEF e
    <3>. QED
      BY <3>2, <3>3
  <2>4. In(Append(out, e)) = In(out) \cup {e} /\ CursorsIn(Append(out, e)) = CursorsIn(out) \cup Its(e)
    BY <2>2, <2>3, AppendOf DEF Its
  <2>. QED
    BY <1>2, <2>1, <2>2, <2>3, <2>4 DEF q
<1>. QED
  BY <1>3, <1>4

-----------------------------------------------------------------------------
(* The event plane.  Pages, fills and what they send stay in order.          *)

LEMMA FillTypes ==
  ASSUME GapTypeInv
  PROVE  /\ fpc \in [GapFills -> {"none", "asking", "served", "ending", "sending", "done"}]
         /\ cursor \in [GapFills -> 0..MaxCursor] /\ aborted \in [GapFills -> BOOLEAN]
         /\ filled \in [GapFills -> Seq(Events)] /\ fillOut \in [GapFills -> Seq(Sent)]
         /\ gaps \in Nat /\ \A f \in GapFills : cursor[f] \in Nat
  BY GapBounds DEF GapTypeInv, GapTypeOK

LEMMA DueKept ==
  ASSUME GapTypeInv, PagesAreDue, NEW d \in {0, 1},
         \/ d = 0 /\ wire' = wire
         \/ d = 1 /\ wire # <<>> /\ wire' = Tail(wire)
         \/ d = 0 /\ \E e \in Parkable \cup Pages : e.kind # "page" /\ wire' = Append(wire, e),
         \A p \in Pages : Due(p) /\ (\E i \in DOMAIN wire : i > d /\ wire[i] = p) => Due(p)'
  PROVE  PagesAreDue'
<1>1. /\ wire \in Seq(Parkable \cup Pages) /\ DOMAIN wire = 1..Len(wire) /\ Len(wire) \in Nat
      /\ \A i \in DOMAIN wire : wire[i] \in Parkable \cup Pages
  BY SentSeqs
<1>2. \A i \in DOMAIN wire : wire[i].kind = "page" => wire[i] \in Pages
  BY <1>1, GapKinds
<1>3. /\ \A i \in DOMAIN wire : wire[i].kind = "page" => Due(wire[i])
      /\ \A i, j \in DOMAIN wire :
           wire[i].kind = "page" /\ wire[j].kind = "page" /\ wire[j].fill = wire[i].fill => j = i
  BY DEF PagesAreDue
<1>4. ASSUME NEW i \in DOMAIN wire', wire'[i].kind = "page"
      PROVE  i \in Nat /\ i + d \in DOMAIN wire /\ i + d > d /\ wire'[i] = wire[i + d]
  <2>1. CASE d = 0 /\ wire' = wire
    BY <1>1, <2>1
  <2>2. CASE d = 1 /\ wire # <<>> /\ wire' = Tail(wire)
    <3>1. i \in Nat \ {0} /\ i + 1 \in DOMAIN wire /\ wire'[i] = wire[i + 1]
      BY <1>1, <2>2, TailOf
    <3>. QED
      BY <2>2, <3>1
  <2>3. ASSUME NEW e \in Parkable \cup Pages, d = 0, e.kind # "page", wire' = Append(wire, e)
        PROVE  i \in Nat /\ i + d \in DOMAIN wire /\ i + d > d /\ wire'[i] = wire[i + d]
    <3>1. \A k \in DOMAIN wire' : (k \in DOMAIN wire /\ wire'[k] = wire[k]) \/ (k = Len(wire) + 1 /\ wire'[k] = e)
      <4>1. wire \in Seq(Parkable \cup Pages) /\ wire' = Append(wire, e)
        BY <1>1, <2>3
      <4>2. /\ DOMAIN Append(wire, e) = 1..(Len(wire) + 1)
            /\ \A k \in 1..(Len(wire) + 1) :
                 \/ k \in DOMAIN wire /\ Append(wire, e)[k] = wire[k]
                 \/ k = Len(wire) + 1 /\ Append(wire, e)[k] = e
        BY <4>1, AppendOf
      <4>. QED
        BY <4>1, <4>2
    <3>2. i \in DOMAIN wire /\ wire'[i] = wire[i]
      BY <1>4, <2>3, <3>1
    <3>3. i \in Nat /\ i > 0 /\ i + 0 = i
      BY <1>1, <3>2
    <3>. QED
      BY <2>3, <3>2, <3>3
  <2>. QED
    BY <2>1, <2>2, <2>3
<1>5. ASSUME NEW i \in DOMAIN wire', wire'[i].kind = "page"
      PROVE  \A p \in Pages : p = wire'[i] => Due(p)'
  BY <1>1, <1>2, <1>3, <1>4, <1>5
<1>6. ASSUME NEW i \in DOMAIN wire', wire'[i].kind = "page"
      PROVE  wire'[i] \in Pages
  BY <1>1, <1>2, <1>4, <1>6
<1>7. ASSUME NEW i \in DOMAIN wire', wire'[i].kind = "page",
             NEW j \in DOMAIN wire', wire'[j].kind = "page", wire'[j].fill = wire'[i].fill
      PROVE  j = i
  <2>1. j + d = i + d /\ i \in Nat /\ j \in Nat
    BY <1>3, <1>4, <1>7
  <2>. QED
    BY <2>1
<1>. QED
  BY <1>5, <1>6, <1>7 DEF PagesAreDue, Due

LEMMA PagesAreDueStep ==
  ASSUME GapTypeInv, WireInOrder, PagesAreDue, FillsRun, [GapNext]_gapVars
  PROVE  PagesAreDue'
<1>. USE DEF server, gapState, fill
<1>1. /\ fpc \in [GapFills -> {"none", "asking", "served", "ending", "sending", "done"}]
      /\ cursor \in [GapFills -> 0..MaxCursor] /\ \A f \in GapFills : cursor[f] \in Nat
  BY FillTypes
<1>2. /\ wire \in Seq(Parkable \cup Pages) /\ DOMAIN wire = 1..Len(wire) /\ Len(wire) \in Nat
      /\ \A i \in DOMAIN wire : wire[i] \in Parkable \cup Pages
      /\ pos \in Nat /\ pos \in 0..MaxCursor
  BY SentSeqs
<1>3. \A p \in Pages : p.kind = "page" /\ p.fill \in GapFills
  BY GapKinds
(* Steps that leave every fill's place alone, or move one towards its end.   *)
<1>4. ASSUME \A f \in GapFills : /\ fpc'[f] = fpc[f] \/ fpc'[f] \in {"ending", "sending", "done"}
                                 /\ cursor'[f] = cursor[f]
      PROVE  \A p \in Pages : Due(p) => Due(p)'
  BY <1>3, <1>4 DEF Due
<1>5. CASE Produce
  <2>1. Event(pos + 1) \in Parkable \cup Pages /\ Event(pos + 1).kind # "page"
    BY <1>2, <1>5, GapKinds, GapBounds DEF Produce
  <2>2. wire' = Append(wire, Event(pos + 1)) /\ fpc' = fpc /\ cursor' = cursor
    BY <1>5 DEF Produce
  <2>. QED
    BY <1>4, <2>1, <2>2, DueKept
<1>6. CASE Skip
  <2>1. Gap(pos) \in Parkable \cup Pages /\ Gap(pos).kind # "page"
    BY <1>2, GapKinds
  <2>2. wire' = Append(wire, Gap(pos)) /\ fpc' = fpc /\ cursor' = cursor
    BY <1>6 DEF Skip
  <2>. QED
    BY <1>4, <2>1, <2>2, DueKept
<1>7. ASSUME NEW f \in GapFills, ServePage(f) PROVE PagesAreDue'
  <2>. DEFINE last == IF cursor[f] + PageLimit < pos THEN cursor[f] + PageLimit ELSE pos
              page == Page(f, cursor[f] + 1, last)
  <2>1. wire' = Append(wire, page) /\ fpc[f] = "asking" /\ fpc' = [fpc EXCEPT ![f] = "served"] /\ cursor' = cursor
    BY <1>7 DEF ServePage
  <2>2. cursor[f] <= pos
    <3>1. PICK b \in 0..MaxCursor : RunsFrom(f, b)
      BY <2>1 DEF FillsRun, FillRuns, Active
    <3>2. cursor[f] = b + Len(filled[f]) /\ Behind(b + Len(filled[f]))
      BY <2>1, <3>1 DEF RunsFrom
    <3>. QED
      BY <3>2 DEF Behind
  <2>3. last \in 0..MaxCursor /\ cursor[f] <= last /\ (cursor[f] + 1 > last => last = pos)
    BY <1>1, <1>2, <2>2, GapBounds
  <2>. HIDE DEF last
  <2>4. /\ page \in Pages /\ page.fill = f /\ page.lo = cursor[f] + 1 /\ page.hi = last
        /\ page.kind = "page" /\ (last = pos => ~page.more)
    <3>1. cursor[f] + 1 \in 1..(MaxCursor + 1)
      BY <1>1, GapBounds
    <3>2. page = [kind |-> "page", fill |-> f, lo |-> cursor[f] + 1, hi |-> last, more |-> last < pos]
      BY DEF Page
    <3>3. page \in Pages
      BY <2>3, <3>1 DEF Page, Pages
    <3>4. /\ page.fill = f /\ page.lo = cursor[f] + 1 /\ page.hi = last
          /\ page.kind = "page" /\ page.more = (last < pos)
      BY <3>2
    <3>5. last = pos => ~(last < pos)
      BY <1>2
    <3>. QED
      BY <3>3, <3>4, <3>5
  <2>. HIDE DEF page
  <2>5. \A p \in Pages : p = page => Due(p)'
    <3>1. fpc'[f] = "served" /\ cursor'[f] = cursor[f]
      BY <1>1, <2>1
    <3>2. cursor[f] + 1 > last => ~page.more
      BY <2>3, <2>4
    <3>. QED
      BY <2>3, <2>4, <3>1, <3>2 DEF Due
  <2>6. \A p \in Pages : Due(p) => Due(p)' /\ p.fill # f
    BY <1>1, <1>3, <2>1 DEF Due
  <2>7. \A i \in DOMAIN wire' : (i \in DOMAIN wire /\ wire'[i] = wire[i]) \/ (i = Len(wire) + 1 /\ wire'[i] = page)
    BY <1>2, <2>1, <2>4, AppendOf
  <2>8. /\ \A i \in DOMAIN wire : wire[i].kind = "page" => wire[i] \in Pages /\ Due(wire[i])
        /\ \A i, j \in DOMAIN wire :
             wire[i].kind = "page" /\ wire[j].kind = "page" /\ wire[j].fill = wire[i].fill => j = i
    BY <1>2, GapKinds DEF PagesAreDue
  <2>9. ASSUME NEW i \in DOMAIN wire', wire'[i].kind = "page"
        PROVE  wire'[i] \in Pages /\ \A p \in Pages : p = wire'[i] => Due(p)'
    BY <2>4, <2>5, <2>6, <2>7, <2>8, <2>9
  <2>10. ASSUME NEW i \in DOMAIN wire', wire'[i].kind = "page",
                NEW j \in DOMAIN wire', wire'[j].kind = "page", wire'[j].fill = wire'[i].fill
         PROVE  j = i
    BY <2>4, <2>6, <2>7, <2>8, <2>10
  <2>. QED
    BY <2>9, <2>10 DEF PagesAreDue, Due
<1>8. CASE ReadEvent
  <2>1. wire # <<>> /\ wire' = Tail(wire) /\ fpc' = fpc /\ cursor' = cursor
    BY <1>8 DEF ReadEvent
  <2>. QED
    BY <1>4, <2>1, DueKept
<1>9. CASE ReadGap
  <2>1. wire # <<>> /\ wire' = Tail(wire)
    BY <1>9 DEF ReadGap
  <2>2. CASE parking
    <3>1. fpc' = fpc /\ cursor' = cursor
      BY <1>9, <2>2 DEF ReadGap
    <3>. QED
      BY <1>4, <2>1, <3>1, DueKept
  <2>3. CASE ~parking
    <3>1. PICK f \in GapFills : /\ fpc[f] = "none" /\ fpc' = [fpc EXCEPT ![f] = "asking"]
                                /\ cursor' = [cursor EXCEPT ![f] = Head(wire).at]
      BY <1>9, <2>3 DEF ReadGap
    <3>2. \A p \in Pages : Due(p) => Due(p)'
      BY <1>1, <1>3, <3>1 DEF Due
    <3>. QED
      BY <2>1, <3>2, DueKept
  <2>. QED
    BY <2>2, <2>3
<1>10. CASE ReadPage
  <2>. DEFINE h == Head(wire)
  <2>1. wire # <<>> /\ wire' = Tail(wire) /\ h.kind = "page"
    BY <1>10 DEF ReadPage
  <2>2. h \in Pages /\ 1 \in DOMAIN wire /\ wire[1] = h
    BY <1>2, <2>1, GapKinds, TailOf
  <2>3. CASE UNCHANGED fill
    BY <1>4, <2>1, <2>3, DueKept
  <2>4. CASE TakePage(h.fill, h)
    <3>1. \A i \in DOMAIN wire, p \in Pages : i > 1 /\ wire[i] = p => p.fill # h.fill
      BY <1>3, <2>2 DEF PagesAreDue
    <3>. HIDE DEF h
    <3>2. \A f \in GapFills : f # h.fill => fpc'[f] = fpc[f] /\ cursor'[f] = cursor[f]
      BY <1>1, <2>4 DEF TakePage
    <3>3. \A p \in Pages : p.fill # h.fill /\ Due(p) => Due(p)'
      BY <1>3, <3>2 DEF Due
    <3>. QED
      BY <2>1, <3>1, <3>3, DueKept
  <2>. QED
    BY <1>10, <2>3, <2>4 DEF ReadPage
<1>11. CASE Stop \/ ReaderSend \/ ReadEnd \/ UNCHANGED gapVars
  <2>1. wire' = wire /\ fpc' = fpc /\ cursor' = cursor
    BY <1>11 DEF Stop, ReaderSend, ReadEnd, gapVars
  <2>. QED
    BY <1>4, <2>1, DueKept
<1>12. ASSUME NEW f \in GapFills, FillStep(f) PROVE PagesAreDue'
  <2>1. wire' = wire /\ \A g \in GapFills : /\ fpc'[g] = fpc[g] \/ fpc'[g] \in {"ending", "sending", "done"}
                                           /\ cursor'[g] = cursor[g]
    BY <1>1, <1>12 DEF FillStep, PageFails, Release, FillSend
  <2>. QED
    BY <1>4, <2>1, DueKept
<1>. QED
  BY <1>5, <1>6, <1>7, <1>8, <1>9, <1>10, <1>11, <1>12 DEF GapNext, ReaderTurn, GapFinished

LEMMA RunsOn ==
  ASSUME GapTypeInv, [GapNext]_gapVars, NEW f \in GapFills, NEW b \in 0..MaxCursor, RunsFrom(f, b),
         filled'[f] = filled[f],
         fpc'[f] \in {"asking", "served"} => fpc[f] \in {"asking", "served"} /\ cursor'[f] = cursor[f],
         \A a \in CursorsIn(parked') : b < a,
         gaps' <= 1 /\ ~abandoned' => \A a \in CursorsIn(out') : a <= b
  PROVE  RunsFrom(f, b)'
<1>1. b + Len(filled[f]) \in Nat
  BY SentSeqs, GapBounds
<1>2. /\ Behind(b + Len(filled[f])) /\ \A i \in DOMAIN filled[f] : filled[f][i].at = b + i
      /\ fpc[f] \in {"asking", "served"} => cursor[f] = b + Len(filled[f])
  BY DEF RunsFrom
<1>3. b + Len(filled[f]) <= pos' /\ \A i \in DOMAIN wire' : Before(b + Len(filled[f]), wire'[i])
  BY <1>1, <1>2, BehindStep
<1>. QED
  BY <1>2, <1>3 DEF RunsFrom, Behind

(* The pages of a fill are the cursors behind its gap, in order.             *)
LEMMA FilledIs ==
  ASSUME GapTypeInv, NEW f \in GapFills, NEW b \in 0..MaxCursor, RunsFrom(f, b)
  PROVE  CursorsIn(filled[f]) = (b + 1)..(b + Len(filled[f])) /\ Increasing(filled[f])
<1>1. /\ filled[f] \in Seq(Events) /\ Len(filled[f]) \in Nat /\ DOMAIN filled[f] = 1..Len(filled[f])
      /\ b \in Nat
  BY SentSeqs, GapBounds
<1>2. \A i \in DOMAIN filled[f] : filled[f][i].at = b + i /\ filled[f][i].kind = "event"
  <2>1. \A i \in DOMAIN filled[f] : filled[f][i] \in Events
    BY <1>1, ElementOfSeq
  <2>. QED
    BY <2>1, GapKinds DEF RunsFrom
<1>3. CursorsIn(filled[f]) \subseteq (b + 1)..(b + Len(filled[f]))
  BY <1>1, <1>2 DEF CursorsIn
<1>4. ASSUME NEW a \in (b + 1)..(b + Len(filled[f])) PROVE a \in CursorsIn(filled[f])
  <2>1. a - b \in DOMAIN filled[f] /\ b + (a - b) = a
    BY <1>1
  <2>. QED
    BY <1>2, <2>1 DEF CursorsIn
<1>5. Increasing(filled[f])
  BY <1>1, <1>2 DEF Increasing
<1>. QED
  BY <1>3, <1>4, <1>5

(* With one gap, a fill at work that was not given up on parks the session.  *)
LEMMA OnlyFill ==
  ASSUME GapInv, gaps <= 1, NEW f \in GapFills, Active(f)
  PROVE  /\ ~abandoned => parking
         /\ readerOut # <<>> => abandoned
         /\ \A g \in GapFills : g # f => fpc[g] = "none"
<1>1. OneFill
  BY DEF GapInv, OneGap
<1>2. Started(f)
  BY DEF Active, Started
<1>. QED
  BY <1>1, <1>2 DEF OneFill, Started

LEMMA FillsRunStep ==
  ASSUME GapInv, [GapNext]_gapVars
  PROVE  FillsRun'
<1>. USE DEF server, gapState, fill
<1>1. GapTypeInv /\ WireInOrder /\ PagesAreDue /\ FillsRun /\ SentInOrder /\ (gaps <= 1 => OneFill)
  BY DEF GapInv, Order, OneGap
<1>2. /\ fpc \in [GapFills -> {"none", "asking", "served", "ending", "sending", "done"}]
      /\ cursor \in [GapFills -> 0..MaxCursor] /\ aborted \in [GapFills -> BOOLEAN]
      /\ filled \in [GapFills -> Seq(Events)] /\ fillOut \in [GapFills -> Seq(Sent)]
      /\ gaps \in Nat /\ \A f \in GapFills : cursor[f] \in Nat
  BY <1>1, FillTypes
<1>3. /\ out \in Seq(Sent) /\ readerOut \in Seq(Sent)
      /\ wire \in Seq(Parkable \cup Pages) /\ pos \in Nat
      /\ \A f \in GapFills : Len(filled[f]) \in Nat /\ DOMAIN filled[f] = 1..Len(filled[f])
  BY <1>1, SentSeqs
<1>4. \A f \in GapFills : Active(f) => \E b \in 0..MaxCursor : RunsFrom(f, b)
  BY <1>1 DEF FillsRun, FillRuns
(* A step that changes nothing of a fill but its end.                        *)
<1>5. ASSUME NEW f \in GapFills,
             filled'[f] = filled[f], cursor'[f] = cursor[f],
             fpc'[f] # "none" \/ aborted'[f] = aborted[f],
             fpc'[f] = fpc[f] \/ (fpc[f] = "asking" /\ fpc'[f] = "served")
               \/ (fpc[f] \in {"asking", "served"} /\ fpc'[f] = "ending"),
             fpc'[f] = "sending" \/ fillOut'[f] = fillOut[f],
             Active(f) => \A b \in 0..MaxCursor : RunsFrom(f, b) =>
                            /\ \A a \in CursorsIn(parked') : b < a
                            /\ gaps' <= 1 /\ ~abandoned' => \A a \in CursorsIn(out') : a <= b
      PROVE  FillRuns(f)'
  <2>1. CASE Active(f)
    <3>1. PICK b \in 0..MaxCursor : RunsFrom(f, b)
      BY <1>4, <2>1
    <3>2. RunsFrom(f, b)'
      BY <1>1, <1>5, <2>1, <3>1, RunsOn
    <3>3. (fpc'[f] = "none" => FALSE) /\ (fpc'[f] # "sending" => fillOut'[f] = <<>>)
      BY <1>1, <1>5, <2>1 DEF Active, FillsRun, FillRuns
    <3>. QED
      BY <3>2, <3>3 DEF FillRuns
  <2>2. CASE ~Active(f)
    BY <1>1, <1>2, <1>5, <2>2 DEF Active, FillsRun, FillRuns
  <2>. QED
    BY <2>1, <2>2
<1>6. \A f \in GapFills, b \in 0..MaxCursor : Active(f) /\ RunsFrom(f, b) =>
         /\ \A a \in CursorsIn(parked) : b < a
         /\ gaps <= 1 /\ ~abandoned => \A a \in CursorsIn(out) : a <= b
  BY DEF RunsFrom
<1>7. CASE Produce \/ Skip \/ Stop \/ UNCHANGED gapVars
  <2>1. /\ UNCHANGED <<gapState, readerOut, fill, out>> /\ (gaps' <= 1 => gaps <= 1)
    BY <1>2, <1>7 DEF Produce, Skip, Stop, gapVars
  <2>. QED
    BY <1>5, <1>6, <2>1 DEF FillsRun
<1>8. ASSUME NEW f \in GapFills, ServePage(f) PROVE FillsRun'
  <2>1. /\ UNCHANGED <<gaps, gapState, readerOut, cursor, pages, filled, aborted, fillOut, out>>
        /\ \A g \in GapFills : fpc'[g] = fpc[g] \/ (fpc[g] = "asking" /\ fpc'[g] = "served")
    BY <1>2, <1>8 DEF ServePage
  <2>. QED
    BY <1>5, <1>6, <2>1 DEF FillsRun
(* A dispatch: what it parks is behind the pages, and with one gap it passes *)
(* nothing on while a fill may still splice.                                 *)
<1>9. ASSUME NEW e \in Parkable, Dispatch(e), wire # <<>>, e = Head(wire), UNCHANGED <<server, fill>>
      PROVE  FillsRun'
  <2>1. ASSUME NEW f \in GapFills, NEW b \in 0..MaxCursor, Active(f), RunsFrom(f, b)
        PROVE  /\ \A a \in CursorsIn(parked') : b < a
               /\ gaps' <= 1 /\ ~abandoned' => \A a \in CursorsIn(out') : a <= b
    <3>1. \A a \in Its(e) : b < a
      <4>1. Before(b + Len(filled[f]), e)
        <5>1. 1 \in DOMAIN wire /\ wire[1] = e
          BY <1>3, <1>9, TailOf
        <5>. QED
          BY <2>1, <5>1 DEF RunsFrom, Behind
      <4>2. e.at \in Nat /\ b \in Nat
        BY GapKinds, GapBounds
      <4>. QED
        BY <1>3, <4>1, <4>2 DEF Before, Its
    <3>2. PassedOn(e) \/ ParkedBehind(e) \/ GivenUp(e)
      BY <1>1, <1>9, DispatchDoes
    <3>3. CursorsIn(<<>>) = {}
      BY NothingIn
    <3>4. CASE PassedOn(e)
      <4>1. gaps <= 1 /\ ~abandoned => parking
        BY <2>1, OnlyFill
      <4>. QED
        BY <1>6, <1>9, <2>1, <3>4, <4>1 DEF PassedOn
    <3>5. CASE ParkedBehind(e)
      BY <1>6, <1>9, <2>1, <3>1, <3>5 DEF ParkedBehind
    <3>6. CASE GivenUp(e)
      BY <3>3, <3>6 DEF GivenUp
    <3>. QED
      BY <3>2, <3>4, <3>5, <3>6
  <2>. QED
    BY <1>5, <1>9, <2>1 DEF FillsRun
<1>10. CASE ReadEvent
  <2>1. Head(wire) \in Parkable
    BY <1>1, <1>10, WireHead DEF ReadEvent
  <2>. QED
    BY <1>9, <1>10, <2>1 DEF ReadEvent
<1>11. CASE ReadGap
  <2>1. Head(wire) \in Parkable /\ Head(wire).kind = "gap" /\ wire # <<>> /\ wire' = Tail(wire)
    BY <1>1, <1>11, WireHead DEF ReadGap
  <2>2. CASE parking
    BY <1>9, <1>11, <2>1, <2>2 DEF ReadGap
  <2>3. CASE ~parking
    <3>0. PICK b \in 0..MaxCursor : b = Head(wire).at
      BY <2>1, GapKinds
    <3>1. PICK f \in GapFills :
            /\ fpc[f] = "none"
            /\ parking' = TRUE /\ parked' = <<Head(wire)>>
            /\ fpc' = [fpc EXCEPT ![f] = "asking"]
            /\ cursor' = [cursor EXCEPT ![f] = b]
            /\ UNCHANGED <<abandoned, readerOut, pages, filled, aborted, fillOut, out, server>>
      BY <1>11, <2>3, <3>0 DEF ReadGap
    <3>2. b \in 0..MaxCursor /\ b \in Nat
      BY GapBounds
    <3>3. CursorsIn(parked') = {}
      BY <2>1, <3>1 DEF CursorsIn
    <3>4. fpc'[f] = "asking" /\ cursor'[f] = b /\ filled'[f] = <<>> /\ Len(filled'[f]) = 0 /\ fillOut'[f] = <<>>
      BY <1>1, <1>2, <3>1 DEF FillsRun, FillRuns
    <3>5. /\ b + 0 = b /\ Last(Head(wire)) = b
          /\ b <= pos' /\ \A i \in DOMAIN wire' : Before(b, wire'[i])
      BY <1>1, <2>1, <3>0, <3>1, <3>2, HeadIsNext DEF Last
    <3>6. \A a \in CursorsIn(out') : a <= b
      <4>1. \A a \in CursorsIn(out) : \A i \in DOMAIN wire : Before(a, wire[i])
        BY <1>1 DEF SentInOrder, Older, Behind
      <4>2. 1 \in DOMAIN wire /\ wire[1] = Head(wire)
        BY <1>3, <2>1, TailOf
      <4>. QED
        BY <2>1, <3>0, <3>1, <4>1, <4>2 DEF Before
    <3>7. RunsFrom(f, b)'
      <4>1. Behind(b)'
        BY <3>5 DEF Behind
      <4>. QED
        BY <3>3, <3>4, <3>5, <3>6, <4>1 DEF RunsFrom
    <3>8. FillRuns(f)'
      BY <3>2, <3>4, <3>7 DEF FillRuns
    <3>9. ASSUME NEW g \in GapFills, g # f PROVE FillRuns(g)'
      <4>1. fpc'[g] = fpc[g] /\ cursor'[g] = cursor[g]
        BY <1>2, <3>1, <3>9
      <4>. QED
        BY <1>5, <1>6, <3>1, <3>3, <4>1
    <3>. QED
      BY <3>8, <3>9 DEF FillsRun
  <2>. QED
    BY <2>2, <2>3
<1>12. CASE ReadPage
  <2>0. Head(wire) \in Pages /\ Head(wire).kind = "page" /\ wire # <<>> /\ wire' = Tail(wire)
        /\ UNCHANGED <<server, gapState, readerOut, out>>
    BY <1>1, <1>12, WireHead DEF ReadPage
  <2>4. PICK p \in Pages : p = Head(wire)
    BY <2>0
  <2>5. PICK f \in GapFills : f = p.fill
    BY GapKinds
  <2>1. p \in Pages /\ p.kind = "page" /\ wire # <<>> /\ wire' = Tail(wire) /\ UNCHANGED <<server, gapState, readerOut, out>>
    BY <2>0, <2>4
  <2>2. CASE UNCHANGED fill
    BY <1>5, <1>6, <2>1, <2>2 DEF FillsRun
  <2>3. CASE fpc[f] = "served" /\ TakePage(f, p)
    <3>1. f \in GapFills /\ p.lo \in Nat /\ p.hi \in Nat
      BY <2>1, GapKinds, GapBounds
    <3>2. Due(p)
      <4>1. 1 \in DOMAIN wire /\ wire[1] = p
        BY <1>3, <2>1, <2>4, TailOf
      <4>. QED
        BY <1>1, <2>1, <4>1 DEF PagesAreDue
    <3>3. /\ p.hi <= pos' /\ \A i \in DOMAIN wire' : Before(p.hi, wire'[i])
      BY <1>1, <2>1, <2>4, HeadIsNext DEF Last
    <3>4. p.lo = cursor[f] + 1 /\ cursor[f] <= p.hi
      BY <2>3, <2>5, <3>2 DEF Due
    <3>5. PICK b \in 0..MaxCursor : RunsFrom(f, b)
      BY <1>4, <2>3, <3>1 DEF Active
    <3>. DEFINE n == Len(filled[f])
    <3>6. cursor[f] = b + n /\ \A i \in DOMAIN filled[f] : filled[f][i].at = b + i
      BY <2>3, <3>5 DEF RunsFrom
    <3>7. b \in Nat /\ n \in Nat /\ DOMAIN filled[f] = 1..n
      BY <1>3, <3>1, GapBounds
    <3>. HIDE DEF n
    <3>8. p.lo <= p.hi + 1
      BY <1>2, <3>1, <3>4
    <3>9. /\ fillOut' = fillOut
          /\ \A g \in GapFills : g # f => /\ filled'[g] = filled[g] /\ cursor'[g] = cursor[g]
                                          /\ aborted'[g] = aborted[g] /\ fpc'[g] = fpc[g]
          /\ Len(filled'[f]) = n + (p.hi - p.lo + 1)
          /\ DOMAIN filled'[f] = 1..Len(filled'[f])
          /\ \A i \in DOMAIN filled'[f] :
               \/ i \in DOMAIN filled[f] /\ filled'[f][i] = filled[f][i]
               \/ i > n /\ filled'[f][i].at = p.lo + (i - n) - 1
          /\ \/ fpc'[f] = "asking" /\ cursor'[f] = p.hi
             \/ fpc'[f] = "ending"
      BY <1>1, <2>1, <2>3, <3>1, <3>8, TakePageDoes DEF n
    <3>10. b + Len(filled'[f]) = p.hi /\ Len(filled'[f]) \in Nat
      BY <3>1, <3>4, <3>6, <3>7, <3>9
    <3>11. \A i \in DOMAIN filled'[f] : filled'[f][i].at = b + i
      <4>. SUFFICES ASSUME NEW i \in DOMAIN filled'[f] PROVE filled'[f][i].at = b + i
        OBVIOUS
      <4>1. i \in Nat
        BY <3>9, <3>10
      <4>2. CASE i > n /\ filled'[f][i].at = p.lo + (i - n) - 1
        BY <3>1, <3>4, <3>6, <3>7, <4>1, <4>2
      <4>. QED
        BY <3>6, <3>9, <4>2
    <3>12. RunsFrom(f, b)'
      <4>1. Behind(b + Len(filled[f]))'
        BY <3>3, <3>10 DEF Behind
      <4>2. (fpc[f] \in {"asking", "served"} => cursor[f] = b + Len(filled[f]))'
        BY <3>9, <3>10
      <4>3. /\ \A a \in CursorsIn(parked) : b < a
            /\ gaps <= 1 /\ ~abandoned => \A a \in CursorsIn(out) : a <= b
        BY <3>5 DEF RunsFrom
      <4>. QED
        BY <2>1, <3>11, <4>1, <4>2, <4>3 DEF RunsFrom
    <3>13. FillRuns(f)'
      <4>1. fillOut[f] = <<>>
        BY <1>1, <2>3, <3>1 DEF FillsRun, FillRuns
      <4>. QED
        BY <3>9, <3>12, <4>1 DEF FillRuns
    <3>14. ASSUME NEW g \in GapFills, g # f PROVE FillRuns(g)'
      BY <1>5, <1>6, <2>1, <3>9, <3>14
    <3>. QED
      BY <3>13, <3>14 DEF FillsRun
  <2>. QED
    BY <1>12, <2>2, <2>3, <2>4, <2>5 DEF ReadPage
<1>13. CASE ReaderSend
  <2>1. UNCHANGED <<server, wire, gapState, fill>> /\ readerOut # <<>>
    BY <1>13 DEF ReaderSend
  <2>2. ASSUME NEW f \in GapFills, Active(f), gaps <= 1 PROVE abandoned
    BY <2>1, <2>2, OnlyFill
  <2>. QED
    BY <1>2, <1>5, <1>6, <2>1, <2>2 DEF FillsRun
<1>14. CASE ReadEnd
  <2>1. UNCHANGED <<pos, gaps, wire, gapState, readerOut, fill>> /\ out' = Append(out, ClosedEvent)
    BY <1>14 DEF ReadEnd
  <2>2. CursorsIn(out') = CursorsIn(out)
    <3>1. ClosedEvent \in Sent /\ ClosedEvent.kind # "event"
      BY GapKinds
    <3>2. CursorsIn(Append(out, ClosedEvent)) = CursorsIn(out) \cup (IF ClosedEvent.kind = "event" THEN {ClosedEvent.at} ELSE {})
      BY <1>3, <3>1, AppendOf
    <3>. QED
      BY <2>1, <3>1, <3>2
  <2>. QED
    BY <1>5, <1>6, <2>1, <2>2 DEF FillsRun
<1>15. ASSUME NEW f \in GapFills, PageFails(f) PROVE FillsRun'
  <2>1. /\ UNCHANGED <<server, wire, gapState, readerOut, cursor, pages, filled, fillOut, out>>
        /\ fpc[f] \in {"asking", "served"} /\ fpc'[f] = "ending"
        /\ \A g \in GapFills : g # f => fpc'[g] = fpc[g] /\ aborted'[g] = aborted[g]
    BY <1>2, <1>15 DEF PageFails
  <2>2. FillRuns(f)'
    BY <1>5, <1>6, <2>1
  <2>3. ASSUME NEW g \in GapFills, g # f PROVE FillRuns(g)'
    BY <1>5, <1>6, <2>1, <2>3
  <2>. QED
    BY <2>2, <2>3 DEF FillsRun
<1>16. ASSUME NEW f \in GapFills, Release(f) PROVE FillsRun'
  <2>1. fpc[f] = "ending" /\ Active(f)
    BY <1>16 DEF Release, Active
  <2>2. ASSUME NEW g \in GapFills, g # f, Active(g) PROVE ~(gaps <= 1)
    BY <2>1, <2>2, OnlyFill DEF Active
  <2>3. CASE abandoned
    <3>1. /\ UNCHANGED <<gaps, parking, parked, fillOut, cursor, filled, aborted, out>>
          /\ fpc'[f] = "done" /\ \A g \in GapFills : g # f => fpc'[g] = fpc[g]
      BY <1>2, <1>16, <2>3 DEF Release
    <3>2. FillRuns(f)'
      BY <1>1, <2>1, <3>1 DEF FillsRun, FillRuns, Active
    <3>3. ASSUME NEW g \in GapFills, g # f PROVE FillRuns(g)'
      BY <1>5, <1>6, <2>2, <3>1, <3>3
    <3>. QED
      BY <3>2, <3>3 DEF FillsRun
  <2>4. CASE ~abandoned
    <3>1. /\ UNCHANGED <<gaps, cursor, filled, aborted, out>> /\ parked' = <<>>
          /\ fpc'[f] = "sending" /\ \A g \in GapFills : g # f => fillOut'[g] = fillOut[g] /\ fpc'[g] = fpc[g]
      BY <1>1, <1>16, <2>4, ReleaseDoes
    <3>2. FillRuns(f)'
      BY <3>1 DEF FillRuns, Active
    <3>3. ASSUME NEW g \in GapFills, g # f PROVE FillRuns(g)'
      <4>1. CursorsIn(parked') = {}
        BY <3>1, NothingIn
      <4>. QED
        BY <1>5, <1>6, <2>2, <3>1, <3>3, <4>1
    <3>. QED
      BY <3>2, <3>3 DEF FillsRun
  <2>. QED
    BY <2>3, <2>4
<1>17. ASSUME NEW f \in GapFills, FillSend(f) PROVE FillsRun'
  <2>1. /\ fpc[f] = "sending" /\ UNCHANGED <<gaps, parked, abandoned, cursor, filled, aborted>>
        /\ \A g \in GapFills : g # f => fillOut'[g] = fillOut[g] /\ fpc'[g] = fpc[g]
        /\ fpc'[f] = "sending" \/ (fpc'[f] = "done" /\ fillOut'[f] = <<>>)
    BY <1>1, <1>17, FillSendDoes
  <2>2. ASSUME NEW g \in GapFills, Active(g) PROVE g # f /\ ~(gaps <= 1)
    BY <2>1, <2>2, OnlyFill DEF Active
  <2>3. FillRuns(f)'
    BY <2>1 DEF FillRuns, Active
  <2>4. ASSUME NEW g \in GapFills, g # f PROVE FillRuns(g)'
    BY <1>5, <1>6, <2>1, <2>2, <2>4
  <2>. QED
    BY <2>3, <2>4 DEF FillsRun
<1>. QED
  BY <1>7, <1>8, <1>10, <1>11, <1>12, <1>13, <1>14, <1>15, <1>16, <1>17 DEF GapNext, ReaderTurn, FillStep, GapFinished

LEMMA SentInOrderStep ==
  ASSUME GapInv, [GapNext]_gapVars
  PROVE  SentInOrder'
<1>. USE DEF server, gapState, fill
<1>. DEFINE Past(a) == a <= pos' /\ \A i \in DOMAIN wire' : Before(a, wire'[i])
<1>1. GapTypeInv /\ WireInOrder /\ FillsRun /\ SentInOrder
  BY DEF GapInv, Order
<1>2. /\ fpc \in [GapFills -> {"none", "asking", "served", "ending", "sending", "done"}]
      /\ fillOut \in [GapFills -> Seq(Sent)]
  BY <1>1, FillTypes
<1>3. /\ out \in Seq(Sent) /\ readerOut \in Seq(Sent) /\ parked \in Seq(Sent)
      /\ \A f \in GapFills : fillOut[f] \in Seq(Sent) /\ filled[f] \in Seq(Sent) /\ Len(filled[f]) \in Nat
      /\ wire \in Seq(Parkable \cup Pages) /\ pos \in Nat
  BY <1>1, SentSeqs
<1>4. /\ \A a \in CursorsIn(out) : Past(a)
      /\ \A a \in CursorsIn(readerOut) : Past(a)
      /\ \A a \in CursorsIn(parked) : Past(a)
      /\ \A f \in GapFills : \A a \in CursorsIn(fillOut[f]) : Past(a)
  <2>1. \A n \in Nat : Behind(n) => Past(n)
    BY <1>1, BehindStep
  <2>2. \A q \in Seq(Sent) : Older(q) => \A a \in CursorsIn(q) : Past(a)
    BY <2>1, CursorTypes DEF Older
  <2>. QED
    BY <1>1, <1>3, <2>2 DEF SentInOrder
<1>5. /\ Increasing(parked) /\ Increasing(readerOut) /\ \A f \in GapFills : Increasing(fillOut[f])
      /\ ~parking => parked = <<>>
  BY <1>1 DEF SentInOrder
<1>6. ASSUME \A a \in CursorsIn(out') : Past(a), \A a \in CursorsIn(readerOut') : Past(a),
             \A a \in CursorsIn(parked') : Past(a), \A f \in GapFills : \A a \in CursorsIn(fillOut'[f]) : Past(a),
             Increasing(parked'), Increasing(readerOut'), \A f \in GapFills : Increasing(fillOut'[f]),
             ~parking' => parked' = <<>>
      PROVE  SentInOrder'
  BY <1>6 DEF SentInOrder, Older, Behind
<1>7. CursorsIn(<<>>) = {} /\ Increasing(<<>>)
  BY NothingIn
<1>. HIDE DEF Past
(* Steps that send and park nothing.                                         *)
<1>8. CASE UNCHANGED <<parking, parked, readerOut, out, fillOut>>
  BY <1>4, <1>5, <1>6, <1>8
<1>9. CASE Produce \/ Skip \/ Stop \/ ReadPage \/ UNCHANGED gapVars
  <2>1. UNCHANGED <<parking, parked, readerOut, out, fillOut>>
    BY <1>9 DEF Produce, Skip, Stop, ReadPage, TakePage, gapVars
  <2>. QED
    BY <1>8, <2>1
<1>10. ASSUME NEW f \in GapFills, ServePage(f) \/ PageFails(f) PROVE SentInOrder'
  <2>1. UNCHANGED <<parking, parked, readerOut, out, fillOut>>
    BY <1>10 DEF ServePage, PageFails
  <2>. QED
    BY <1>8, <2>1
<1>11. ASSUME NEW e \in Parkable, Dispatch(e), wire # <<>>, e = Head(wire), wire' = Tail(wire), readerOut = <<>>,
              UNCHANGED <<server, fill>>
       PROVE  SentInOrder'
  <2>1. \A n \in Its(e) : Past(n)
    <3>1. Last(Head(wire)) <= pos' /\ \A i \in DOMAIN wire' : Before(Last(Head(wire)), wire'[i])
      BY <1>1, <1>11, HeadIsNext
    <3>2. e.kind # "page" /\ Last(e) = e.at
      BY GapKinds DEF Last
    <3>. QED
      BY <1>11, <3>1, <3>2 DEF Its, Past
  <2>2. \A n \in CursorsIn(parked), a \in Its(e) : n < a
    <3>1. 1 \in DOMAIN wire /\ wire[1] = e
      BY <1>3, <1>11, TailOf
    <3>2. \A n \in CursorsIn(parked) : Before(n, e)
      BY <1>1, <3>1 DEF SentInOrder, Older, Behind
    <3>. QED
      BY <3>2 DEF Before, Its
  <2>3. PassedOn(e) \/ ParkedBehind(e) \/ GivenUp(e)
    BY <1>1, <1>11, DispatchDoes
  <2>4. fillOut' = fillOut
    BY <1>11
  <2>5. CASE PassedOn(e)
    BY <1>4, <1>5, <1>6, <2>1, <2>4, <2>5 DEF PassedOn
  <2>6. CASE ParkedBehind(e)
    BY <1>4, <1>5, <1>6, <2>1, <2>2, <2>4, <2>6 DEF ParkedBehind
  <2>7. CASE GivenUp(e)
    BY <1>4, <1>5, <1>6, <1>7, <2>1, <2>2, <2>4, <2>7 DEF GivenUp
  <2>. QED
    BY <2>3, <2>5, <2>6, <2>7
<1>12. CASE ReadEvent
  <2>1. Head(wire) \in Parkable
    BY <1>1, <1>12, WireHead DEF ReadEvent
  <2>. QED
    BY <1>11, <1>12, <2>1 DEF ReadEvent
<1>13. CASE ReadGap
  <2>1. Head(wire) \in Parkable /\ Head(wire).kind = "gap"
    BY <1>1, <1>13, WireHead DEF ReadGap
  <2>2. CASE parking
    BY <1>11, <1>13, <2>1, <2>2 DEF ReadGap
  <2>3. CASE ~parking
    <3>1. parking' /\ parked' = <<Head(wire)>> /\ UNCHANGED <<readerOut, fillOut, out>>
      BY <1>13, <2>3 DEF ReadGap
    <3>2. CursorsIn(parked') = {} /\ Increasing(parked')
      BY <2>1, <3>1 DEF CursorsIn, Increasing
    <3>. QED
      BY <1>4, <1>5, <1>6, <3>1, <3>2
  <2>. QED
    BY <2>2, <2>3
<1>14. CASE ReaderSend
  <2>1. /\ readerOut # <<>> /\ out' = Append(out, Head(readerOut)) /\ readerOut' = Tail(readerOut)
        /\ UNCHANGED <<parking, parked, fillOut>>
    BY <1>14 DEF ReaderSend
  <2>2. /\ Head(readerOut) \in Sent /\ Increasing(Tail(readerOut))
        /\ CursorsIn(readerOut) = CursorsIn(readerOut') \cup Its(Head(readerOut))
    BY <1>3, <1>5, <2>1, TailOf DEF Its
  <2>3. CursorsIn(out') = CursorsIn(out) \cup Its(Head(readerOut))
    BY <1>3, <2>1, <2>2, AppendOf DEF Its
  <2>. QED
    BY <1>4, <1>5, <1>6, <2>1, <2>2, <2>3
<1>15. CASE ReadEnd
  <2>1. UNCHANGED <<parking, parked, readerOut, fillOut>> /\ out' = Append(out, ClosedEvent)
    BY <1>15 DEF ReadEnd
  <2>2. CursorsIn(out') = CursorsIn(out) \cup Its(ClosedEvent) /\ ClosedEvent.kind # "event"
    <3>1. ClosedEvent \in Sent /\ ClosedEvent.kind # "event"
      BY GapKinds
    <3>2. CursorsIn(Append(out, ClosedEvent)) = CursorsIn(out) \cup Its(ClosedEvent)
      BY <1>3, <3>1, AppendOf DEF Its
    <3>. QED
      BY <2>1, <3>1, <3>2
  <2>. QED
    BY <1>4, <1>5, <1>6, <2>1, <2>2 DEF Its
<1>16. ASSUME NEW f \in GapFills, Release(f) PROVE SentInOrder'
  <2>1. CASE abandoned
    <3>1. UNCHANGED <<parking, parked, readerOut, out, fillOut>>
      BY <1>16, <2>1 DEF Release
    <3>. QED
      BY <1>8, <3>1
  <2>2. CASE ~abandoned
    <3>1. /\ fpc[f] = "ending" /\ ~parking' /\ parked' = <<>> /\ UNCHANGED <<readerOut, out>>
          /\ \A g \in GapFills : g # f => fillOut'[g] = fillOut[g]
          /\ CursorsIn(fillOut'[f]) = CursorsIn(filled[f]) \cup CursorsIn(parked)
          /\ Increasing(filled[f]) /\ Increasing(parked)
              /\ (\A a \in CursorsIn(filled[f]), b \in CursorsIn(parked) : b \in CursorsIn(filled[f]) \/ a < b)
                => Increasing(fillOut'[f])
      BY <1>1, <1>16, <2>2, ReleaseDoes
    <3>2. PICK b \in 0..MaxCursor : RunsFrom(f, b)
      BY <1>1, <3>1 DEF FillsRun, FillRuns, Active
    <3>. DEFINE n == b + Len(filled[f])
    <3>3. b \in Nat /\ n \in Nat
      BY <1>3, GapBounds
    <3>4. CursorsIn(filled[f]) = (b + 1)..n /\ Increasing(filled[f])
      BY <1>1, <3>2, FilledIs
    <3>5. Behind(n) /\ \A a \in CursorsIn(parked) : b < a
      BY <3>2 DEF RunsFrom
    <3>. HIDE DEF n
    <3>6. \A a \in CursorsIn(filled[f]) : Past(a)
      <4>1. Past(n)
        BY <1>1, <3>3, <3>5, BehindStep DEF Past
      <4>2. \A e \in Parkable \cup Pages : e.kind \in {"event", "gap"} => e.at \in Nat
        BY GapKinds, GapBounds
      <4>3. pos' = pos /\ wire' = wire
        BY <1>16 DEF Release
      <4>4. \A i \in DOMAIN wire' : wire'[i] \in Parkable \cup Pages
        BY <1>1, <4>3, SentSeqs
      <4>. QED
        BY <1>3, <3>3, <3>4, <4>1, <4>2, <4>3, <4>4 DEF Past, Before
    <3>7. \A c \in CursorsIn(parked) : c \in Nat
      BY <1>3, CursorTypes
    <3>8. \A a \in CursorsIn(filled[f]), c \in CursorsIn(parked) : c \in CursorsIn(filled[f]) \/ a < c
      BY <3>3, <3>4, <3>5, <3>7
    <3>9. Increasing(fillOut'[f])
      BY <1>5, <3>1, <3>4, <3>8
    <3>. QED
      BY <1>4, <1>5, <1>6, <1>7, <3>1, <3>6, <3>9
  <2>. QED
    BY <2>1, <2>2
<1>17. ASSUME NEW f \in GapFills, FillSend(f) PROVE SentInOrder'
  <2>1. /\ UNCHANGED <<parking, parked, readerOut>>
        /\ \A g \in GapFills : g # f => fillOut'[g] = fillOut[g]
        /\ \/ UNCHANGED <<fillOut, out>>
           \/ \E e \in Sent :
                /\ CursorsIn(out') = CursorsIn(out) \cup Its(e)
                /\ CursorsIn(fillOut[f]) = CursorsIn(fillOut'[f]) \cup Its(e)
                /\ Increasing(fillOut[f]) => Increasing(fillOut'[f])
    BY <1>1, <1>17, FillSendDoes
  <2>2. CASE UNCHANGED <<fillOut, out>>
    BY <1>8, <2>1, <2>2
  <2>3. CASE \E e \in Sent :
                /\ CursorsIn(out') = CursorsIn(out) \cup Its(e)
                /\ CursorsIn(fillOut[f]) = CursorsIn(fillOut'[f]) \cup Its(e)
                /\ Increasing(fillOut[f]) => Increasing(fillOut'[f])
    BY <1>4, <1>5, <1>6, <2>1, <2>3
  <2>. QED
    BY <2>1, <2>2, <2>3
<1>. QED
  BY <1>9, <1>10, <1>12, <1>13, <1>14, <1>15, <1>16, <1>17 DEF GapNext, ReaderTurn, FillStep, GapFinished

-----------------------------------------------------------------------------
(* The event plane with one gap: one fill.                                   *)

LEMMA GapsKept ==
  ASSUME GapTypeInv, NEW d \in {0, 1},
         \/ d = 0 /\ wire' = wire
         \/ d = 1 /\ wire # <<>> /\ wire' = Tail(wire)
         \/ d = 0 /\ \E e \in Parkable \cup Pages : e.kind # "gap" /\ wire' = Append(wire, e)
  PROVE  \A i \in DOMAIN wire' : wire'[i].kind = "gap" =>
            i \in Nat /\ i + d > d /\ i + d \in DOMAIN wire /\ wire'[i] = wire[i + d] /\ GapAt(i + d)
<1>1. wire \in Seq(Parkable \cup Pages) /\ DOMAIN wire = 1..Len(wire) /\ Len(wire) \in Nat
  BY SentSeqs
<1>. SUFFICES ASSUME NEW i \in DOMAIN wire', wire'[i].kind = "gap"
              PROVE  i \in Nat /\ i + d > d /\ i + d \in DOMAIN wire /\ wire'[i] = wire[i + d]
  BY DEF GapAt
<1>2. CASE d = 0 /\ wire' = wire
  BY <1>1, <1>2
<1>3. CASE d = 1 /\ wire # <<>> /\ wire' = Tail(wire)
  <2>1. i \in Nat \ {0} /\ i + 1 \in DOMAIN wire /\ wire'[i] = wire[i + 1]
    BY <1>1, <1>3, TailOf
  <2>. QED
    BY <1>3, <2>1
<1>4. ASSUME NEW e \in Parkable \cup Pages, d = 0, e.kind # "gap", wire' = Append(wire, e)
      PROVE  i \in Nat /\ i + d > d /\ i + d \in DOMAIN wire /\ wire'[i] = wire[i + d]
  <2>1. wire \in Seq(Parkable \cup Pages) /\ wire' = Append(wire, e)
    BY <1>1, <1>4
  <2>2. /\ DOMAIN Append(wire, e) = 1..(Len(wire) + 1)
        /\ \A k \in 1..(Len(wire) + 1) :
             \/ k \in DOMAIN wire /\ Append(wire, e)[k] = wire[k]
             \/ k = Len(wire) + 1 /\ Append(wire, e)[k] = e
    BY <2>1, AppendOf
  <2>3. i \in DOMAIN wire /\ wire'[i] = wire[i]
    BY <1>4, <2>1, <2>2
  <2>4. i \in Nat /\ i > 0 /\ i + 0 = i
    BY <1>1, <2>3
  <2>. QED
    BY <1>4, <2>3, <2>4
<1>. QED
  BY <1>2, <1>3, <1>4

LEMMA OneFillStep ==
  ASSUME GapInv, [GapNext]_gapVars, gaps' <= 1
  PROVE  gaps <= 1 /\ OneFill'
<1>. USE DEF server, gapState, fill
<1>1. GapTypeInv /\ FillsRun
  BY DEF GapInv, Order
<1>2. /\ fpc \in [GapFills -> {"none", "asking", "served", "ending", "sending", "done"}]
      /\ gaps \in Nat
  BY <1>1, FillTypes
<1>3. /\ wire \in Seq(Parkable \cup Pages) /\ DOMAIN wire = 1..Len(wire) /\ Len(wire) \in Nat
  BY <1>1, SentSeqs
<1>4. gaps <= 1
  <2>1. gaps' = gaps \/ gaps' = gaps + 1
    BY DEF GapNext, ReaderTurn, FillStep, GapFinished, gapVars, Produce, Skip, Stop, ServePage, ReadEvent, ReadGap,
           ReadPage, ReaderSend, ReadEnd, PageFails, Release, FillSend
  <2>. QED
    BY <1>2, <2>1
<1>5. OneFill
  BY <1>4 DEF GapInv, OneGap
(* Steps that start and end no fill and announce no gap.                     *)
<1>6. ASSUME NEW d \in {0, 1},
             \/ d = 0 /\ wire' = wire
             \/ d = 1 /\ wire # <<>> /\ wire' = Tail(wire)
             \/ d = 0 /\ \E e \in Parkable \cup Pages : e.kind # "gap" /\ wire' = Append(wire, e),
             gaps' = gaps,
             \A f \in GapFills : (fpc'[f] # "none") <=> Started(f),
             \A f \in GapFills : (fpc'[f] \in {"asking", "served", "ending"}) <=> Active(f),
             \A f \in GapFills : fpc'[f] = "sending" => fpc[f] = "sending",
             parking' = parking, abandoned' = abandoned,
             readerOut' # <<>> => readerOut # <<>>
      PROVE  OneFill'
  <2>1. \A i \in DOMAIN wire' : wire'[i].kind = "gap" =>
            i \in Nat /\ i + d > d /\ i + d \in DOMAIN wire /\ wire'[i] = wire[i + d] /\ GapAt(i + d)
    BY <1>1, <1>6, GapsKept
  <2>2. \A i, j \in DOMAIN wire' : wire'[i].kind = "gap" /\ wire'[j].kind = "gap" => i = j
    <3>. SUFFICES ASSUME NEW i \in DOMAIN wire', NEW j \in DOMAIN wire', wire'[i].kind = "gap", wire'[j].kind = "gap"
                  PROVE  i = j
      OBVIOUS
    <3>1. i + d = j + d /\ i \in Nat /\ j \in Nat
      BY <1>5, <2>1 DEF OneFill
    <3>. QED
      BY <3>1
  <2>3. \A f, g \in GapFills : fpc'[f] # "none" /\ fpc'[g] # "none" => f = g
    BY <1>5, <1>6 DEF OneFill
  <2>4. \A f \in GapFills, i \in DOMAIN wire' : ~(fpc'[f] # "none" /\ wire'[i].kind = "gap")
    BY <1>5, <1>6, <2>1 DEF OneFill
  <2>5. gaps' = 0 => (\A i \in DOMAIN wire' : wire'[i].kind # "gap") /\ \A f \in GapFills : fpc'[f] = "none"
    BY <1>5, <1>6, <2>1 DEF OneFill
  <2>6. parking' <=> ~abandoned' /\ \E f \in GapFills : fpc'[f] \in {"asking", "served", "ending"}
    BY <1>5, <1>6 DEF OneFill
  <2>7. abandoned' => \E f \in GapFills : fpc'[f] \in {"asking", "served", "ending"}
    BY <1>5, <1>6 DEF OneFill
  <2>8. readerOut' # <<>> => ~parking' /\ \A f \in GapFills : fpc'[f] # "sending"
    BY <1>5, <1>6 DEF OneFill
  <2>. QED
    BY <2>2, <2>3, <2>4, <2>5, <2>6, <2>7, <2>8 DEF OneFill, GapAt, Started, Active
<1>7. CASE Produce
  <2>1. Event(pos + 1) \in Parkable \cup Pages /\ Event(pos + 1).kind # "gap"
    <3>1. pos + 1 \in 1..MaxCursor
      BY <1>1, <1>7, SentSeqs, GapBounds DEF Produce
    <3>. QED
      BY <3>1, GapKinds
  <2>2. wire' = Append(wire, Event(pos + 1)) /\ UNCHANGED <<gaps, gapState, readerOut, fpc>>
    BY <1>7 DEF Produce
  <2>. QED
    BY <1>6, <2>1, <2>2 DEF Active, Started
<1>8. CASE Skip
  <2>1. gaps = 0 /\ gaps' = 1 /\ wire' = Append(wire, Gap(pos)) /\ UNCHANGED <<gapState, readerOut, fpc>>
    BY <1>2, <1>8 DEF Skip
  <2>2. (\A i \in DOMAIN wire : ~GapAt(i)) /\ \A f \in GapFills : ~Started(f)
    BY <1>5, <2>1 DEF OneFill
  <2>3. \A i \in DOMAIN wire' : (i \in DOMAIN wire /\ wire'[i] = wire[i]) \/ i = Len(wire) + 1
    <3>1. Gap(pos) \in Parkable \cup Pages
      BY <1>1, GapKinds, SentSeqs
    <3>2. /\ DOMAIN Append(wire, Gap(pos)) = 1..(Len(wire) + 1)
          /\ \A k \in 1..(Len(wire) + 1) :
               \/ k \in DOMAIN wire /\ Append(wire, Gap(pos))[k] = wire[k]
               \/ k = Len(wire) + 1 /\ Append(wire, Gap(pos))[k] = Gap(pos)
      BY <1>3, <3>1, AppendOf
    <3>. QED
      BY <2>1, <3>2
  <2>4. \A i, j \in DOMAIN wire' : wire'[i].kind = "gap" /\ wire'[j].kind = "gap" => i = j
    BY <2>2, <2>3 DEF GapAt
  <2>5. \A f \in GapFills : fpc'[f] = "none" /\ ~Active(f) /\ fpc[f] = "none"
    BY <2>1, <2>2 DEF Started, Active
  <2>6. ~parking' /\ ~abandoned' /\ readerOut' = readerOut
    BY <1>5, <2>1, <2>5 DEF OneFill
  <2>. QED
    BY <2>1, <2>4, <2>5, <2>6 DEF OneFill, GapAt, Started, Active
<1>9. ASSUME NEW f \in GapFills, ServePage(f) PROVE OneFill'
  <2>. DEFINE page == Page(f, cursor[f] + 1, IF cursor[f] + PageLimit < pos THEN cursor[f] + PageLimit ELSE pos)
  <2>1. /\ wire' = Append(wire, page) /\ UNCHANGED <<gaps, gapState, readerOut>>
        /\ fpc[f] = "asking" /\ fpc' = [fpc EXCEPT ![f] = "served"]
    BY <1>9 DEF ServePage
  <2>2. page \in Parkable \cup Pages /\ page.kind # "gap"
    <3>. DEFINE last == IF cursor[f] + PageLimit < pos THEN cursor[f] + PageLimit ELSE pos
    <3>1. last \in 0..MaxCursor /\ cursor[f] + 1 \in 1..(MaxCursor + 1)
      BY <1>1, GapBounds DEF GapTypeInv, GapTypeOK
    <3>. HIDE DEF last
    <3>2. Page(f, cursor[f] + 1, last) \in Pages /\ Page(f, cursor[f] + 1, last).kind = "page"
      BY <3>1 DEF Page, Pages
    <3>. QED
      BY <3>2 DEF last
  <2>. HIDE DEF page
  <2>3. \A g \in GapFills : fpc'[g] = IF g = f THEN "served" ELSE fpc[g]
    BY <1>2, <2>1
  <2>. QED
    BY <1>6, <2>1, <2>2, <2>3 DEF Active, Started
<1>10. ASSUME NEW e \in Parkable, Dispatch(e), wire # <<>>, wire' = Tail(wire), readerOut = <<>>, UNCHANGED <<server, fill>>
       PROVE  OneFill'
  <2>1. PassedOn(e) \/ ParkedBehind(e) \/ GivenUp(e)
    BY <1>1, <1>10, DispatchDoes
  <2>2. CASE PassedOn(e) \/ ParkedBehind(e)
    <3>1. UNCHANGED <<gaps, fpc, parking, abandoned, readerOut>>
      BY <1>10, <2>2 DEF PassedOn, ParkedBehind
    <3>. QED
      BY <1>6, <1>10, <3>1 DEF Active, Started
  <2>3. CASE GivenUp(e)
    <3>1. \A i \in DOMAIN wire' : wire'[i].kind = "gap" =>
              i \in Nat /\ i + 1 > 1 /\ i + 1 \in DOMAIN wire /\ wire'[i] = wire[i + 1] /\ GapAt(i + 1)
      BY <1>1, <1>10, GapsKept
    <3>2. parking /\ ~parking' /\ abandoned' /\ UNCHANGED <<gaps, fpc>>
      BY <1>10, <2>3 DEF GivenUp
    <3>3. PICK f \in GapFills : Active(f)
      BY <1>5, <3>2 DEF OneFill
    <3>4. \A g \in GapFills : fpc[g] # "sending"
      BY <1>5, <3>3 DEF OneFill, Active, Started
    <3>5. \A i \in DOMAIN wire' : wire'[i].kind # "gap"
      BY <1>5, <3>1, <3>3 DEF OneFill, Active, Started
    <3>6. gaps' = 0 => \A g \in GapFills : fpc'[g] = "none"
      BY <1>5, <3>2 DEF OneFill, Started
    <3>7. \A g, h \in GapFills : fpc'[g] # "none" /\ fpc'[h] # "none" => g = h
      BY <1>5, <3>2 DEF OneFill, Started
    <3>8. fpc'[f] \in {"asking", "served", "ending"} /\ \A g \in GapFills : fpc'[g] # "sending"
      BY <3>2, <3>3, <3>4 DEF Active
    <3>. QED
      BY <3>2, <3>5, <3>6, <3>7, <3>8 DEF OneFill, GapAt, Started, Active
  <2>. QED
    BY <2>1, <2>2, <2>3
<1>11. CASE ReadEvent
  <2>1. Head(wire) \in Parkable
    BY <1>1, <1>11, WireHead DEF ReadEvent
  <2>. QED
    BY <1>10, <1>11, <2>1 DEF ReadEvent
<1>12. CASE ReadGap
  <2>1. Head(wire) \in Parkable /\ wire # <<>> /\ wire' = Tail(wire) /\ readerOut = <<>> /\ gaps' = gaps
    BY <1>1, <1>12, WireHead DEF ReadGap
  <2>2. CASE parking
    BY <1>10, <1>12, <2>1, <2>2 DEF ReadGap
  <2>3. CASE ~parking
    <3>1. PICK f \in GapFills : /\ fpc[f] = "none" /\ fpc' = [fpc EXCEPT ![f] = "asking"]
                                /\ parking' /\ abandoned' = abandoned /\ readerOut' = readerOut
      BY <1>12, <2>3 DEF ReadGap
    <3>2. 1 \in DOMAIN wire /\ GapAt(1)
      <4>1. 1 \in DOMAIN wire /\ wire[1] = Head(wire)
        BY <1>3, <2>1, TailOf
      <4>. QED
        BY <1>12, <4>1 DEF ReadGap, GapAt
    <3>3. \A g \in GapFills : fpc[g] = "none"
      BY <1>5, <3>2 DEF OneFill, Started
    <3>4. \A i \in DOMAIN wire' : wire'[i].kind # "gap"
      <4>. SUFFICES ASSUME NEW i \in DOMAIN wire', wire'[i].kind = "gap" PROVE FALSE
        OBVIOUS
      <4>1. i \in Nat /\ i + 1 > 1 /\ i + 1 \in DOMAIN wire /\ GapAt(i + 1)
        BY <1>1, <2>1, GapsKept
      <4>2. i + 1 = 1
        BY <1>5, <3>2, <4>1 DEF OneFill
      <4>. QED
        BY <4>1, <4>2
    <3>5. gaps # 0
      BY <1>5, <3>2 DEF OneFill
    <3>6. ~abandoned'
      BY <1>5, <3>1, <3>3 DEF OneFill, Active
    <3>7. fpc'[f] = "asking" /\ \A g \in GapFills : g # f => fpc'[g] = "none"
      BY <1>2, <3>1, <3>3
    <3>. QED
      BY <2>1, <3>1, <3>4, <3>5, <3>6, <3>7 DEF OneFill, GapAt, Started, Active
  <2>. QED
    BY <2>2, <2>3
<1>13. CASE ReadPage
  <2>1. wire # <<>> /\ wire' = Tail(wire) /\ UNCHANGED <<gaps, gapState, readerOut>>
    BY <1>13 DEF ReadPage
  <2>2. \A f \in GapFills : fpc'[f] = fpc[f] \/ (fpc[f] = "served" /\ fpc'[f] \in {"asking", "ending"})
    BY <1>2, <1>13 DEF ReadPage, TakePage
  <2>. QED
    BY <1>6, <2>1, <2>2 DEF Active, Started
<1>14. CASE Stop \/ ReadEnd \/ ReaderSend \/ UNCHANGED gapVars
  <2>1. wire' = wire /\ UNCHANGED <<gaps, gapState, fpc>> /\ (readerOut' # <<>> => readerOut # <<>>)
    BY <1>14 DEF Stop, ReadEnd, ReaderSend, gapVars
  <2>. QED
    BY <1>6, <2>1 DEF Active, Started
<1>15. ASSUME NEW f \in GapFills, PageFails(f) PROVE OneFill'
  <2>1. wire' = wire /\ UNCHANGED <<gaps, gapState, readerOut>>
    BY <1>15 DEF PageFails
  <2>2. \A g \in GapFills : fpc'[g] = fpc[g] \/ (fpc[g] \in {"asking", "served"} /\ fpc'[g] = "ending")
    BY <1>2, <1>15 DEF PageFails
  <2>. QED
    BY <1>6, <2>1, <2>2 DEF Active, Started
<1>16. ASSUME NEW f \in GapFills, FillSend(f) PROVE OneFill'
  <2>1. wire' = wire /\ UNCHANGED <<gaps, gapState, readerOut>>
    BY <1>16 DEF FillSend
  <2>2. \A g \in GapFills : fpc'[g] = fpc[g] \/ (fpc[g] = "sending" /\ fpc'[g] = "done")
    BY <1>2, <1>16 DEF FillSend
  <2>. QED
    BY <1>6, <2>1, <2>2 DEF Active, Started
<1>17. ASSUME NEW f \in GapFills, Release(f) PROVE OneFill'
  <2>1. fpc[f] = "ending" /\ Active(f) /\ Started(f) /\ UNCHANGED <<gaps, wire, readerOut>>
    BY <1>17 DEF Release, Active, Started
  <2>2. /\ \A g \in GapFills : g # f => fpc[g] = "none"
        /\ \A i \in DOMAIN wire : ~GapAt(i)
        /\ gaps # 0 /\ (parking <=> ~abandoned) /\ (readerOut # <<>> => ~parking)
    BY <1>5, <2>1 DEF OneFill, Started
  <2>3. /\ fpc'[f] \in {"sending", "done"} /\ \A g \in GapFills : g # f => fpc'[g] = fpc[g]
        /\ ~parking' /\ ~abandoned' /\ (fpc'[f] = "sending" => ~abandoned)
    <3>1. CASE abandoned
      BY <1>2, <1>17, <2>2, <3>1 DEF Release
    <3>2. CASE ~abandoned
      BY <1>2, <1>17, <2>2, <3>2 DEF Release
    <3>. QED
      BY <3>1, <3>2
  <2>. QED
    BY <2>1, <2>2, <2>3 DEF OneFill, GapAt, Started, Active
<1>. QED
  BY <1>4, <1>7, <1>8, <1>9, <1>11, <1>12, <1>13, <1>14, <1>15, <1>16, <1>17 DEF GapNext, ReaderTurn, FillStep, GapFinished

-----------------------------------------------------------------------------
(* The event plane with one gap: nothing twice.                              *)

LEMMA DistinctAppend ==
  ASSUME NEW q \in Seq(Sent), NEW e \in Sent, Distinct(q), \A n \in Its(e) : n \notin CursorsIn(q)
  PROVE  Distinct(Append(q, e))
<1>. DEFINE r == Append(q, e)
<1>1. /\ DOMAIN r = 1..(Len(q) + 1)
      /\ \A i \in 1..(Len(q) + 1) : \/ i \in DOMAIN q /\ r[i] = q[i]
                                    \/ i = Len(q) + 1 /\ r[i] = e
  BY AppendOf
<1>. HIDE DEF r
<1>2. \A i \in DOMAIN q : q[i].kind = "event" /\ e.kind = "event" => q[i].at # e.at
  BY DEF CursorsIn, Its
<1>3. Distinct(r)
  BY <1>1, <1>2 DEF Distinct
<1>. QED
  BY <1>3 DEF r

LEMMA NoRepeatsStep ==
  ASSUME GapInv, [GapNext]_gapVars, gaps <= 1
  PROVE  NoRepeats'
<1>. USE DEF server, gapState, fill
<1>1. GapTypeInv /\ WireInOrder /\ FillsRun /\ SentInOrder /\ OneFill /\ NoRepeats
  BY DEF GapInv, Order, OneGap
<1>2. /\ out \in Seq(Sent) /\ readerOut \in Seq(Sent) /\ parked \in Seq(Sent)
      /\ wire \in Seq(Parkable \cup Pages)
      /\ fpc \in [GapFills -> {"none", "asking", "served", "ending", "sending", "done"}]
  BY <1>1, SentSeqs, FillTypes
<1>3. /\ Distinct(out) /\ \A a \in CursorsIn(out) : a \notin CursorsIn(readerOut)
      /\ \A a \in CursorsIn(out), f \in GapFills : a \notin CursorsIn(fillOut[f])
  BY <1>1 DEF NoRepeats
<1>4. CursorsIn(<<>>) = {}
  BY NothingIn
(* A step that sends nothing, and has nothing more to send.                  *)
<1>5. ASSUME UNCHANGED <<out, readerOut, fillOut>> PROVE NoRepeats'
  BY <1>1, <1>5 DEF NoRepeats
<1>6. CASE Produce \/ Skip \/ Stop \/ ReadPage \/ UNCHANGED gapVars
  BY <1>5, <1>6 DEF Produce, Skip, Stop, ReadPage, TakePage, gapVars
<1>7. ASSUME NEW f \in GapFills, ServePage(f) \/ PageFails(f) PROVE NoRepeats'
  BY <1>5, <1>7 DEF ServePage, PageFails
<1>8. ASSUME NEW f \in GapFills, Active(f), ~abandoned
      PROVE  \E b \in 0..MaxCursor : /\ RunsFrom(f, b)
                                     /\ \A a \in CursorsIn(parked) : b < a
                                     /\ \A a \in CursorsIn(out) : a <= b
  BY <1>1, <1>8 DEF FillsRun, FillRuns, RunsFrom
<1>9. ASSUME NEW e \in Parkable, Dispatch(e), wire # <<>>, e = Head(wire), readerOut = <<>>, UNCHANGED <<server, fill>>
      PROVE  NoRepeats'
  <2>1. /\ \A n \in CursorsIn(out) : n \notin Its(e)
        /\ \A f \in GapFills : \A n \in CursorsIn(fillOut[f]) : n \notin Its(e)
    <3>1. 1 \in DOMAIN wire /\ wire[1] = e
      BY <1>2, <1>9, TailOf
    <3>2. e.at \in Nat
      BY GapKinds, GapBounds
    <3>3. \A n : Behind(n) => n \notin Its(e)
      BY <3>1, <3>2 DEF Behind, Before, Its
    <3>. QED
      BY <1>1, <3>3 DEF SentInOrder, Older
  <2>2. PassedOn(e) \/ ParkedBehind(e) \/ GivenUp(e)
    BY <1>1, <1>9, DispatchDoes
  <2>3. CASE PassedOn(e)
    <3>1. Distinct(Append(out, e))
      <4>1. e \in Sent
        BY GapKinds
      <4>. QED
        BY <1>2, <1>3, <2>1, <4>1, DistinctAppend
    <3>2. out' = Append(out, e) /\ CursorsIn(out') = CursorsIn(out) \cup Its(e) /\ readerOut' = <<>> /\ fillOut' = fillOut
      BY <1>9, <2>3 DEF PassedOn
    <3>. QED
      BY <1>3, <1>4, <2>1, <3>1, <3>2 DEF NoRepeats
  <2>4. CASE ParkedBehind(e)
    BY <1>5, <1>9, <2>4 DEF ParkedBehind
  <2>5. CASE GivenUp(e)
    <3>1. parking /\ out' = out /\ CursorsIn(readerOut') = CursorsIn(parked) \cup Its(e) /\ fillOut' = fillOut
      BY <1>9, <2>5 DEF GivenUp
    <3>2. PICK f \in GapFills : Active(f) /\ ~abandoned
      BY <1>1, <3>1 DEF OneFill
    <3>3. PICK b \in 0..MaxCursor : (\A a \in CursorsIn(parked) : b < a) /\ \A a \in CursorsIn(out) : a <= b
      BY <1>8, <3>2
    <3>4. \A a \in CursorsIn(out) : a \notin CursorsIn(parked)
      <4>1. \A a \in CursorsIn(out) : a \in Nat
        BY <1>2, CursorTypes
      <4>. QED
        BY <3>3, <4>1, GapBounds
    <3>. QED
      BY <1>3, <2>1, <3>1, <3>4 DEF NoRepeats
  <2>. QED
    BY <2>2, <2>3, <2>4, <2>5
<1>10. CASE ReadEvent
  <2>1. Head(wire) \in Parkable
    BY <1>1, <1>10, WireHead DEF ReadEvent
  <2>. QED
    BY <1>9, <1>10, <2>1 DEF ReadEvent
<1>11. CASE ReadGap
  <2>1. Head(wire) \in Parkable
    BY <1>1, <1>11, WireHead DEF ReadGap
  <2>2. CASE parking
    BY <1>9, <1>11, <2>1, <2>2 DEF ReadGap
  <2>3. CASE ~parking
    BY <1>5, <1>11, <2>3 DEF ReadGap
  <2>. QED
    BY <2>2, <2>3
<1>12. CASE ReaderSend
  <2>. DEFINE e == Head(readerOut)
  <2>1. readerOut # <<>> /\ out' = Append(out, e) /\ readerOut' = Tail(readerOut) /\ fillOut' = fillOut
    BY <1>12 DEF ReaderSend
  <2>2. e \in Sent /\ CursorsIn(readerOut) = CursorsIn(readerOut') \cup Its(e)
    BY <1>2, <2>1, TailOf DEF Its
  <2>3. \A n \in Its(e) : n \notin CursorsIn(readerOut')
    BY <1>1, <1>2, <2>1, HeadFirst DEF SentInOrder
  <2>4. \A f \in GapFills : fillOut'[f] = <<>>
    BY <1>1, <2>1 DEF OneFill, FillsRun, FillRuns
  <2>. HIDE DEF e
  <2>5. CursorsIn(out') = CursorsIn(out) \cup Its(e) /\ Distinct(out')
    <3>1. CursorsIn(Append(out, e)) = CursorsIn(out) \cup Its(e)
      BY <1>2, <2>2, AppendOf DEF Its
    <3>2. Distinct(Append(out, e))
      BY <1>2, <1>3, <2>2, DistinctAppend
    <3>. QED
      BY <2>1, <3>1, <3>2
  <2>. QED
    BY <1>3, <1>4, <2>2, <2>3, <2>4, <2>5 DEF NoRepeats
<1>13. CASE ReadEnd
  <2>1. out' = Append(out, ClosedEvent) /\ UNCHANGED <<readerOut, fillOut>>
    BY <1>13 DEF ReadEnd
  <2>2. ClosedEvent \in Sent /\ Its(ClosedEvent) = {}
    BY GapKinds DEF Its
  <2>3. CursorsIn(out') = CursorsIn(out) /\ Distinct(out')
    <3>1. CursorsIn(Append(out, ClosedEvent)) = CursorsIn(out) \cup Its(ClosedEvent)
      BY <1>2, <2>2, AppendOf DEF Its
    <3>2. Distinct(Append(out, ClosedEvent))
      BY <1>2, <1>3, <2>2, DistinctAppend
    <3>. QED
      BY <2>1, <2>2, <3>1, <3>2
  <2>. QED
    BY <1>3, <2>1, <2>3 DEF NoRepeats
<1>14. ASSUME NEW f \in GapFills, Release(f) PROVE NoRepeats'
  <2>1. CASE abandoned
    BY <1>5, <1>14, <2>1 DEF Release
  <2>2. CASE ~abandoned
    <3>1. /\ fpc[f] = "ending" /\ UNCHANGED <<readerOut, out>>
          /\ \A g \in GapFills : g # f => fillOut'[g] = fillOut[g]
          /\ CursorsIn(fillOut'[f]) = CursorsIn(filled[f]) \cup CursorsIn(parked)
      BY <1>1, <1>14, <2>2, ReleaseDoes
    <3>2. PICK b \in 0..MaxCursor : /\ RunsFrom(f, b)
                                    /\ \A a \in CursorsIn(parked) : b < a
                                    /\ \A a \in CursorsIn(out) : a <= b
      BY <1>8, <2>2, <3>1 DEF Active
    <3>3. CursorsIn(filled[f]) = (b + 1)..(b + Len(filled[f]))
      BY <1>1, <3>2, FilledIs
    <3>4. \A a \in CursorsIn(fillOut'[f]) : b < a
      BY <3>1, <3>2, <3>3, GapBounds
    <3>5. \A a \in CursorsIn(out) : a \notin CursorsIn(fillOut'[f])
      <4>1. \A a \in CursorsIn(out) : a \in Nat
        BY <1>2, CursorTypes
      <4>. QED
        BY <3>2, <3>4, <4>1, GapBounds
    <3>. QED
      BY <1>3, <3>1, <3>5 DEF NoRepeats
  <2>. QED
    BY <2>1, <2>2
<1>15. ASSUME NEW f \in GapFills, FillSend(f) PROVE NoRepeats'
  <2>1. fpc[f] = "sending" /\ readerOut' = readerOut /\ \A g \in GapFills : g # f => fillOut'[g] = fillOut[g]
    BY <1>1, <1>15, FillSendDoes
  <2>2. readerOut = <<>> /\ \A g \in GapFills : g # f => fillOut[g] = <<>>
    BY <1>1, <2>1 DEF OneFill, Started, FillsRun, FillRuns
  <2>3. CASE UNCHANGED <<fillOut, out>>
    BY <1>5, <2>1, <2>3
  <2>4. ASSUME NEW e \in Sent,
               out' = Append(out, e), CursorsIn(out') = CursorsIn(out) \cup Its(e),
               CursorsIn(fillOut[f]) = CursorsIn(fillOut'[f]) \cup Its(e),
               Increasing(fillOut[f]) => \A n \in Its(e) : n \notin CursorsIn(fillOut'[f])
        PROVE  NoRepeats'
    <3>1. \A n \in Its(e) : n \notin CursorsIn(fillOut'[f])
      BY <1>1, <2>4 DEF SentInOrder
    <3>2. Distinct(Append(out, e))
      BY <1>2, <1>3, <2>4, DistinctAppend
    <3>3. \A a \in CursorsIn(out') : a \notin CursorsIn(readerOut')
      BY <1>4, <2>1, <2>2
    <3>4. \A a \in CursorsIn(out'), g \in GapFills : a \notin CursorsIn(fillOut'[g])
      BY <1>3, <1>4, <2>1, <2>2, <2>4, <3>1
    <3>. QED
      BY <2>4, <3>2, <3>3, <3>4 DEF NoRepeats
  <2>. QED
    BY <1>1, <1>15, <2>3, <2>4, FillSendDoes
<1>. QED
  BY <1>6, <1>7, <1>10, <1>11, <1>12, <1>13, <1>14, <1>15 DEF GapNext, ReaderTurn, FillStep, GapFinished

-----------------------------------------------------------------------------
(* The event plane with one gap: the order of what is sent.                  *)

LEMMA OrderlyAppend ==
  ASSUME GapTypeInv, Orderly, ahead \subseteq ahead', NEW e \in Sent, out' = Append(out, e),
         \A n \in Its(e) : \A a \in CursorsIn(out) : a < n \/ a \in ahead'
  PROVE  Orderly'
<1>1. out \in Seq(Sent)
  BY SentSeqs
<1>2. /\ DOMAIN out' = 1..(Len(out) + 1) /\ Len(out) \in Nat /\ DOMAIN out = 1..Len(out)
      /\ \A i \in 1..(Len(out) + 1) : \/ i \in DOMAIN out /\ out'[i] = out[i]
                                      \/ i = Len(out) + 1 /\ out'[i] = e
  BY <1>1, AppendOf
<1>. SUFFICES ASSUME NEW i \in DOMAIN out', NEW j \in DOMAIN out', i < j,
                     out'[i].kind = "event", out'[j].kind = "event"
              PROVE  out'[i].at < out'[j].at \/ out'[i].at \in ahead'
  BY DEF Orderly, InTurn
<1>3. i \in DOMAIN out /\ out'[i] = out[i]
  BY <1>2
<1>4. CASE j \in DOMAIN out /\ out'[j] = out[j]
  BY <1>3, <1>4 DEF Orderly, InTurn
<1>5. CASE out'[j] = e
  <2>1. out[i].at \in CursorsIn(out) /\ e.at \in Its(e)
    BY <1>3, <1>5 DEF CursorsIn, Its
  <2>. QED
    BY <1>3, <1>5, <2>1
<1>. QED
  BY <1>2, <1>4, <1>5

LEMMA SortedStep ==
  ASSUME GapInv, [GapNext]_gapVars, gaps <= 1
  PROVE  Sorted'
<1>. USE DEF server, gapState, fill
<1>1. GapTypeInv /\ WireInOrder /\ FillsRun /\ SentInOrder /\ OneFill /\ Sorted
  BY DEF GapInv, Order, OneGap
<1>2. /\ out \in Seq(Sent) /\ readerOut \in Seq(Sent) /\ parked \in Seq(Sent)
      /\ wire \in Seq(Parkable \cup Pages)
      /\ fpc \in [GapFills -> {"none", "asking", "served", "ending", "sending", "done"}]
      /\ \A a \in CursorsIn(out) : a \in Nat
  BY <1>1, SentSeqs, FillTypes, CursorTypes
<1>3. /\ Orderly /\ \A a \in CursorsIn(out), b \in CursorsIn(readerOut) : a < b
      /\ \A a \in CursorsIn(out), f \in GapFills : \A b \in CursorsIn(fillOut[f]) : a < b \/ a \in ahead
  BY <1>1 DEF Sorted, InTurn
<1>4. CursorsIn(<<>>) = {}
  BY NothingIn
<1>5. ASSUME UNCHANGED <<out, ahead, readerOut, fillOut>> PROVE Sorted'
  BY <1>1, <1>5 DEF Sorted, Orderly, InTurn
<1>6. CASE Produce \/ Skip \/ Stop \/ ReadPage \/ UNCHANGED gapVars
  BY <1>5, <1>6 DEF Produce, Skip, Stop, ReadPage, TakePage, gapVars
<1>7. ASSUME NEW f \in GapFills, ServePage(f) \/ PageFails(f) PROVE Sorted'
  BY <1>5, <1>7 DEF ServePage, PageFails
<1>8. ASSUME NEW f \in GapFills, Active(f), ~abandoned
      PROVE  \E b \in 0..MaxCursor : /\ RunsFrom(f, b)
                                     /\ \A a \in CursorsIn(parked) : b < a
                                     /\ \A a \in CursorsIn(out) : a <= b
  BY <1>1, <1>8 DEF FillsRun, FillRuns, RunsFrom
<1>9. ASSUME NEW e \in Parkable, Dispatch(e), wire # <<>>, e = Head(wire), readerOut = <<>>, UNCHANGED <<server, fill>>
      PROVE  Sorted'
  <2>1. \A n \in CursorsIn(out), m \in Its(e) : n < m
    <3>1. 1 \in DOMAIN wire /\ wire[1] = e
      BY <1>2, <1>9, TailOf
    <3>2. \A n : Behind(n) => \A m \in Its(e) : n < m
      BY <3>1 DEF Behind, Before, Its
    <3>. QED
      BY <1>1, <3>2 DEF SentInOrder, Older
  <2>2. PassedOn(e) \/ ParkedBehind(e) \/ GivenUp(e)
    BY <1>1, <1>9, DispatchDoes
  <2>3. CASE PassedOn(e)
    <3>1. out' = Append(out, e) /\ CursorsIn(out') = CursorsIn(out) \cup Its(e) /\ readerOut' = <<>> /\ fillOut' = fillOut
      BY <1>9, <2>3 DEF PassedOn
    <3>2. ahead \subseteq ahead' /\ ((\E f \in GapFills : fillOut[f] # <<>>) => Its(e) \subseteq ahead')
      <4>1. Its(e) \subseteq CursorsIn(<<e>>)
        <5>1. DOMAIN <<e>> = {1} /\ <<e>>[1] = e
          OBVIOUS
        <5>. QED
          BY <5>1 DEF CursorsIn, Its
      <4>2. PassOn(e)
        BY <1>9, <2>3 DEF Dispatch, PassedOn
      <4>. QED
        BY <4>1, <4>2 DEF PassOn
    <3>3. Orderly'
      <4>1. e \in Sent
        BY GapKinds
      <4>. QED
        BY <1>1, <1>3, <2>1, <3>1, <3>2, <4>1, OrderlyAppend
    <3>4. ASSUME NEW a \in CursorsIn(out'), NEW f \in GapFills, NEW b \in CursorsIn(fillOut'[f])
          PROVE  a < b \/ a \in ahead'
      BY <1>3, <1>4, <3>1, <3>2, <3>4
    <3>. QED
      BY <1>4, <3>1, <3>3, <3>4 DEF Sorted, InTurn
  <2>4. CASE ParkedBehind(e)
    <3>1. UNCHANGED <<out, ahead, readerOut, fillOut>>
      BY <1>9, <2>4 DEF ParkedBehind, Dispatch
    <3>. QED
      BY <1>5, <3>1
  <2>5. CASE GivenUp(e)
    <3>1. parking /\ out' = out /\ CursorsIn(readerOut') = CursorsIn(parked) \cup Its(e) /\ fillOut' = fillOut /\ ahead' = ahead
      BY <1>9, <2>5 DEF GivenUp, Dispatch
    <3>2. PICK f \in GapFills : Active(f) /\ ~abandoned
      BY <1>1, <3>1 DEF OneFill
    <3>3. PICK b \in 0..MaxCursor : (\A a \in CursorsIn(parked) : b < a) /\ \A a \in CursorsIn(out) : a <= b
      BY <1>8, <3>2
    <3>4. \A a \in CursorsIn(out), n \in CursorsIn(parked) : a < n
      <4>1. \A n \in CursorsIn(parked) : n \in Nat
        BY <1>2, CursorTypes
      <4>. QED
        BY <1>2, <3>3, <4>1, GapBounds
    <3>. QED
      BY <1>3, <2>1, <3>1, <3>4 DEF Sorted, Orderly, InTurn
  <2>. QED
    BY <2>2, <2>3, <2>4, <2>5
<1>10. CASE ReadEvent
  <2>1. Head(wire) \in Parkable
    BY <1>1, <1>10, WireHead DEF ReadEvent
  <2>. QED
    BY <1>9, <1>10, <2>1 DEF ReadEvent
<1>11. CASE ReadGap
  <2>1. Head(wire) \in Parkable
    BY <1>1, <1>11, WireHead DEF ReadGap
  <2>2. CASE parking
    BY <1>9, <1>11, <2>1, <2>2 DEF ReadGap
  <2>3. CASE ~parking
    BY <1>5, <1>11, <2>3 DEF ReadGap
  <2>. QED
    BY <2>2, <2>3
<1>12. CASE ReaderSend
  <2>. DEFINE e == Head(readerOut)
  <2>1. readerOut # <<>> /\ out' = Append(out, e) /\ readerOut' = Tail(readerOut) /\ fillOut' = fillOut /\ ahead' = ahead
    BY <1>12 DEF ReaderSend
  <2>2. e \in Sent /\ CursorsIn(readerOut) = CursorsIn(readerOut') \cup Its(e)
    BY <1>2, <2>1, TailOf DEF Its
  <2>3. \A n \in Its(e), m \in CursorsIn(readerOut') : n < m
    BY <1>1, <1>2, <2>1, HeadFirst DEF SentInOrder
  <2>4. \A f \in GapFills : fillOut'[f] = <<>>
    BY <1>1, <2>1 DEF OneFill, FillsRun, FillRuns
  <2>. HIDE DEF e
  <2>5. CursorsIn(out') = CursorsIn(out) \cup Its(e)
    <3>1. CursorsIn(Append(out, e)) = CursorsIn(out) \cup Its(e)
      BY <1>2, <2>2, AppendOf DEF Its
    <3>. QED
      BY <2>1, <3>1
  <2>6. Orderly'
    BY <1>1, <1>3, <2>1, <2>2, OrderlyAppend
  <2>. QED
    BY <1>3, <1>4, <2>2, <2>3, <2>4, <2>5, <2>6 DEF Sorted
<1>13. CASE ReadEnd
  <2>1. out' = Append(out, ClosedEvent) /\ UNCHANGED <<readerOut, fillOut, ahead>>
    BY <1>13 DEF ReadEnd
  <2>2. ClosedEvent \in Sent /\ Its(ClosedEvent) = {}
    BY GapKinds DEF Its
  <2>3. CursorsIn(out') = CursorsIn(out)
    <3>1. CursorsIn(Append(out, ClosedEvent)) = CursorsIn(out) \cup Its(ClosedEvent)
      BY <1>2, <2>2, AppendOf DEF Its
    <3>. QED
      BY <2>1, <2>2, <3>1
  <2>4. Orderly'
    BY <1>1, <1>3, <2>1, <2>2, OrderlyAppend
  <2>. QED
    BY <1>3, <2>1, <2>3, <2>4 DEF Sorted, InTurn
<1>14. ASSUME NEW f \in GapFills, Release(f) PROVE Sorted'
  <2>1. CASE abandoned
    BY <1>5, <1>14, <2>1 DEF Release
  <2>2. CASE ~abandoned
    <3>1. /\ fpc[f] = "ending" /\ UNCHANGED <<readerOut, out, ahead>>
          /\ \A g \in GapFills : g # f => fillOut'[g] = fillOut[g]
          /\ CursorsIn(fillOut'[f]) = CursorsIn(filled[f]) \cup CursorsIn(parked)
      BY <1>1, <1>14, <2>2, ReleaseDoes DEF Release
    <3>2. PICK b \in 0..MaxCursor : /\ RunsFrom(f, b)
                                    /\ \A a \in CursorsIn(parked) : b < a
                                    /\ \A a \in CursorsIn(out) : a <= b
      BY <1>8, <2>2, <3>1 DEF Active
    <3>3. CursorsIn(filled[f]) = (b + 1)..(b + Len(filled[f])) /\ Len(filled[f]) \in Nat
      BY <1>1, <3>2, FilledIs, SentSeqs
    <3>4. \A n \in CursorsIn(fillOut'[f]) : b < n /\ n \in Nat
      <4>1. \A n \in CursorsIn(parked) : n \in Nat
        BY <1>2, CursorTypes
      <4>. QED
        BY <3>1, <3>2, <3>3, <4>1, GapBounds
    <3>5. \A a \in CursorsIn(out), n \in CursorsIn(fillOut'[f]) : a < n
      BY <1>2, <3>2, <3>4, GapBounds
    <3>. QED
      BY <1>3, <3>1, <3>5 DEF Sorted, Orderly, InTurn
  <2>. QED
    BY <2>1, <2>2
<1>15. ASSUME NEW f \in GapFills, FillSend(f) PROVE Sorted'
  <2>1. /\ fpc[f] = "sending" /\ readerOut' = readerOut /\ ahead' = ahead
        /\ \A g \in GapFills : g # f => fillOut'[g] = fillOut[g]
    BY <1>1, <1>15, FillSendDoes DEF FillSend
  <2>2. readerOut = <<>> /\ \A g \in GapFills : g # f => fillOut[g] = <<>>
    BY <1>1, <2>1 DEF OneFill, Started, FillsRun, FillRuns
  <2>3. CASE UNCHANGED <<fillOut, out>>
    BY <1>5, <2>1, <2>3
  <2>4. ASSUME NEW e \in Sent,
               out' = Append(out, e), CursorsIn(out') = CursorsIn(out) \cup Its(e),
               CursorsIn(fillOut[f]) = CursorsIn(fillOut'[f]) \cup Its(e),
               Increasing(fillOut[f]) => \A n \in Its(e), m \in CursorsIn(fillOut'[f]) : n < m
        PROVE  Sorted'
    <3>1. \A n \in Its(e), m \in CursorsIn(fillOut'[f]) : n < m
      BY <1>1, <2>4 DEF SentInOrder
    <3>2. Orderly'
      BY <1>1, <1>3, <2>1, <2>4, OrderlyAppend
    <3>3. ASSUME NEW a \in CursorsIn(out'), NEW g \in GapFills, NEW b \in CursorsIn(fillOut'[g])
          PROVE  a < b \/ a \in ahead'
      BY <1>3, <1>4, <2>1, <2>2, <2>4, <3>1, <3>3
    <3>. QED
      BY <1>4, <2>1, <2>2, <3>2, <3>3 DEF Sorted, InTurn
  <2>. QED
    BY <1>1, <1>15, <2>3, <2>4, FillSendDoes
<1>. QED
  BY <1>6, <1>7, <1>10, <1>11, <1>12, <1>13, <1>14, <1>15 DEF GapNext, ReaderTurn, FillStep, GapFinished

-----------------------------------------------------------------------------
(* The event plane with one gap: nothing missing.                            *)

LEMMA HeldIs ==
  /\ \A n : n \in Held <=> \/ n \in CursorsIn(out) \/ n \in CursorsIn(readerOut) \/ n \in CursorsIn(parked)
                           \/ n \in CursorsIn(wire) \/ \E f \in GapFills : n \in CursorsIn(fillOut[f])
  /\ \A n : n \in Held' <=> \/ n \in CursorsIn(out') \/ n \in CursorsIn(readerOut') \/ n \in CursorsIn(parked')
                            \/ n \in CursorsIn(wire') \/ \E f \in GapFills : n \in CursorsIn(fillOut'[f])
  BY DEF Held

(* No event and no report is lost: a step hands it on, or releases it with   *)
(* the pages that cover it.                                                  *)
Kept ==
    /\ Held \subseteq Held' /\ (~Skip => (pos + 1)..pos' \subseteq Held')
    /\ Reported => Reported'

LEMMA NothingIsLost ==
  ASSUME GapInv, [GapNext]_gapVars
  PROVE  Kept
<1>. USE DEF server, gapState, fill
<1>1. GapTypeInv /\ FillsRun /\ SentInOrder
  BY DEF GapInv, Order
<1>2. /\ out \in Seq(Sent) /\ readerOut \in Seq(Sent) /\ wire \in Seq(Parkable \cup Pages)
      /\ pos \in Nat /\ pos \in 0..MaxCursor
  BY <1>1, SentSeqs
<1>3. CursorsIn(<<>>) = {} /\ In(<<>>) = {}
  BY NothingIn
(* The sequences but the wire grow; the wire grows; and no cursor is new.    *)
<1>4. ASSUME CursorsIn(wire) \subseteq Held', CursorsIn(parked) \subseteq Held',
             CursorsIn(out) \subseteq Held', CursorsIn(readerOut) \subseteq Held',
             \A f \in GapFills : CursorsIn(fillOut[f]) \subseteq Held',
             ~Skip /\ pos' # pos => pos + 1 \in Held' /\ pos' = pos + 1,
             Reported => Reported'
      PROVE  Kept
  <2>1. Held \subseteq Held'
    BY <1>4, HeldIs
  <2>2. ~Skip /\ pos' # pos => \A n \in (pos + 1)..pos' : n = pos + 1
    BY <1>2, <1>4
  <2>3. (pos' = pos) => (pos + 1)..pos' = {}
    BY <1>2
  <2>. QED
    BY <1>2, <1>4, <2>1, <2>2, <2>3 DEF Kept
<1>5. ASSUME UNCHANGED <<out, readerOut, parked, fillOut>>, CursorsIn(wire) \subseteq CursorsIn(wire'),
             ~Skip /\ pos' # pos => pos + 1 \in CursorsIn(wire') /\ pos' = pos + 1
      PROVE  Kept
  <2>1. Reported => Reported'
    BY <1>5 DEF Reported
  <2>. QED
    BY <1>4, <1>5, <2>1, HeldIs
<1>6. CASE Produce
  <2>1. Event(pos + 1) \in Parkable \cup Pages /\ Event(pos + 1).kind = "event" /\ Event(pos + 1).at = pos + 1
    <3>1. pos + 1 \in 1..MaxCursor
      BY <1>2, <1>6, GapBounds DEF Produce
    <3>. QED
      BY <3>1, GapKinds
  <2>2. CursorsIn(Append(wire, Event(pos + 1))) = CursorsIn(wire) \cup Its(Event(pos + 1))
    BY <1>2, <2>1, AppendOf DEF Its
  <2>3. /\ wire' = Append(wire, Event(pos + 1)) /\ pos' = pos + 1
        /\ UNCHANGED <<out, readerOut, parked, fillOut>>
    BY <1>6 DEF Produce
  <2>. QED
    BY <1>5, <2>1, <2>2, <2>3 DEF Its
<1>7. CASE Skip
  <2>1. Gap(pos) \in Parkable \cup Pages
    BY <1>2, GapKinds
  <2>2. CursorsIn(wire) \subseteq CursorsIn(Append(wire, Gap(pos)))
    BY <1>2, <2>1, AppendOf
  <2>3. wire' = Append(wire, Gap(pos)) /\ UNCHANGED <<out, readerOut, parked, fillOut>>
    BY <1>7 DEF Skip
  <2>. QED
    BY <1>5, <1>7, <2>2, <2>3
<1>8. ASSUME NEW f \in GapFills, ServePage(f) PROVE Kept
  <2>1. /\ pos' = pos /\ UNCHANGED <<out, readerOut, parked, fillOut>>
        /\ \E e \in Parkable \cup Pages : wire' = Append(wire, e)
    <3>. DEFINE last == IF cursor[f] + PageLimit < pos THEN cursor[f] + PageLimit ELSE pos
    <3>1. last \in 0..MaxCursor /\ cursor[f] + 1 \in 1..(MaxCursor + 1)
      BY <1>1, <1>2, GapBounds DEF GapTypeInv, GapTypeOK
    <3>2. wire' = Append(wire, Page(f, cursor[f] + 1, last)) /\ pos' = pos /\ UNCHANGED <<out, readerOut, parked, fillOut>>
      BY <1>8 DEF ServePage
    <3>. HIDE DEF last
    <3>3. Page(f, cursor[f] + 1, last) \in Pages
      BY <3>1 DEF Page, Pages
    <3>. QED
      BY <3>2, <3>3
  <2>2. CursorsIn(wire) \subseteq CursorsIn(wire')
    BY <1>2, <2>1, AppendOf
  <2>. QED
    BY <1>5, <2>1, <2>2
<1>9. CASE Stop \/ UNCHANGED gapVars
  <2>1. UNCHANGED <<out, readerOut, parked, fillOut, wire, pos>>
    BY <1>9 DEF Stop, gapVars
  <2>. QED
    BY <1>5, <2>1
<1>10. ASSUME NEW e \in Parkable, Dispatch(e), wire # <<>>, e = Head(wire), wire' = Tail(wire), readerOut = <<>>,
              UNCHANGED <<server, fill>>
       PROVE  Kept
  <2>1. CursorsIn(wire) = CursorsIn(wire') \cup Its(e)
    BY <1>2, <1>10, TailOf DEF Its
  <2>2. PassedOn(e) \/ ParkedBehind(e) \/ GivenUp(e)
    BY <1>1, <1>10, DispatchDoes
  <2>3. fillOut' = fillOut /\ pos' = pos
    BY <1>10
  <2>4. CASE PassedOn(e)
    <3>1. /\ CursorsIn(out') = CursorsIn(out) \cup Its(e) /\ In(out') = In(out) \cup {e}
          /\ UNCHANGED <<parked, readerOut>>
      BY <2>4 DEF PassedOn
    <3>2. Reported => Reported'
      BY <2>3, <3>1 DEF Reported
    <3>. QED
      BY <1>4, <2>1, <2>3, <3>1, <3>2, HeldIs
  <2>5. CASE ParkedBehind(e)
    <3>1. CursorsIn(parked') = CursorsIn(parked) \cup Its(e) /\ UNCHANGED <<out, readerOut>>
      BY <2>5 DEF ParkedBehind
    <3>2. Reported => Reported'
      BY <2>3, <3>1 DEF Reported
    <3>. QED
      BY <1>4, <2>1, <2>3, <3>1, <3>2, HeldIs
  <2>6. CASE GivenUp(e)
    <3>1. /\ CursorsIn(readerOut') = CursorsIn(parked) \cup Its(e) /\ out' = out /\ parked' = <<>>
          /\ Abort \in In(readerOut')
      BY <2>6 DEF GivenUp
    <3>2. Reported'
      BY <3>1 DEF Reported
    <3>. QED
      BY <1>3, <1>4, <1>10, <2>1, <2>3, <3>1, <3>2, HeldIs
  <2>. QED
    BY <2>2, <2>4, <2>5, <2>6
<1>11. CASE ReadEvent
  <2>1. Head(wire) \in Parkable
    BY <1>1, <1>11, WireHead DEF ReadEvent
  <2>. QED
    BY <1>10, <1>11, <2>1 DEF ReadEvent
<1>12. CASE ReadGap
  <2>1. Head(wire) \in Parkable /\ Head(wire).kind = "gap" /\ wire # <<>> /\ wire' = Tail(wire) /\ pos' = pos
    BY <1>1, <1>12, WireHead DEF ReadGap
  <2>2. CASE parking
    BY <1>10, <1>12, <2>1, <2>2 DEF ReadGap
  <2>3. CASE ~parking
    <3>1. UNCHANGED <<out, readerOut, fillOut>> /\ parked = <<>>
      BY <1>1, <1>12, <2>3 DEF ReadGap, SentInOrder
    <3>2. CursorsIn(wire) = CursorsIn(wire') \cup Its(Head(wire))
      BY <1>2, <2>1, TailOf DEF Its
    <3>3. CursorsIn(wire) = CursorsIn(wire')
      BY <2>1, <3>2 DEF Its
    <3>4. Reported => Reported'
      BY <3>1 DEF Reported
    <3>. QED
      BY <1>3, <1>4, <2>1, <3>1, <3>3, <3>4, HeldIs
  <2>. QED
    BY <2>2, <2>3
<1>13. CASE ReadPage
  <2>1. Head(wire).kind = "page" /\ wire # <<>> /\ wire' = Tail(wire) /\ pos' = pos
        /\ UNCHANGED <<out, readerOut, parked, fillOut>>
    BY <1>13 DEF ReadPage, TakePage
  <2>2. CursorsIn(wire) = CursorsIn(wire') \cup Its(Head(wire))
    BY <1>2, <2>1, TailOf DEF Its
  <2>3. CursorsIn(wire) = CursorsIn(wire')
    BY <2>1, <2>2 DEF Its
  <2>. QED
    BY <1>5, <2>1, <2>3
<1>14. CASE ReaderSend
  <2>. DEFINE e == Head(readerOut)
  <2>1. readerOut # <<>> /\ out' = Append(out, e) /\ readerOut' = Tail(readerOut)
        /\ UNCHANGED <<wire, parked, fillOut, pos>>
    BY <1>14 DEF ReaderSend
  <2>2. /\ e \in Sent /\ CursorsIn(readerOut) = CursorsIn(readerOut') \cup Its(e)
        /\ In(readerOut) = {e} \cup In(readerOut')
    BY <1>2, <2>1, TailOf DEF Its
  <2>. HIDE DEF e
  <2>3. CursorsIn(out') = CursorsIn(out) \cup Its(e) /\ In(out') = In(out) \cup {e}
    BY <1>2, <2>1, <2>2, AppendOf DEF Its
  <2>4. Reported => Reported'
    BY <2>1, <2>2, <2>3 DEF Reported
  <2>. QED
    BY <1>4, <2>1, <2>2, <2>3, <2>4, HeldIs
<1>15. CASE ReadEnd
  <2>1. out' = Append(out, ClosedEvent) /\ UNCHANGED <<wire, readerOut, parked, fillOut, pos>>
    BY <1>15 DEF ReadEnd
  <2>2. ClosedEvent \in Sent
    BY GapKinds
  <2>3. CursorsIn(out) \subseteq CursorsIn(out') /\ In(out) \subseteq In(out')
    BY <1>2, <2>1, <2>2, AppendOf
  <2>4. Reported => Reported'
    BY <2>1, <2>3 DEF Reported
  <2>. QED
    BY <1>4, <2>1, <2>3, <2>4, HeldIs
<1>16. ASSUME NEW f \in GapFills, PageFails(f) PROVE Kept
  <2>1. UNCHANGED <<out, readerOut, parked, fillOut, wire, pos>>
    BY <1>16 DEF PageFails
  <2>. QED
    BY <1>5, <2>1
<1>17. ASSUME NEW f \in GapFills, Release(f) PROVE Kept
  <2>1. CASE abandoned
    <3>1. UNCHANGED <<out, readerOut, parked, fillOut, wire, pos>>
      BY <1>17, <2>1 DEF Release
    <3>. QED
      BY <1>5, <3>1
  <2>2. CASE ~abandoned
    <3>1. /\ fpc[f] = "ending" /\ UNCHANGED <<pos, wire, readerOut, out>>
          /\ \A g \in GapFills : g # f => fillOut'[g] = fillOut[g]
          /\ CursorsIn(fillOut'[f]) = CursorsIn(filled[f]) \cup CursorsIn(parked)
      BY <1>1, <1>17, <2>2, ReleaseDoes
    <3>2. fillOut[f] = <<>>
      BY <1>1, <3>1 DEF FillsRun, FillRuns
    <3>3. Reported => Reported'
      BY <1>3, <3>1, <3>2 DEF Reported
    <3>4. \A g \in GapFills : CursorsIn(fillOut[g]) \subseteq CursorsIn(fillOut'[g])
      BY <1>3, <3>1, <3>2
    <3>. QED
      BY <1>4, <3>1, <3>3, <3>4, HeldIs
  <2>. QED
    BY <2>1, <2>2
<1>18. ASSUME NEW f \in GapFills, FillSend(f) PROVE Kept
  <2>1. UNCHANGED <<pos, wire, parked, readerOut>> /\ \A g \in GapFills : g # f => fillOut'[g] = fillOut[g]
    BY <1>1, <1>18, FillSendDoes
  <2>2. CASE UNCHANGED <<fillOut, out>>
    BY <1>5, <2>1, <2>2
  <2>3. ASSUME NEW e \in Sent,
               In(out') = In(out) \cup {e}, CursorsIn(out') = CursorsIn(out) \cup Its(e),
               In(fillOut[f]) = {e} \cup In(fillOut'[f]),
               CursorsIn(fillOut[f]) = CursorsIn(fillOut'[f]) \cup Its(e)
        PROVE  Kept
    <3>1. Reported => Reported'
      BY <2>1, <2>3 DEF Reported
    <3>2. \A g \in GapFills : CursorsIn(fillOut[g]) \subseteq CursorsIn(fillOut'[g]) \cup CursorsIn(out')
      BY <2>1, <2>3
    <3>. QED
      BY <1>4, <2>1, <2>3, <3>1, <3>2, HeldIs
  <2>. QED
    BY <1>1, <1>18, <2>2, <2>3, FillSendDoes
<1>. QED
  BY <1>6, <1>7, <1>8, <1>9, <1>11, <1>12, <1>13, <1>14, <1>15, <1>16, <1>17, <1>18
     DEF GapNext, ReaderTurn, FillStep, GapFinished

LEMMA CompleteStep ==
  ASSUME GapInv, [GapNext]_gapVars, gaps' <= 1
  PROVE  Complete'
<1>. USE DEF server, gapState, fill
<1>0. gaps <= 1
  BY OneFillStep
<1>1. GapTypeInv /\ WireInOrder /\ PagesAreDue /\ FillsRun /\ SentInOrder /\ OneFill /\ Complete
  BY <1>0 DEF GapInv, Order, OneGap
<1>2. /\ fpc \in [GapFills -> {"none", "asking", "served", "ending", "sending", "done"}]
      /\ cursor \in [GapFills -> 0..MaxCursor] /\ aborted \in [GapFills -> BOOLEAN]
      /\ gaps \in Nat /\ \A f \in GapFills : cursor[f] \in Nat
  BY <1>1, FillTypes
<1>3. /\ wire \in Seq(Parkable \cup Pages) /\ pos \in Nat /\ pos \in 0..MaxCursor
      /\ \A i \in DOMAIN wire : wire[i] \in Parkable \cup Pages
  BY <1>1, SentSeqs
<1>4. Held \subseteq Held' /\ (~Skip => (pos + 1)..pos' \subseteq Held') /\ (Reported => Reported')
  BY NothingIsLost DEF Kept
<1>5. Reported \/ (Accounted /\ ~abandoned)
  BY <1>1 DEF Complete
<1>6. Reported' => Complete'
  BY DEF Complete
(* What there is of gaps and pages, and of fills, stays.                     *)
<1>7. ASSUME ~Skip, pos' >= pos, pos' \in Nat, Accounted, ~abandoned', UNCHANGED <<cursor, filled, aborted>>,
             \A f \in GapFills : fpc'[f] = fpc[f] \/ (fpc[f] = "sending" /\ fpc'[f] = "done"),
             \A e \in In(wire') : e.kind \in {"gap", "page"} => e \in In(wire),
             \A e \in In(wire) : e.kind = "gap" => e \in In(wire')
      PROVE  Complete'
  <2>1. \A n \in Nat : n..pos \subseteq Held => n..pos' \subseteq Held'
    <3>. SUFFICES ASSUME NEW n \in Nat, n..pos \subseteq Held, NEW k \in n..pos' PROVE k \in Held'
      OBVIOUS
    <3>1. k \in n..pos \/ k \in (pos + 1)..pos'
      BY <1>3, <1>7
    <3>. QED
      BY <1>4, <1>7, <3>1
  <2>2. NoGapYet' => 1..pos' \subseteq Held'
    <3>1. NoGapYet' => NoGapYet
      BY <1>7 DEF NoGapYet, Started
    <3>. QED
      BY <1>7, <2>1, <3>1 DEF Accounted
  <2>3. \A e \in In(wire') : e.kind = "gap" => 1..e.at \subseteq Held'
    BY <1>4, <1>7 DEF Accounted
  <2>4. ASSUME NEW f \in GapFills PROVE FillAccounted(f)'
    <3>1. FillAccounted(f)
      BY <1>7 DEF Accounted
    <3>2. fpc[f] \in {"asking", "served"} /\ fpc'[f] = fpc[f] => 1..cursor'[f] \subseteq Held' \cup CursorsIn(filled'[f])
      BY <1>4, <1>7, <3>1 DEF FillAccounted
    <3>3. ASSUME fpc[f] = "ending", ~aborted[f] PROVE 1..pos' \subseteq Held' \cup CursorsIn(filled'[f])
      <4>1. \A k \in 1..pos' : k \in 1..pos \/ k \in (pos + 1)..pos'
        BY <1>3, <1>7
      <4>. QED
        BY <1>4, <1>7, <3>1, <3>3, <4>1 DEF FillAccounted
    <3>4. fpc[f] \in {"sending", "done"} => 1..pos' \subseteq Held'
      BY <2>1, <3>1 DEF FillAccounted
    <3>. QED
      BY <1>7, <3>2, <3>3, <3>4 DEF FillAccounted
  <2>5. ASSUME NEW e \in In(wire'), e.kind = "page"
        PROVE  fpc'[e.fill] = "served" /\ ~e.more => (e.hi + 1)..pos' \subseteq Held'
    <3>1. e \in In(wire)
      BY <1>7, <2>5
    <3>2. e.fill \in GapFills /\ e.hi + 1 \in Nat /\ PageAccounted(e)
      <4>1. e \in Pages
        BY <1>3, <2>5, <3>1, GapKinds DEF In
      <4>. QED
        BY <1>7, <2>5, <3>1, <4>1, GapKinds, GapBounds DEF Accounted
    <3>3. fpc'[e.fill] = "served" => fpc[e.fill] = "served"
      BY <1>7, <3>2
    <3>. QED
      BY <2>1, <3>2, <3>3 DEF PageAccounted
  <2>6. Accounted'
    BY <2>2, <2>3, <2>4, <2>5 DEF Accounted, PageAccounted
  <2>. QED
    BY <1>7, <2>6 DEF Complete
<1>8. ASSUME ~Skip, pos' >= pos, pos' \in Nat, Accounted, ~abandoned', UNCHANGED fill,
             wire' = wire \/ (\E e \in Parkable \cup Pages : e.kind = "event" /\ wire' = Append(wire, e))
               \/ (wire # <<>> /\ wire' = Tail(wire) /\ Head(wire).kind = "event")
      PROVE  Complete'
  <2>1. \/ In(wire') = In(wire)
        \/ \E e \in Parkable \cup Pages : e.kind = "event" /\ In(wire') = In(wire) \cup {e}
        \/ In(wire) = In(wire') \cup {Head(wire)} /\ Head(wire).kind = "event"
    <3>1. CASE wire' = wire
      BY <3>1
    <3>2. CASE \E e \in Parkable \cup Pages : e.kind = "event" /\ wire' = Append(wire, e)
      BY <1>3, <3>2, AppendOf
    <3>3. CASE wire # <<>> /\ wire' = Tail(wire) /\ Head(wire).kind = "event"
      BY <1>3, <3>3, TailOf
    <3>. QED
      BY <1>8, <3>1, <3>2, <3>3
  <2>2. /\ \A e \in In(wire') : e.kind \in {"gap", "page"} => e \in In(wire)
        /\ \A e \in In(wire) : e.kind = "gap" => e \in In(wire')
    BY <2>1
  <2>. QED
    BY <1>7, <1>8, <2>2
<1>9. CASE Reported
  BY <1>4, <1>6, <1>9
<1>. SUFFICES ASSUME Accounted, ~abandoned PROVE Complete'
  BY <1>5, <1>9
<1>10. CASE Produce
  <2>1. Event(pos + 1) \in Parkable \cup Pages /\ Event(pos + 1).kind = "event"
    <3>1. pos + 1 \in 1..MaxCursor
      BY <1>3, <1>10, GapBounds DEF Produce
    <3>. QED
      BY <3>1, GapKinds
  <2>2. wire' = Append(wire, Event(pos + 1)) /\ pos' = pos + 1 /\ UNCHANGED <<gaps, gapState, fill>>
    BY <1>10 DEF Produce
  <2>3. CASE Skip
    BY <1>2, <2>2, <2>3 DEF Skip
  <2>4. CASE ~Skip
    <3>1. pos' >= pos /\ pos' \in Nat
      BY <1>3, <2>2
    <3>. QED
      BY <1>8, <2>1, <2>2, <2>4, <3>1
  <2>. QED
    BY <2>3, <2>4
(* The range a gap announces starts behind everything held.                  *)
<1>11. CASE Skip
  <2>1. gaps = 0 /\ wire' = Append(wire, Gap(pos)) /\ UNCHANGED <<gapState, fill>>
    BY <1>2, <1>11 DEF Skip
  <2>2. (\A i \in DOMAIN wire : ~GapAt(i)) /\ \A f \in GapFills : fpc[f] = "none"
    BY <1>1, <2>1 DEF OneFill, Started
  <2>3. \A e \in In(wire) : e.kind # "gap"
    BY <2>2 DEF In, GapAt
  <2>4. 1..pos \subseteq Held'
    BY <1>4, <2>2, <2>3 DEF Accounted, NoGapYet, Started
  <2>5. In(wire') = In(wire) \cup {Gap(pos)} /\ Gap(pos).kind = "gap" /\ Gap(pos).at = pos
    <3>1. Gap(pos) \in Parkable \cup Pages /\ Gap(pos).kind = "gap" /\ Gap(pos).at = pos
      BY <1>3, GapKinds
    <3>2. In(Append(wire, Gap(pos))) = In(wire) \cup {Gap(pos)}
      BY <1>3, <3>1, AppendOf
    <3>. QED
      BY <2>1, <3>1, <3>2
  <2>6. \A e \in In(wire') : e.kind = "gap" => 1..e.at \subseteq Held'
    BY <2>3, <2>4, <2>5
  <2>7. ~NoGapYet'
    BY <2>5 DEF NoGapYet
  <2>8. \A f \in GapFills : fpc'[f] = "none"
    BY <2>1, <2>2
  <2>9. \A f \in GapFills : FillAccounted(f)'
    BY <2>8 DEF FillAccounted
  <2>10. ASSUME NEW e \in In(wire'), e.kind = "page"
         PROVE  fpc'[e.fill] # "served"
    <3>1. e \in In(wire)
      BY <2>5, <2>10
    <3>2. e.fill \in GapFills
      BY <1>3, <2>10, <3>1, GapKinds DEF In
    <3>. QED
      BY <2>8, <3>2
  <2>11. Accounted'
    BY <2>6, <2>7, <2>9, <2>10 DEF Accounted, PageAccounted
  <2>. QED
    BY <2>1, <2>11 DEF Complete
<1>12. CASE Stop \/ ReaderSend \/ ReadEnd \/ UNCHANGED gapVars
  <2>1. wire' = wire /\ pos' = pos /\ UNCHANGED <<gaps, gapState, fill>>
    BY <1>12 DEF Stop, ReaderSend, ReadEnd, gapVars
  <2>2. ~Skip
    BY <1>2, <2>1 DEF Skip
  <2>3. pos' >= pos /\ pos' \in Nat
    BY <1>3, <2>1
  <2>. QED
    BY <1>8, <2>1, <2>2, <2>3
<1>13. ASSUME NEW f \in GapFills, ServePage(f) PROVE Complete'
  <2>. DEFINE last == IF cursor[f] + PageLimit < pos THEN cursor[f] + PageLimit ELSE pos
              page == Page(f, cursor[f] + 1, last)
  <2>1. /\ wire' = Append(wire, page) /\ fpc[f] = "asking" /\ fpc' = [fpc EXCEPT ![f] = "served"]
        /\ UNCHANGED <<pos, abandoned, cursor, filled, aborted>>
    BY <1>13 DEF ServePage
  <2>2. last \in 0..MaxCursor /\ last <= pos /\ cursor[f] + 1 \in 1..(MaxCursor + 1)
    BY <1>1, <1>3, GapBounds DEF GapTypeInv, GapTypeOK
  <2>. HIDE DEF last
  <2>3. /\ page \in Pages /\ page.kind = "page" /\ page.fill = f /\ page.hi = last
        /\ page.more = (last < pos)
    <3>1. page \in Pages
      BY <2>2 DEF Page, Pages
    <3>2. page = [kind |-> "page", fill |-> f, lo |-> cursor[f] + 1, hi |-> last, more |-> last < pos]
      BY DEF Page
    <3>. HIDE DEF page
    <3>. QED
      BY <3>1, <3>2
  <2>4. ~page.more => (page.hi + 1)..pos = {}
    <3>1. ~(last < pos) => last = pos
      BY <1>3, <2>2
    <3>2. (pos + 1)..pos = {}
      BY <1>3
    <3>. QED
      BY <2>3, <3>1, <3>2
  <2>. HIDE DEF page
  <2>5. In(wire') = In(wire) \cup {page}
    BY <1>3, <2>1, <2>3, AppendOf
  <2>6. fpc'[f] = "served" /\ \A g \in GapFills : g # f => fpc'[g] = fpc[g]
    BY <1>2, <2>1
  <2>7. ~NoGapYet'
    BY <2>6 DEF NoGapYet, Started
  <2>8. \A e \in In(wire') : e.kind = "gap" => 1..e.at \subseteq Held'
    BY <1>4, <2>3, <2>5 DEF Accounted
  <2>9. ASSUME NEW g \in GapFills PROVE FillAccounted(g)'
    <3>1. FillAccounted(g)
      BY DEF Accounted
    <3>. QED
      BY <1>4, <2>1, <2>6, <3>1 DEF FillAccounted
  <2>10. ASSUME NEW e \in In(wire'), e.kind = "page"
         PROVE  fpc'[e.fill] = "served" /\ ~e.more => (e.hi + 1)..pos' \subseteq Held'
    <3>1. CASE e = page
      BY <2>1, <2>4, <3>1
    <3>2. CASE e \in In(wire)
      <4>1. e \in Pages /\ e.fill \in GapFills
        BY <1>3, <2>10, <3>2, GapKinds DEF In
      <4>2. e.fill # f
        BY <1>1, <2>1, <2>10, <3>2 DEF PagesAreDue, Due, In
      <4>. QED
        BY <1>4, <2>1, <2>6, <2>10, <3>2, <4>1, <4>2 DEF Accounted, PageAccounted
    <3>. QED
      BY <2>5, <3>1, <3>2
  <2>11. Accounted'
    BY <2>7, <2>8, <2>9, <2>10 DEF Accounted, PageAccounted
  <2>. QED
    BY <2>1, <2>11 DEF Complete
<1>14. ASSUME NEW e \in Parkable, Dispatch(e), wire # <<>>, e = Head(wire), wire' = Tail(wire), e.kind = "event",
              UNCHANGED <<server, fill>>
       PROVE  Complete'
  <2>1. PassedOn(e) \/ ParkedBehind(e) \/ GivenUp(e)
    BY <1>1, <1>14, DispatchDoes
  <2>2. CASE GivenUp(e)
    <3>1. Reported'
      BY <2>2 DEF GivenUp, Reported
    <3>. QED
      BY <1>6, <3>1
  <2>3. CASE PassedOn(e) \/ ParkedBehind(e)
    <3>1. ~abandoned' /\ ~Skip /\ pos' >= pos /\ pos' \in Nat
      BY <1>2, <1>3, <1>14, <2>3 DEF PassedOn, ParkedBehind, Skip
    <3>. QED
      BY <1>8, <1>14, <3>1
  <2>. QED
    BY <2>1, <2>2, <2>3
<1>15. CASE ReadEvent
  <2>1. Head(wire) \in Parkable
    BY <1>1, <1>15, WireHead DEF ReadEvent
  <2>. QED
    BY <1>14, <1>15, <2>1 DEF ReadEvent
(* Every event up to the gap is held when its fill starts.                   *)
<1>16. CASE ReadGap
  <2>1. /\ wire # <<>> /\ wire' = Tail(wire) /\ Head(wire).kind = "gap" /\ pos' = pos
        /\ In(wire) = {Head(wire)} \cup In(wire')
        /\ 1 \in DOMAIN wire /\ wire[1] = Head(wire)
    BY <1>3, <1>16, TailOf DEF ReadGap
  <2>2. \A f \in GapFills : fpc[f] = "none"
    BY <1>1, <2>1 DEF OneFill, Started, GapAt
  <2>3. ~parking
    BY <1>1, <2>2 DEF OneFill, Active
  <2>4. PICK f \in GapFills : /\ fpc' = [fpc EXCEPT ![f] = "asking"] /\ cursor' = [cursor EXCEPT ![f] = Head(wire).at]
                              /\ UNCHANGED <<abandoned, filled, aborted>>
    BY <1>16, <2>3 DEF ReadGap
  <2>5. fpc'[f] = "asking" /\ cursor'[f] = Head(wire).at /\ \A g \in GapFills : g # f => fpc'[g] = "none"
    BY <1>2, <2>2, <2>4
  <2>6. ~NoGapYet'
    BY <2>5 DEF NoGapYet, Started
  <2>7. \A e \in In(wire') : e.kind = "gap" => 1..e.at \subseteq Held'
    BY <1>4, <2>1 DEF Accounted
  <2>8. 1..cursor'[f] \subseteq Held'
    BY <1>4, <2>1, <2>5 DEF Accounted
  <2>9. ASSUME NEW g \in GapFills PROVE FillAccounted(g)'
    BY <2>5, <2>8 DEF FillAccounted
  <2>10. ASSUME NEW e \in In(wire'), e.kind = "page" PROVE fpc'[e.fill] # "served"
    <3>1. e.fill \in GapFills
      BY <1>3, <2>1, <2>10, GapKinds DEF In
    <3>. QED
      BY <2>5, <3>1
  <2>11. Accounted'
    BY <2>6, <2>7, <2>9, <2>10 DEF Accounted, PageAccounted
  <2>. QED
    BY <2>4, <2>11 DEF Complete
(* A page carries on where the fill stands; the last one reaches as far as   *)
(* the session had come, and what came after is on its way.                  *)
<1>17. CASE ReadPage
  <2>1. /\ wire # <<>> /\ wire' = Tail(wire) /\ Head(wire).kind = "page" /\ UNCHANGED <<pos, gaps, gapState>>
        /\ In(wire) = {Head(wire)} \cup In(wire')
        /\ 1 \in DOMAIN wire /\ wire[1] = Head(wire)
    BY <1>3, <1>17, TailOf DEF ReadPage
  <2>2. PICK p \in Pages : p = Head(wire)
    BY <1>3, <2>1, GapKinds
  <2>3. PICK f \in GapFills : f = p.fill
    BY GapKinds
  <2>4. ~Skip /\ pos' >= pos /\ pos' \in Nat
    BY <1>2, <1>3, <2>1 DEF Skip
  <2>5. CASE UNCHANGED fill
    <3>1. /\ \A e \in In(wire') : e.kind \in {"gap", "page"} => e \in In(wire)
          /\ \A e \in In(wire) : e.kind = "gap" => e \in In(wire')
      BY <2>1
    <3>. QED
      BY <1>7, <2>1, <2>4, <2>5, <3>1
  <2>6. CASE fpc[f] = "served" /\ TakePage(f, p)
    <3>1. Due(p) /\ p.lo \in Nat /\ p.hi \in Nat
      BY <1>1, <2>1, <2>2, GapKinds, GapBounds DEF PagesAreDue
    <3>2. p.lo = cursor[f] + 1 /\ cursor[f] <= p.hi /\ (p.lo > p.hi => ~p.more) /\ p.lo <= p.hi + 1
      BY <1>2, <2>3, <2>6, <3>1 DEF Due
    <3>3. /\ \A g \in GapFills : g # f => fpc'[g] = fpc[g]
          /\ CursorsIn(filled'[f]) = CursorsIn(filled[f]) \cup p.lo..p.hi
          /\ \/ p.more /\ p.lo <= p.hi /\ fpc'[f] = "asking" /\ cursor'[f] = p.hi /\ aborted'[f] = aborted[f]
             \/ p.more /\ p.lo <= p.hi /\ fpc'[f] = "ending" /\ cursor'[f] = p.hi /\ aborted'[f]
             \/ ~(p.more /\ p.lo <= p.hi) /\ fpc'[f] = "ending" /\ aborted'[f] = aborted[f]
      BY <1>1, <2>6, <3>2, TakePageDoes
    <3>4. \A g \in GapFills : g # f => fpc[g] = "none"
      BY <1>1, <2>6 DEF OneFill, Started
    <3>5. 1..cursor[f] \subseteq Held \cup CursorsIn(filled[f])
      BY <2>6 DEF Accounted, FillAccounted
    <3>6. 1..p.hi \subseteq Held' \cup CursorsIn(filled'[f])
      <4>1. \A k \in 1..p.hi : k \in 1..cursor[f] \/ k \in p.lo..p.hi
        BY <1>2, <3>1, <3>2
      <4>. QED
        BY <1>4, <3>3, <3>5, <4>1
    <3>7. ASSUME ~p.more PROVE 1..pos' \subseteq Held' \cup CursorsIn(filled'[f])
      <4>1. PageAccounted(p)
        BY <2>1, <2>2 DEF Accounted
      <4>2. (p.hi + 1)..pos \subseteq Held
        BY <2>3, <2>6, <3>7, <4>1 DEF PageAccounted
      <4>3. \A k \in 1..pos' : k \in 1..p.hi \/ k \in (p.hi + 1)..pos
        BY <1>3, <2>1, <3>1
      <4>. QED
        BY <1>4, <3>6, <4>2, <4>3
    <3>8. ~NoGapYet'
      BY <3>3 DEF NoGapYet, Started
    <3>9. \A e \in In(wire') : e.kind = "gap" => 1..e.at \subseteq Held'
      BY <1>4, <2>1 DEF Accounted
    <3>10. FillAccounted(f)'
      <4>1. CASE fpc'[f] = "asking"
        BY <3>3, <3>6, <4>1 DEF FillAccounted
      <4>2. CASE fpc'[f] = "ending" /\ aborted'[f]
        BY <4>2 DEF FillAccounted
      <4>3. CASE fpc'[f] = "ending" /\ ~p.more
        BY <3>7, <4>3 DEF FillAccounted
      <4>4. p.lo > p.hi \/ p.lo <= p.hi
        BY <3>1
      <4>. QED
        BY <3>2, <3>3, <4>1, <4>2, <4>3, <4>4
    <3>11. ASSUME NEW g \in GapFills, g # f PROVE FillAccounted(g)'
      BY <3>3, <3>4, <3>11 DEF FillAccounted
    <3>12. ASSUME NEW e \in In(wire'), e.kind = "page" PROVE fpc'[e.fill] # "served"
      <4>1. e.fill \in GapFills
        BY <1>3, <2>1, <3>12, GapKinds DEF In
      <4>. QED
        BY <3>3, <3>4, <4>1
    <3>13. Accounted'
      BY <3>8, <3>9, <3>10, <3>11, <3>12 DEF Accounted, PageAccounted
    <3>. QED
      BY <2>1, <3>13 DEF Complete
  <2>. QED
    BY <1>17, <2>2, <2>3, <2>5, <2>6 DEF ReadPage
<1>18. ASSUME NEW f \in GapFills, PageFails(f) PROVE Complete'
  <2>1. /\ UNCHANGED <<pos, gaps, gapState, wire, cursor, filled>> /\ fpc'[f] = "ending" /\ aborted'[f]
        /\ \A g \in GapFills : g # f => fpc'[g] = fpc[g] /\ aborted'[g] = aborted[g]
    BY <1>2, <1>18 DEF PageFails
  <2>2. ~NoGapYet'
    BY <2>1 DEF NoGapYet, Started
  <2>3. \A e \in In(wire') : e.kind = "gap" => 1..e.at \subseteq Held'
    BY <1>4, <2>1 DEF Accounted
  <2>4. FillAccounted(f)'
    BY <2>1 DEF FillAccounted
  <2>5. ASSUME NEW g \in GapFills, g # f PROVE FillAccounted(g)'
    <3>1. FillAccounted(g)
      BY DEF Accounted
    <3>. QED
      BY <1>4, <2>1, <2>5, <3>1 DEF FillAccounted
  <2>6. ASSUME NEW e \in In(wire'), e.kind = "page"
        PROVE  fpc'[e.fill] = "served" /\ ~e.more => (e.hi + 1)..pos' \subseteq Held'
    <3>1. e.fill \in GapFills /\ e \in In(wire)
      BY <1>3, <2>1, <2>6, GapKinds DEF In
    <3>. QED
      BY <1>4, <2>1, <2>6, <3>1 DEF Accounted, PageAccounted
  <2>7. Accounted'
    BY <2>2, <2>3, <2>4, <2>5, <2>6 DEF Accounted, PageAccounted
  <2>. QED
    BY <2>1, <2>7 DEF Complete
(* A fill that stopped short says so; one that did not has it all.           *)
<1>19. ASSUME NEW f \in GapFills, Release(f) PROVE Complete'
  <2>1. /\ fpc[f] = "ending" /\ UNCHANGED <<pos, gaps, wire, abandoned, aborted, cursor, filled>>
        /\ fpc'[f] = "sending" /\ \A g \in GapFills : g # f => fillOut'[g] = fillOut[g] /\ fpc'[g] = fpc[g]
        /\ CursorsIn(fillOut'[f]) = CursorsIn(filled[f]) \cup CursorsIn(parked)
        /\ aborted[f] => Abort \in In(fillOut'[f])
    BY <1>1, <1>19, ReleaseDoes
  <2>2. CASE aborted[f]
    <3>1. Reported'
      BY <2>1, <2>2 DEF Reported
    <3>. QED
      BY <1>6, <3>1
  <2>3. CASE ~aborted[f]
    <3>1. 1..pos \subseteq Held \cup CursorsIn(filled[f])
      BY <2>1, <2>3 DEF Accounted, FillAccounted
    <3>2. 1..pos' \subseteq Held'
      BY <1>4, <2>1, <3>1, HeldIs
    <3>3. ~NoGapYet'
      BY <2>1 DEF NoGapYet, Started
    <3>4. \A e \in In(wire') : e.kind = "gap" => 1..e.at \subseteq Held'
      BY <1>4, <2>1 DEF Accounted
    <3>5. FillAccounted(f)'
      BY <2>1, <3>2 DEF FillAccounted
    <3>6. ASSUME NEW g \in GapFills, g # f PROVE FillAccounted(g)'
      <4>1. FillAccounted(g)
        BY DEF Accounted
      <4>. QED
        BY <1>4, <2>1, <3>6, <4>1 DEF FillAccounted
    <3>7. ASSUME NEW e \in In(wire'), e.kind = "page"
          PROVE  fpc'[e.fill] = "served" /\ ~e.more => (e.hi + 1)..pos' \subseteq Held'
      <4>1. e.fill \in GapFills /\ e \in In(wire)
        BY <1>3, <2>1, <3>7, GapKinds DEF In
      <4>. QED
        BY <1>4, <2>1, <3>7, <4>1 DEF Accounted, PageAccounted
    <3>8. Accounted'
      BY <3>3, <3>4, <3>5, <3>6, <3>7 DEF Accounted, PageAccounted
    <3>. QED
      BY <2>1, <3>8 DEF Complete
  <2>. QED
    BY <2>2, <2>3
<1>20. ASSUME NEW f \in GapFills, FillSend(f) PROVE Complete'
  <2>1. wire' = wire /\ UNCHANGED <<pos, gaps, abandoned, cursor, filled, aborted>>
    BY <1>20 DEF FillSend
  <2>2. \A g \in GapFills : fpc'[g] = fpc[g] \/ (fpc[g] = "sending" /\ fpc'[g] = "done")
    BY <1>2, <1>20 DEF FillSend
  <2>3. ~Skip /\ pos' >= pos /\ pos' \in Nat
    BY <1>2, <1>3, <2>1 DEF Skip
  <2>. QED
    BY <1>7, <2>1, <2>2, <2>3
<1>. QED
  BY <1>10, <1>11, <1>12, <1>13, <1>15, <1>16, <1>17, <1>18, <1>19, <1>20 DEF GapNext, ReaderTurn, FillStep, GapFinished

-----------------------------------------------------------------------------
(* The event plane.  The theorems.                                           *)

LEMMA GapInvInit == GapInit => GapInv
<1>. SUFFICES ASSUME GapInit PROVE GapInv
  OBVIOUS
<1>1. GapTypeInv
  BY GapTypeInit
<1>2. /\ pos = 0 /\ wire = <<>> /\ readerOut = <<>> /\ out = <<>> /\ ~parking /\ parked = <<>> /\ ~abandoned
      /\ \A f \in GapFills : fpc[f] = "none" /\ filled[f] = <<>> /\ ~aborted[f] /\ fillOut[f] = <<>>
  BY DEF GapInit
<1>3. CursorsIn(<<>>) = {} /\ In(<<>>) = {} /\ Increasing(<<>>) /\ DOMAIN <<>> = {}
  BY NothingIn, EmptySeq
<1>4. WireInOrder /\ PagesAreDue
  BY <1>2, <1>3 DEF WireInOrder, PagesAreDue
<1>5. FillsRun
  BY <1>2 DEF FillsRun, FillRuns, Active
<1>6. SentInOrder
  BY <1>2, <1>3 DEF SentInOrder, Older
<1>7. OneFill
  BY <1>2, <1>3 DEF OneFill, GapAt, Started, Active
<1>8. NoRepeats
  BY <1>2, <1>3 DEF NoRepeats, Distinct
<1>10. Sorted
  BY <1>2, <1>3 DEF Sorted, Orderly
<1>9. Complete
  <2>1. 1..pos = {}
    BY <1>2
  <2>2. \A f \in GapFills : FillAccounted(f)
    BY <1>2 DEF FillAccounted
  <2>3. Accounted
    BY <1>2, <1>3, <2>1, <2>2 DEF Accounted
  <2>. QED
    BY <1>2, <2>3 DEF Complete
<1>. QED
  BY <1>1, <1>4, <1>5, <1>6, <1>7, <1>8, <1>9, <1>10 DEF GapInv, Order, OneGap

LEMMA GapInvStep == GapInv /\ [GapNext]_gapVars => GapInv'
<1>. SUFFICES ASSUME GapInv, [GapNext]_gapVars PROVE GapInv'
  OBVIOUS
<1>1. GapTypeInv /\ WireInOrder /\ PagesAreDue /\ FillsRun
  BY DEF GapInv, Order
<1>2. GapTypeInv'
  BY <1>1, GapTypeStep
<1>3. WireInOrder' /\ PagesAreDue' /\ FillsRun' /\ SentInOrder'
  BY <1>1, WireInOrderStep, PagesAreDueStep, FillsRunStep, SentInOrderStep
<1>4. ASSUME gaps' <= 1 PROVE OneFill' /\ NoRepeats' /\ Sorted' /\ Complete'
  BY <1>4, OneFillStep, NoRepeatsStep, SortedStep, CompleteStep
<1>. QED
  BY <1>2, <1>3, <1>4 DEF GapInv, Order, OneGap

LEMMA GapInvAlways == GapSpec => []GapInv
  BY GapInvInit, GapInvStep, PTL DEF GapSpec

(* What a fill splices in and what an overflow releases is in cursor order   *)
(* for any number of gaps; with one, no event reaches the app twice.         *)
THEOREM OnceAndInOrderAlways == GapSpec => []OnceAndInOrder
<1>1. GapInv => OnceAndInOrder
  BY DEF GapInv, Order, SentInOrder, OneGap, NoRepeats, Distinct, OnceAndInOrder, SplicesAreInOrder, NoEventTwice
<1>. QED
  BY <1>1, GapInvAlways, PTL

(* With one gap, once everything is delivered the app has every event of the *)
(* session or was told that a backfill gave up.                              *)
THEOREM CompleteOrReportedAlways == GapSpec => []CompleteOrReported
<1>1. GapInv => CompleteOrReported
  <2>. SUFFICES ASSUME GapInv, Quiet, gaps <= 1
                PROVE  1..pos \subseteq CursorsIn(out) \/ \E i \in DOMAIN out : out[i] = Abort
    BY DEF CompleteOrReported
  <2>1. FillsRun /\ SentInOrder /\ OneFill /\ Complete
    BY DEF GapInv, Order, OneGap
  <2>2. wire = <<>> /\ readerOut = <<>> /\ \A f \in GapFills : fpc[f] \in {"none", "done"}
    BY DEF Quiet
  <2>3. \A f \in GapFills : fillOut[f] = <<>> /\ ~Active(f)
    BY <2>1, <2>2 DEF FillsRun, FillRuns, Active
  <2>4. parked = <<>>
    BY <2>1, <2>3 DEF OneFill, SentInOrder
  <2>5. In(<<>>) = {} /\ CursorsIn(<<>>) = {}
    BY NothingIn
  <2>6. Held \subseteq CursorsIn(out)
    BY <2>2, <2>3, <2>4, <2>5, HeldIs
  <2>7. CASE Reported
    BY <2>2, <2>3, <2>5, <2>7 DEF Reported, In
  <2>8. CASE Accounted
    <3>1. CASE \E f \in GapFills : fpc[f] = "done"
      BY <2>6, <2>8, <3>1 DEF Accounted, FillAccounted
    <3>2. CASE \A f \in GapFills : fpc[f] = "none"
      BY <2>2, <2>5, <2>6, <2>8, <3>2 DEF Accounted, NoGapYet, Started
    <3>. QED
      BY <2>2, <3>1, <3>2
  <2>. QED
    BY <2>1, <2>7, <2>8 DEF Complete
<1>. QED
  BY <1>1, GapInvAlways, PTL

(* With one gap the app hears the session in cursor order, pages ahead of    *)
(* what follows them, but for the live events that reach the channel between *)
(* a fill's unlock and its last send.                                        *)
THEOREM InOrderUnlessOvertakenAlways == GapSpec => []InOrderUnlessOvertaken
<1>1. GapInv => InOrderUnlessOvertaken
  BY DEF GapInv, OneGap, Sorted, Orderly, InTurn, InOrderUnlessOvertaken
<1>. QED
  BY <1>1, GapInvAlways, PTL
=============================================================================

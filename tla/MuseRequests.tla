---------------------------- MODULE MuseRequests ----------------------------
(***************************************************************************)
(* The request plane of one `muse serve` child: `Inner::request_value`,    *)
(* `Inner::write_line`, the muse-writer thread, `read_loop` with the       *)
(* response arms of `handle_frame`, and `MuseClient::shutdown`             *)
(* (crates/muse-client/src/client.rs).                                     *)
(*                                                                         *)
(* Every lock acquisition is a step of its own.  `pending`, `writes` and   *)
(* `gap` are held for single steps; the child mutex is held across the     *)
(* reader's wait, so it is a variable.                                     *)
(***************************************************************************)
EXTENDS Naturals, FiniteSets

CONSTANTS Calls,     \* calls of request_value, each made once
          Fills,     \* the calls made by muse-gapfill threads
          NoCall,    \* the request a malformed or unowned frame answers
          MaxFaults  \* bound on the frames a correct server never sends

ASSUME CallsAssumption == Fills \subseteq Calls /\ NoCall \notin Calls
ASSUME FaultsAssumption == MaxFaults \in Nat

VARIABLES
    closed,     \* Inner.closed
    nextId,     \* Inner.next_id
    pending,    \* Inner.pending: the waiters, [id, call]
    writes,     \* Inner.writes: its sender, or dropped
    outbox,     \* lines queued for the writer thread, [id, call]
    writer,     \* the writer thread; the child's stdin is open while it runs
    pc, id, reply, result, \* per call: place, request id, channel, return value
    reader,     \* where the reader thread is
    hand,       \* senders the reader has taken out of the table: [call, kind, of]
    reported,   \* answers surfaced as PROTOCOL_ERROR events
    fills,      \* GapState.fills: the gap-fill threads shutdown will join
    joining,    \* the handles shutdown has taken
    childLock,  \* who holds the child mutex
    shut,       \* how far shutdown has got
    child, inbox, stdout, sent, faults  \* the child process and its pipes

inner == <<closed, nextId, pending, writes>>
calls == <<pc, id, reply, result>>
rthread == <<reader, hand, reported>>
stop == <<fills, joining, childLock, shut>>
pipes == <<outbox, writer, child, inbox, stdout, sent, faults>>
vars == <<inner, calls, rthread, stop, pipes>>

-----------------------------------------------------------------------------
(* Data.  A frame carries the request it answers (`of`), so that an answer  *)
(* handed to the wrong caller is visible; the code only sees its `id`.      *)

Requests == [id : Nat, call : Calls]
Frames == [kind : {"ok", "rpc", "garbage", "badUtf8"}, id : Nat,
           of : Calls \cup {NoCall}]
Replies == [kind : {"none", "ok", "rpc", "closed", "timeout"},
            of : Calls \cup {NoCall}]

IsClosed == closed = TRUE
Down == IsClosed \/ child = "exited"

NoReply == [kind |-> "none", of |-> NoCall]
Closed == [kind |-> "closed", of |-> NoCall]
TimedOut == [kind |-> "timeout", of |-> NoCall]
AnswerOf(f) == [kind |-> f.kind, of |-> f.of]

\* `HashMap::insert`: an entry under the same id is replaced.
Insert(i, c) == {p \in pending : p.id # i} \cup {[id |-> i, call |-> c]}
KeepEntry(i) == pending   \* seeded fault: looked up, not removed
Without(i) == {p \in pending : p.id # i}
AnyWaiter(i) == pending   \* seeded fault: answers taken to come in order
Waiters(i) == {p \in pending : p.id = i}

FirstId == 1

Init ==
    /\ closed = FALSE /\ nextId = FirstId /\ pending = {} /\ writes = "held"
    /\ outbox = {} /\ writer = "running"
    /\ pc = [c \in Calls |-> "start"]
    /\ id = [c \in Calls |-> 0]
    /\ reply = [c \in Calls |-> NoReply]
    /\ result = [c \in Calls |-> NoReply]
    /\ reader = "reading" /\ hand = {} /\ reported = {}
    /\ fills = {} /\ joining = {} /\ childLock = "free" /\ shut = "no"
    /\ child = "running" /\ inbox = {} /\ stdout = {} /\ sent = {} /\ faults = 0

-----------------------------------------------------------------------------
(* Inner::request_value, one call *)

\* `shutdown` takes `&mut self`: no other owner of the client is inside it.
Enter(c) ==
    /\ pc[c] = "start" /\ c \notin Fills /\ shut = "no"
    /\ pc' = [pc EXCEPT ![c] = "called"]
    /\ UNCHANGED <<inner, id, reply, result, rthread, stop, pipes>>

Return(c, r) ==
    /\ pc' = [pc EXCEPT ![c] = "returned"]
    /\ result' = [result EXCEPT ![c] = r]
    /\ UNCHANGED <<id, reply>>

CheckClosed(c) ==
    /\ pc[c] = "called"
    /\ IF IsClosed THEN Return(c, Closed)
       ELSE /\ pc' = [pc EXCEPT ![c] = "checked"]
            /\ UNCHANGED <<id, reply, result>>
    /\ UNCHANGED <<inner, rthread, stop, pipes>>

\* next_id.fetch_add and the insert under the pending lock.
Register(c) ==
    /\ pc[c] = "checked"
    /\ nextId' = nextId + 1
    /\ id' = [id EXCEPT ![c] = nextId]
    /\ pending' = Insert(nextId, c)
    /\ pc' = [pc EXCEPT ![c] = "registered"]
    /\ UNCHANGED <<closed, writes, reply, result, rthread, stop, pipes>>

\* write_line: refused when shutdown dropped the sender or the writer thread
\* ended, either of which is seen under the writes lock.
WriteLine(c) ==
    /\ pc[c] = "registered"
    /\ IF writes = "held" /\ writer = "running"
       THEN /\ outbox' = outbox \cup {[id |-> id[c], call |-> c]}
            /\ pc' = [pc EXCEPT ![c] = "waiting"]
       ELSE /\ pc' = [pc EXCEPT ![c] = "refused"]
            /\ UNCHANGED outbox
    /\ UNCHANGED <<inner, id, reply, result, rthread, stop,
                   writer, child, inbox, stdout, sent, faults>>

Receive(c) ==
    /\ pc[c] = "waiting" /\ reply[c] # NoReply
    /\ Return(c, reply[c])
    /\ UNCHANGED <<inner, rthread, stop, pipes>>

\* Seeded fault: recv instead of recv_timeout.
NeverExpire(c) == FALSE /\ UNCHANGED vars

\* recv_timeout gave up; the pending lock is not taken yet.
Expire(c) ==
    /\ pc[c] = "waiting" /\ reply[c] = NoReply
    /\ pc' = [pc EXCEPT ![c] = "expired"]
    /\ UNCHANGED <<inner, id, reply, result, rthread, stop, pipes>>

\* The entry is removed, if it is still there, and the error returned.
GiveUp(c) ==
    /\ pc[c] \in {"refused", "expired"}
    /\ pending' = Without(id[c])
    /\ Return(c, IF pc[c] = "refused" THEN Closed ELSE TimedOut)
    /\ UNCHANGED <<closed, nextId, writes, rthread, stop, pipes>>

-----------------------------------------------------------------------------
(* The reader thread: read_loop and handle_frame *)

\* A response hands its result over under the pending lock; an id nobody waits
\* for becomes a PROTOCOL_ERROR event.
HandleResponse(f) ==
    /\ f.kind = "ok"
    /\ IF Waiters(f.id) # {}
       THEN \E p \in Waiters(f.id) :
              /\ pending' = Without(f.id)
              /\ reply' = [reply EXCEPT ![p.call] = AnswerOf(f)]
              /\ UNCHANGED reported
       ELSE /\ reported' = reported \cup {f.of}
            /\ UNCHANGED <<pending, reply>>
    /\ UNCHANGED <<reader, hand>>

\* An error response is only claimed under the lock and delivered after it.
HandleErrorResponse(f) ==
    /\ f.kind = "rpc"
    /\ IF Waiters(f.id) # {}
       THEN /\ hand' = {[call |-> p.call, res |-> AnswerOf(f)] : p \in Waiters(f.id)}
            /\ pending' = Without(f.id)
            /\ reader' = "delivering"
            /\ UNCHANGED reported
       ELSE /\ reported' = reported \cup {f.of}
            /\ UNCHANGED <<pending, hand, reader>>
    /\ UNCHANGED reply

\* A line that is not a frame is surfaced and reading goes on; a line that is
\* not UTF-8 makes `lines()` fail, which ends the loop.
HandleNoise(f) ==
    /\ \/ f.kind = "garbage" /\ reported' = reported \cup {f.of} /\ UNCHANGED reader
       \/ f.kind = "badUtf8" /\ reader' = "leaving" /\ UNCHANGED reported
    /\ UNCHANGED <<pending, reply, hand>>

ReadFrame ==
    /\ reader = "reading"
    /\ \E f \in stdout :
         /\ stdout' = stdout \ {f}
         /\ HandleResponse(f) \/ HandleErrorResponse(f) \/ HandleNoise(f)
    /\ UNCHANGED <<closed, nextId, writes, pc, id, result, stop,
                   outbox, writer, child, inbox, sent, faults>>

\* A view/gap notification makes the reader spawn and track a gap-fill thread.
SpawnFill(c) ==
    /\ reader = "reading" /\ c \in Fills /\ pc[c] = "start"
    /\ pc' = [pc EXCEPT ![c] = "called"]
    /\ fills' = fills \cup {c}
    /\ UNCHANGED <<inner, id, reply, result, rthread, joining, childLock, shut, pipes>>

EndOfStream ==
    /\ reader = "reading" /\ child = "exited" /\ stdout = {}
    /\ reader' = "leaving"
    /\ UNCHANGED <<inner, calls, hand, reported, stop, pipes>>

MarkClosed ==
    /\ reader = "leaving"
    /\ closed' = TRUE
    /\ reader' = "locking"
    /\ UNCHANGED <<nextId, pending, writes, calls, hand, reported, stop, pipes>>

\* The child mutex is held across `wait`.
LockChild ==
    /\ reader = "locking" /\ childLock = "free"
    /\ childLock' = "reader"
    /\ reader' = "reaping"
    /\ UNCHANGED <<inner, calls, hand, reported, fills, joining, shut, pipes>>

Reap ==
    /\ reader = "reaping" /\ child = "exited"
    /\ childLock' = "free"
    /\ reader' = "draining"
    /\ UNCHANGED <<inner, calls, hand, reported, fills, joining, shut, pipes>>

\* Seeded fault: the waiters are not failed.
SkipDrain ==
    /\ reader = "draining" /\ reader' = "failing"
    /\ UNCHANGED <<inner, calls, hand, reported, stop, pipes>>

Drain ==
    /\ reader = "draining"
    /\ hand' = {[call |-> p.call, res |-> Closed] : p \in pending}
    /\ pending' = {}
    /\ reader' = "failing"
    /\ UNCHANGED <<closed, nextId, writes, calls, reported, stop, pipes>>

\* Send to one claimed waiter; a waiter that has returned dropped its receiver.
Deliver ==
    /\ reader \in {"delivering", "failing"}
    /\ \E h \in hand :
         /\ hand' = hand \ {h}
         /\ reply' = IF pc[h.call] = "returned" THEN reply
                     ELSE [reply EXCEPT ![h.call] = h.res]
    /\ reader' = IF reader = "delivering" THEN "reading" ELSE reader
    /\ UNCHANGED <<inner, pc, id, result, reported, stop, pipes>>

\* MuseEvent::Closed is the reader's last event.
AnnounceClosed ==
    /\ reader = "failing" /\ hand = {}
    /\ reader' = "done"
    /\ UNCHANGED <<inner, calls, hand, reported, stop, pipes>>

-----------------------------------------------------------------------------
(* MuseClient::shutdown and Drop *)

BeginShutdown ==
    /\ shut = "no" /\ \A c \in Calls \ Fills : pc[c] \in {"start", "returned"}
    /\ closed' = TRUE
    /\ shut' = "flagged"
    /\ UNCHANGED <<nextId, pending, writes, calls, rthread,
                   fills, joining, childLock, pipes>>

\* Seeded fault: the writer's inbox is kept, so stdin stays open.
KeepWrites ==
    /\ shut = "flagged" /\ shut' = "dropped"
    /\ UNCHANGED <<inner, calls, rthread, fills, joining, childLock, pipes>>

DropWrites ==
    /\ shut = "flagged"
    /\ writes' = "dropped"
    /\ shut' = "dropped"
    /\ UNCHANGED <<closed, nextId, pending, calls, rthread,
                   fills, joining, childLock, pipes>>

KillChild ==
    /\ shut = "dropped" /\ childLock = "free"
    /\ child' = "exited"
    /\ shut' = "killed"
    /\ UNCHANGED <<inner, calls, rthread, fills, joining, childLock,
                   outbox, writer, inbox, stdout, sent, faults>>

TakeFills ==
    /\ shut = "killed"
    /\ joining' = fills
    /\ fills' = {}
    /\ shut' = "joining"
    /\ UNCHANGED <<inner, calls, rthread, childLock, pipes>>

JoinFills ==
    /\ shut = "joining" /\ \A c \in joining : pc[c] = "returned"
    /\ shut' = "joined"
    /\ UNCHANGED <<inner, calls, rthread, fills, joining, childLock, pipes>>

\* Drop joins the reader and the writer.
JoinThreads ==
    /\ shut = "joined" /\ reader = "done" /\ writer = "ended"
    /\ shut' = "done"
    /\ UNCHANGED <<inner, calls, rthread, fills, joining, childLock, pipes>>

-----------------------------------------------------------------------------
(* The writer thread *)

WriterWrite ==
    /\ writer = "running"
    /\ \E l \in outbox :
         /\ outbox' = outbox \ {l}
         /\ IF child = "running"
            THEN inbox' = inbox \cup {l} /\ UNCHANGED writer
            ELSE writer' = "ended" /\ UNCHANGED inbox
    /\ UNCHANGED <<inner, calls, rthread, stop, child, stdout, sent, faults>>

WriterEnd ==
    /\ writer = "running" /\ outbox = {} /\ writes = "dropped"
    /\ writer' = "ended"
    /\ UNCHANGED <<inner, calls, rthread, stop,
                   outbox, child, inbox, stdout, sent, faults>>

-----------------------------------------------------------------------------
(* The child process: external.  It answers requests in any order, or never, *)
(* and may exit whenever it likes, leaving what it wrote in the pipe.        *)

ServerAnswer ==
    /\ child = "running"
    /\ \E l \in inbox, k \in {"ok", "rpc"} :
         LET f == [kind |-> k, id |-> l.id, of |-> l.call] IN
         /\ inbox' = inbox \ {l}
         /\ stdout' = stdout \cup {f}
         /\ sent' = sent \cup {f}
    /\ UNCHANGED <<inner, calls, rthread, stop, outbox, writer, child, faults>>

\* A second copy of an answer, an error with a null id (0 is never issued), a
\* line that is no frame, or one that is not UTF-8.
Noise == {[kind |-> k, id |-> 0, of |-> NoCall] : k \in {"rpc", "garbage", "badUtf8"}}

ServerFault ==
    /\ child = "running" /\ faults < MaxFaults
    /\ faults' = faults + 1
    /\ \E f \in sent \cup Noise : stdout' = stdout \cup {f}
    /\ UNCHANGED <<inner, calls, rthread, stop, outbox, writer, child, inbox, sent>>

ChildExit ==
    /\ child = "running"
    /\ child' = "exited"
    /\ UNCHANGED <<inner, calls, rthread, stop,
                   outbox, writer, inbox, stdout, sent, faults>>

\* Everything has stopped: the only state in which nothing more happens.
Finished ==
    /\ shut = "done" /\ \A c \in Fills : pc[c] \in {"start", "returned"}
    /\ UNCHANGED vars

-----------------------------------------------------------------------------
CallStep(c) ==
    Enter(c) \/ CheckClosed(c) \/ Register(c) \/ WriteLine(c)
    \/ Receive(c) \/ Expire(c) \/ GiveUp(c)

ReaderStep ==
    ReadFrame \/ (\E c \in Calls : SpawnFill(c)) \/ EndOfStream \/ MarkClosed
    \/ LockChild \/ Reap \/ Drain \/ Deliver \/ AnnounceClosed

ShutdownStep ==
    BeginShutdown \/ DropWrites \/ KillChild \/ TakeFills \/ JoinFills \/ JoinThreads

ServerStep == ServerAnswer \/ ServerFault \/ ChildExit

Next ==
    \/ \E c \in Calls : CallStep(c)
    \/ ReaderStep
    \/ ShutdownStep
    \/ WriterWrite \/ WriterEnd
    \/ ServerStep
    \/ Finished

Spec == Init /\ [][Next]_vars

-----------------------------------------------------------------------------
(* Fairness.  Every thread keeps running; a lock is held for one step except *)
(* the child mutex, so weak fairness is enough.  Nothing is assumed of the   *)
(* server but that `muse serve` exits once its stdin is closed.  The         *)
(* REQUEST_TIMEOUT timers are kept apart: a property that needs them assumes  *)
(* TimersFire, one that does not holds without waiting for a timer.          *)

ThreadFairness ==
    /\ \A c \in Calls : WF_vars(CheckClosed(c) \/ Register(c) \/ WriteLine(c)
                                \/ Receive(c) \/ GiveUp(c))
    /\ WF_vars(ReadFrame \/ EndOfStream \/ MarkClosed \/ LockChild \/ Reap
               \/ Drain \/ Deliver \/ AnnounceClosed)
    /\ WF_vars(DropWrites \/ KillChild \/ TakeFills \/ JoinFills \/ JoinThreads)
    /\ WF_vars(WriterWrite \/ WriterEnd)
    /\ WF_vars(writer = "ended" /\ ChildExit)

FairSpec == Spec /\ ThreadFairness

TimersFire == \A c \in Calls : WF_vars(Expire(c))

-----------------------------------------------------------------------------
(* Properties *)

Places == {"start", "called", "checked", "registered", "waiting", "refused",
           "expired", "returned"}
ReaderPlaces == {"reading", "delivering", "leaving", "locking", "reaping",
                 "draining", "failing", "done"}
ShutPlaces == {"no", "flagged", "dropped", "killed", "joining", "joined", "done"}

\* Every variable keeps its type.
TypeOK ==
    /\ closed \in BOOLEAN
    /\ writes \in {"held", "dropped"} /\ writer \in {"running", "ended"}
    /\ nextId \in Nat \ {0}
    /\ pending \in SUBSET Requests
    /\ outbox \in SUBSET Requests /\ inbox \in SUBSET Requests
    /\ pc \in [Calls -> Places] /\ id \in [Calls -> Nat]
    /\ reply \in [Calls -> Replies] /\ result \in [Calls -> Replies]
    /\ reader \in ReaderPlaces
    /\ hand \in SUBSET [call : Calls, res : Replies]
    /\ reported \in SUBSET (Calls \cup {NoCall})
    /\ fills \in SUBSET Fills /\ joining \in SUBSET Fills
    /\ childLock \in {"free", "reader"} /\ shut \in ShutPlaces
    /\ child \in {"running", "exited"}
    /\ stdout \in SUBSET Frames /\ sent \in SUBSET Frames
    /\ faults \in Nat

\* The reader never blocks on a caller: reply channels are bounded(1) and the
\* reader sends under the pending lock, so a waiter whose sender is still in the
\* table, or in the reader's hand, has an empty channel, and no waiter has two
\* senders (request_value, handle_frame, read_loop).
ReaderNeverBlocks ==
    /\ \A p \in pending : reply[p.call] = NoReply
    /\ \A h \in hand : reply[h.call] = NoReply
    /\ \A p \in pending, h \in hand : p.call # h.call

\* A caller gets the server's answer to its own request, whatever order the
\* server answers in and however often it repeats itself.
AnswerIsOwn ==
    \A c \in Calls : \A r \in {reply[c], result[c]} :
        r.kind \in {"ok", "rpc"} => r.of = c

\* The table of waiters does not leak: a call that has returned, by an answer,
\* a refused write or a timeout, has no entry left, so that a later answer to it
\* is reported instead of being sent to nobody.
ReturnedCallsLeaveNoWaiter ==
    \A p \in pending : pc[p.call] # "returned"

\* Closed is never reported of a live connection: the flag is up or the child
\* is gone (a refused write sees the child's death before the reader does).
ClosedMeansDown ==
    \A c \in Calls : result[c] = Closed => Down

\* Every call returns, with an answer or without one.
EveryCallReturns ==
    TimersFire => \A c \in Calls : ((pc[c] = "called") ~> (pc[c] = "returned"))

\* Shutdown returns even when the reader already sits in `wait` with the child
\* mutex held: dropping the writer's inbox closes stdin, which ends the child.
ShutdownCompletes == TimersFire => ((shut = "flagged") ~> (shut = "done"))

\* A call whose waiter is in the table when the child goes, before the reader
\* drains it, returns without waiting for its timer.
InFlightCallsFailPromptly ==
    \A c \in Calls :
        (/\ child = "exited" /\ reader \notin {"failing", "done"}
         /\ \E p \in pending : p.call = c) ~> (pc[c] = "returned")

\* The plane implements the contract its callers rely on.
OutcomeBar == [c \in Calls |-> IF pc[c] = "start" THEN "idle"
                               ELSE IF pc[c] = "returned" THEN result[c].kind
                               ELSE "open"]
AnsweredBar == {f.of : f \in sent}

Contract == INSTANCE RequestContract
              WITH outcome <- OutcomeBar, answered <- AnsweredBar, down <- Down

ImplementsContract == Contract!CSpec

-----------------------------------------------------------------------------
(* The inductive invariant behind the safety properties above *)

CallsKeepTheirId ==
    \A c \in Calls :
        /\ id[c] < nextId
        /\ pc[c] \in {"start", "called", "checked"} => id[c] = 0 /\ reply[c] = NoReply
        /\ pc[c] \in {"registered", "waiting", "refused", "expired"} => id[c] # 0
        /\ \A d \in Calls : id[c] = id[d] /\ id[c] # 0 => c = d

WaitersOwnTheirEntry ==
    \A p \in pending :
        /\ p.id = id[p.call] /\ p.id # 0
        /\ pc[p.call] \in {"registered", "waiting", "refused", "expired"}
        /\ reply[p.call] = NoReply

Answered(c) == \E f \in sent : f.of = c

ClaimsAreSound ==
    /\ hand # {} => reader \in {"delivering", "failing"}
    /\ \A h \in hand :
         /\ reply[h.call] = NoReply /\ id[h.call] # 0
         /\ \A p \in pending : p.call # h.call
         /\ \A k \in hand : k.call = h.call \/ reader = "delivering" => k = h
         /\ \/ h.res = Closed /\ IsClosed
            \/ h.res.kind = "rpc" /\ h.res.of = h.call /\ Answered(h.call)

LinesCarryTheirId ==
    /\ \A l \in outbox \cup inbox : l.id = id[l.call] /\ l.id # 0
    /\ \A f \in sent : f.of \in Calls /\ f.id = id[f.of] /\ f.id # 0
                       /\ f.kind \in {"ok", "rpc"}
    /\ stdout \subseteq sent \cup Noise

OutcomesAreJustified ==
    \A c \in Calls :
        /\ reply[c] = NoReply \/ reply[c].kind \in {"ok", "rpc", "closed"}
        /\ \A r \in {reply[c], result[c]} :
             /\ r.kind \in {"ok", "rpc"} => r.of = c /\ Answered(c)
             /\ r.kind = "closed" => Down
        /\ pc[c] = "refused" => Down

DownIsRecorded ==
    /\ shut # "no" \/ reader \in {"locking", "reaping", "draining", "failing", "done"}
         => IsClosed
    /\ writes = "dropped" => IsClosed
    /\ writer = "ended" => Down

IInv ==
    /\ TypeOK /\ CallsKeepTheirId /\ WaitersOwnTheirEntry /\ ClaimsAreSound
    /\ LinesCarryTheirId /\ OutcomesAreJustified /\ DownIsRecorded
=============================================================================

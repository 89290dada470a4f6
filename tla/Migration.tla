----------------------------- MODULE Migration -----------------------------
(***************************************************************************)
(* Moving the owner's old provider sessions into Baaz's homes              *)
(* (crates/baaz/src/session_migration.rs) with the resumes that may do it  *)
(* lazily (app/lifecycle.rs `reopen_provider`) and the legacy pins of the  *)
(* providers (provider-claude-code/src/home.rs).  Files, the journal and   *)
(* the consent marker survive a crash; everything else does not.           *)
(*                                                                         *)
(* A file's bytes are a version: 0 is no file, `Partial` a torn one.  Two  *)
(* threads run the executor, the prompt's Move and a resume; a journal     *)
(* update is a read and a write, as `prune_journal` also runs without the  *)
(* executor's mutex.                                                       *)
(***************************************************************************)
EXTENDS Naturals, FiniteSets

CONSTANTS File, Session, SessionOf, \* the files, and the session of each
          Confirm,                  \* the prompt's Move, next to the resumes
          MaxWrites, MaxCrashes, MaxFaults, MaxRuns

ASSUME MigrationAssumption ==
    /\ SessionOf \in [File -> Session] /\ Confirm \notin Session
    /\ {MaxWrites, MaxCrashes, MaxFaults, MaxRuns} \subseteq Nat

VARIABLES
    source, target, staging, \* the owner's file, Baaz's, the copy under way
    newest, late,     \* what was ever written; written in the last window
    journal,          \* session-migration-journal.json
    consented,        \* session-migration.consented
    device,           \* whether the two homes are on one device
    cache,            \* MigrationCache.plan
    pins,             \* LEGACY_RESUME
    executor,         \* execute_plan's EXECUTOR mutex
    worker,           \* the background tasks
    raced, failed, missed, \* sessions a Move overtook, with a failed move,
                      \* and resumed from a home that does not have them
    writes, crashes, faults, runs \* bounds

disk == <<source, target, staging, newest, late>>
gate == <<consented, pins>>
story == <<raced, failed, missed>>
bounds == <<writes, crashes, faults, runs>>
vars == <<disk, journal, gate, device, cache, executor, worker, story, bounds>>

Workers == Session \cup {Confirm}
Partial == MaxWrites + 2
Entry(kind, f) == [kind |-> kind, file |-> f, age |-> "fresh"]
EntriesOf(j, kind) == {e.file : e \in {x \in j : x.kind = kind}}
Without(j, kind, f) == {e \in j : ~(e.kind = kind /\ e.file = f)}

Idle == [pc |-> "idle", gate |-> "none", plan |-> {}, todo |-> {}, file |-> {},
         seen |-> {}, before |-> 0, moved |-> "no", errors |-> "no"]

Init ==
    /\ source = [f \in File |-> 1] /\ newest = source /\ late = {}
    /\ target = [f \in File |-> 0] /\ staging = [f \in File |-> 0]
    /\ journal = {} /\ consented = "no" /\ device \in {"same", "cross"}
    /\ cache \in {{}, File} /\ pins = {} /\ executor = {}
    /\ worker = [w \in Workers |-> Idle]
    /\ raced = {} /\ failed = {} /\ missed = {}
    /\ writes = 0 /\ crashes = 0 /\ faults = 0 /\ runs = 0

At(w, pc) == worker[w].pc = pc
Now(w) == CHOOSE f \in File : worker[w].file = {f}
Busy(w) == ~At(w, "idle")
\* The worker goes on to `pc` with the rest of its record changed by `new`.
Becomes(w, new) == worker' = [worker EXCEPT ![w] = new]
Goes(w, pc) == worker' = [worker EXCEPT ![w].pc = pc]

-----------------------------------------------------------------------------
(* The plan and the journal *)

Plan(files) == {f \in files : source[f] # 0 /\ target[f] = 0}
Mine(w) == IF w = Confirm THEN File ELSE {f \in File : SessionOf[f] = w}

\* A journaled move is done only if its target says so too.
PendingByJournal(moves) == moves \ EntriesOf(journal, "done")
Pending(moves) ==
    {f \in moves : f \in EntriesOf(journal, "done")
                     => target[f] = 0 /\ source[f] # 0}

Pruned(j) == {e \in j : e.age = "fresh"}
Begun(j, f) == Without(j, "live", f) \cup {Entry("live", f)}
Completed(j, f) ==
    Without(Without(j, "live", f), "done", f) \cup {Entry("done", f)}
Dropped(j, f) == Without(j, "live", f)

\* Each update of the journal: the step that reads it, the step that writes
\* what the worker makes of it.
Writing == [prune |-> "pruning", begin |-> "beginning", mark |-> "marking",
            drop |-> "dropping"]

ReadJournal(w) ==
    /\ worker[w].pc \in DOMAIN Writing
    /\ Becomes(w, [worker[w] EXCEPT !.pc = Writing[@], !.seen = journal])
    /\ UNCHANGED <<disk, journal, gate, device, cache, executor, story, bounds>>

WriteJournal(w, pc, entries, next) ==
    /\ At(w, pc)
    /\ journal' = entries
    /\ Becomes(w, [worker[w] EXCEPT !.pc = next, !.seen = {}])
    /\ UNCHANGED <<disk, gate, device, cache, executor, story, bounds>>

PruneJournal(w) == WriteJournal(w, "pruning", Pruned(worker[w].seen), "filter")
BeginMove(w) == WriteJournal(w, "beginning", Begun(worker[w].seen, Now(w)), "move")
MarkCompleted(w) ==
    WriteJournal(w, "marking", Completed(worker[w].seen, Now(w)), "next")
DropRecord(w) == WriteJournal(w, "dropping", Dropped(worker[w].seen, Now(w)), "next")

-----------------------------------------------------------------------------
(* The prompt, the gate of a resume, and what both run *)

\* refresh_migration_cache: the walk, on startup, when the cache is stale, and
\* after a move.
RefreshCache ==
    /\ cache # Plan(File)
    /\ cache' = Plan(File)
    /\ UNCHANGED <<disk, journal, gate, device, executor, worker, story, bounds>>

\* confirm_session_migration: the consent and the pins, then the background
\* task.  A resume between its gate and its spawn is overtaken.
Overtaken ==
    {s \in Session : ~At(s, "idle") /\ ~At(s, "gate") /\ worker[s].gate # "lazy"}

Move ==
    /\ At(Confirm, "idle") /\ runs < MaxRuns
    /\ runs' = runs + 1
    /\ consented' = "yes" /\ pins' = {}
    /\ Becomes(Confirm, [Idle EXCEPT !.pc = "plan", !.plan = cache])
    /\ raced' = raced \cup Overtaken
    /\ UNCHANGED <<disk, journal, device, cache, executor, failed, missed,
                   writes, crashes, faults>>

\* reopen_provider's background work, for a session that has files.
Resume(s) ==
    /\ At(s, "idle") /\ runs < MaxRuns
    /\ runs' = runs + 1
    /\ Goes(s, "gate")
    /\ UNCHANGED <<disk, journal, gate, device, cache, executor, story,
                   writes, crashes, faults>>

\* legacy_resume_dir: the owner's files are all there is of it.
OnlyTheOwners(s) ==
    /\ consented = "no"
    /\ \E f \in Mine(s) : source[f] # 0
    /\ \A f \in Mine(s) : source[f] # 0 => target[f] = 0

GateWithoutMove(s) ==
    /\ At(s, "gate")
    /\ Becomes(s, [worker[s] EXCEPT
         !.gate = IF OnlyTheOwners(s) THEN "legacy" ELSE "home",
         !.pc = IF OnlyTheOwners(s) THEN "pin" ELSE "spawn"])
    /\ UNCHANGED <<disk, journal, gate, device, cache, executor, story, bounds>>

Gate(s) ==
    /\ At(s, "gate")
    /\ Becomes(s, [worker[s] EXCEPT
         !.gate = IF OnlyTheOwners(s) THEN "legacy"
                  ELSE IF consented = "yes" THEN "lazy" ELSE "home",
         !.pc = IF OnlyTheOwners(s) THEN "pin"
                ELSE IF consented = "yes" THEN "plan" ELSE "spawn"])
    /\ UNCHANGED <<disk, journal, gate, device, cache, executor, story, bounds>>

PinLegacyResume(s) ==
    /\ At(s, "pin")
    /\ pins' = pins \cup {s}
    /\ Goes(s, "spawn")
    /\ UNCHANGED <<disk, journal, consented, device, cache, executor, story, bounds>>

ClearLegacyResume(s) ==
    /\ At(s, "unpin")
    /\ pins' = IF worker[s].moved = "yes" THEN pins \ {s} ELSE pins
    /\ Goes(s, "spawn")
    /\ UNCHANGED <<disk, journal, consented, device, cache, executor, story, bounds>>

\* home_env_for: the child finds its transcript in the home it is given, or
\* the resume is missed.
OwnerHomed(s) == s \in pins
Missing(s) ==
    \E f \in Mine(s) : IF OwnerHomed(s) THEN source[f] = 0 ELSE target[f] = 0

Spawn(s) ==
    /\ At(s, "spawn")
    /\ Goes(s, IF OwnerHomed(s) THEN "owners" ELSE "ours")
    /\ missed' = IF Missing(s) THEN missed \cup {s} ELSE missed
    /\ UNCHANGED <<disk, journal, gate, device, cache, executor, raced, failed, bounds>>

Close(s) ==
    /\ worker[s].pc \in {"owners", "ours"}
    /\ Becomes(s, Idle)
    /\ UNCHANGED <<disk, journal, gate, device, cache, executor, story, bounds>>

\* plan_single, or the cached plan; a Move without one plans now.
MakePlan(w) ==
    /\ At(w, "plan")
    /\ Becomes(w, [worker[w] EXCEPT !.pc = "prune",
         !.plan = IF w = Confirm /\ @ # {} THEN @ ELSE Plan(Mine(w)),
         !.todo = IF w = Confirm /\ worker[w].plan # {} THEN worker[w].plan
                  ELSE Plan(Mine(w))])
    /\ UNCHANGED <<disk, journal, gate, device, cache, executor, story, bounds>>

\* pending_moves: by the caller, and by execute_plan under its mutex.
Filter(w) ==
    /\ At(w, "filter")
    /\ Becomes(w, [worker[w] EXCEPT !.todo = Pending(@),
                                    !.pc = IF w \in executor THEN "next" ELSE "lock"])
    /\ UNCHANGED <<disk, journal, gate, device, cache, executor, story, bounds>>

-----------------------------------------------------------------------------
(* execute_plan *)

LockNothing(w) ==
    /\ At(w, "lock")
    /\ executor' = executor \cup {w}
    /\ Goes(w, "sweep")
    /\ UNCHANGED <<disk, journal, gate, device, cache, story, bounds>>

LockExecutor(w) ==
    /\ At(w, "lock") /\ executor = {}
    /\ executor' = {w}
    /\ Goes(w, "sweep")
    /\ UNCHANGED <<disk, journal, gate, device, cache, story, bounds>>

\* A fresh in-progress record guards its staging entry.
CleanStaleStaging(w) ==
    /\ At(w, "sweep")
    /\ staging' = [f \in File |->
         IF f \in worker[w].todo /\ f \notin EntriesOf(Pruned(journal), "live")
           THEN 0 ELSE staging[f]]
    /\ Goes(w, "prune")
    /\ UNCHANGED <<source, target, newest, late, journal, gate, device, cache,
                   executor, story, bounds>>

NextMove(w) ==
    /\ At(w, "next")
    /\ \E f \in worker[w].todo :
         Becomes(w, [worker[w] EXCEPT !.pc = "begin", !.file = {f}, !.todo = @ \ {f}])
    /\ UNCHANGED <<disk, journal, gate, device, cache, executor, story, bounds>>

AllMoved(w) ==
    /\ At(w, "next") /\ worker[w].todo = {}
    /\ executor' = {}
    /\ Goes(w, IF w = Confirm THEN "report" ELSE "unpin")
    /\ UNCHANGED <<disk, journal, gate, device, cache, story, bounds>>

\* The toast, the dismissal, and the cache dropped.
Report ==
    /\ At(Confirm, "report")
    /\ cache' = {}
    /\ Becomes(Confirm, Idle)
    /\ UNCHANGED <<disk, journal, gate, device, executor, story, bounds>>

Fails(w) ==
    /\ Becomes(w, [worker[w] EXCEPT !.pc = "drop", !.errors = "yes"])
    /\ failed' = failed \cup {SessionOf[Now(w)]}
    /\ UNCHANGED <<raced, missed>>

\* The file system refuses: the rename, the copy, or a tree that holds what
\* cannot be copied.
Refused(w) ==
    /\ worker[w].pc \in {"move", "snapshot", "copying", "commit", "remove"}
    /\ faults < MaxFaults /\ faults' = faults + 1
    /\ Fails(w)
    /\ UNCHANGED <<disk, journal, gate, device, cache, executor, writes, crashes, runs>>

\* move_one: a target that is there, or a source that is gone, is a skip.
SkipMove(w) ==
    /\ At(w, "move")
    /\ target[Now(w)] # 0 \/ source[Now(w)] = 0
    /\ Goes(w, "drop")
    /\ UNCHANGED <<disk, journal, gate, device, cache, executor, story, bounds>>

MayMove(w) == At(w, "move") /\ target[Now(w)] = 0 /\ source[Now(w)] # 0

Rename(w) ==
    /\ MayMove(w) /\ device = "same"
    /\ target' = [target EXCEPT ![Now(w)] = source[Now(w)]]
    /\ source' = [source EXCEPT ![Now(w)] = 0]
    /\ Becomes(w, [worker[w] EXCEPT !.pc = "mark", !.moved = "yes"])
    /\ UNCHANGED <<staging, newest, late, journal, gate, device, cache, executor,
                   story, bounds>>

CrossDevice(w) ==
    /\ MayMove(w) /\ device = "cross"
    /\ Goes(w, "snapshot")
    /\ UNCHANGED <<disk, journal, gate, device, cache, executor, story, bounds>>

\* cross_device_move: the snapshot, then a copy that is torn until it is whole.

Snapshot(w) ==
    /\ At(w, "snapshot")
    /\ Becomes(w, [worker[w] EXCEPT !.pc = "copying", !.before = source[Now(w)]])
    /\ staging' = [staging EXCEPT ![Now(w)] = Partial]
    /\ UNCHANGED <<source, target, newest, late, journal, gate, device, cache,
                   executor, story, bounds>>

Copied(w) ==
    /\ At(w, "copying")
    /\ staging' = [staging EXCEPT ![Now(w)] = source[Now(w)]]
    /\ Goes(w, "verify")
    /\ UNCHANGED <<source, target, newest, late, journal, gate, device, cache,
                   executor, story, bounds>>

Verify(w) ==
    /\ At(w, "verify")
    /\ IF staging[Now(w)] = source[Now(w)]
         THEN Goes(w, "commit") /\ UNCHANGED story
         ELSE Fails(w)
    /\ UNCHANGED <<disk, journal, gate, device, cache, executor, bounds>>

Commit(w) ==
    /\ At(w, "commit")
    /\ target' = [target EXCEPT ![Now(w)] = staging[Now(w)]]
    /\ staging' = [staging EXCEPT ![Now(w)] = 0]
    /\ Goes(w, "compare")
    /\ UNCHANGED <<source, newest, late, journal, gate, device, cache, executor,
                   story, bounds>>

\* A source that changed since the snapshot keeps both copies.
CompareNothing(w) ==
    /\ At(w, "compare") /\ Goes(w, "remove")
    /\ UNCHANGED <<disk, journal, gate, device, cache, executor, story, bounds>>

Compare(w) ==
    /\ At(w, "compare")
    /\ IF source[Now(w)] = worker[w].before
         THEN Goes(w, "remove") /\ UNCHANGED story
         ELSE Fails(w)
    /\ UNCHANGED <<disk, journal, gate, device, cache, executor, bounds>>

RemoveSource(w) ==
    /\ At(w, "remove")
    /\ source' = [source EXCEPT ![Now(w)] = 0]
    /\ Becomes(w, [worker[w] EXCEPT !.pc = "mark", !.moved = "yes"])
    /\ UNCHANGED <<target, staging, newest, late, journal, gate, device, cache,
                   executor, story, bounds>>

-----------------------------------------------------------------------------
(* The owner, time, and a crash *)

\* The owner's own CLI, or a child resumed from the owner's home, appends.
OwnerWrites(f) ==
    /\ source[f] # 0 /\ writes < MaxWrites
    /\ writes' = writes + 1
    /\ source' = [source EXCEPT ![f] = newest[f] + 1]
    /\ newest' = [newest EXCEPT ![f] = @ + 1]
    /\ late' = IF \E w \in Workers : At(w, "remove") /\ worker[w].file = {f}
                 THEN late \cup {f} ELSE late
    /\ UNCHANGED <<target, staging, journal, gate, device, cache, executor, worker,
                   story, crashes, faults, runs>>

\* The owner puts a file back by hand, while nothing runs.
MovedBack(f) ==
    /\ \A w \in Workers : ~Busy(w)
    /\ faults < MaxFaults /\ faults' = faults + 1
    /\ target[f] # 0 /\ source[f] = 0
    /\ source' = [source EXCEPT ![f] = target[f]]
    /\ target' = [target EXCEPT ![f] = 0]
    /\ UNCHANGED <<staging, newest, late, journal, gate, device, cache, executor,
                   worker, story, writes, crashes, runs>>

\* A day (in-progress records are old) or a month passes between runs.
TimePasses(kinds) ==
    /\ \A w \in Workers : ~Busy(w)
    /\ \E e \in journal : e.kind \in kinds /\ e.age = "fresh"
    /\ journal' = {IF e.kind \in kinds THEN [e EXCEPT !.age = "old"] ELSE e : e \in journal}
    /\ UNCHANGED <<disk, gate, device, cache, executor, worker, story, bounds>>

Crash ==
    /\ crashes < MaxCrashes /\ crashes' = crashes + 1
    /\ \E w \in Workers : Busy(w)
    /\ worker' = [w \in Workers |-> Idle] /\ executor' = {} /\ pins' = {}
    /\ cache' = {}
    /\ UNCHANGED <<disk, journal, consented, device, story, writes, faults, runs>>

Done ==
    /\ runs = MaxRuns /\ \A w \in Workers : ~Busy(w)
    /\ UNCHANGED vars

-----------------------------------------------------------------------------

JournalStep(w) ==
    \/ ReadJournal(w) \/ PruneJournal(w) \/ BeginMove(w) \/ MarkCompleted(w)
    \/ DropRecord(w)
MoveStep(w) ==
    \/ SkipMove(w) \/ Rename(w) \/ CrossDevice(w) \/ Snapshot(w) \/ Copied(w)
    \/ Verify(w) \/ Commit(w) \/ Compare(w) \/ RemoveSource(w)
WorkerStep(w) ==
    \/ MakePlan(w) \/ Filter(w) \/ LockExecutor(w) \/ CleanStaleStaging(w)
    \/ NextMove(w) \/ AllMoved(w) \/ JournalStep(w) \/ MoveStep(w)
ResumeStep(s) ==
    \/ Gate(s) \/ PinLegacyResume(s) \/ ClearLegacyResume(s) \/ Spawn(s)

Next ==
    \/ RefreshCache \/ Move \/ Report \/ Crash \/ Done
    \/ \E s \in Session : Resume(s) \/ ResumeStep(s) \/ Close(s)
    \/ \E w \in Workers : WorkerStep(w) \/ Refused(w)
    \/ \E f \in File : OwnerWrites(f) \/ MovedBack(f)
    \/ \E kinds \in {{"live"}, {"live", "done"}} : TimePasses(kinds)

Spec == Init /\ [][Next]_vars

-----------------------------------------------------------------------------
(* Properties *)

Versions == 0..(MaxWrites + 1)
Journals == SUBSET [kind : {"live", "done"}, file : File, age : {"fresh", "old"}]

TypeOK ==
    /\ source \in [File -> Versions] /\ newest \in [File -> Versions]
    /\ target \in [File -> Versions \cup {Partial}]
    /\ staging \in [File -> Versions \cup {Partial}]
    /\ late \subseteq File /\ journal \in Journals
    /\ consented \in {"no", "yes"} /\ device \in {"same", "cross"}
    /\ cache \subseteq File /\ pins \subseteq Session
    /\ executor \in SUBSET Workers /\ Cardinality(executor) <= 1
    /\ worker \in [Workers ->
         [pc : {"idle", "gate", "pin", "unpin", "spawn", "owners", "ours", "plan",
                "filter", "lock", "sweep", "next", "report", "move", "snapshot",
                "copying", "verify", "commit", "compare", "remove"}
               \cup DOMAIN Writing \cup {Writing[k] : k \in DOMAIN Writing},
          gate : {"none", "legacy", "lazy", "home"}, plan : SUBSET File,
          todo : SUBSET File, file : SUBSET File, seen : Journals,
          before : Versions, moved : {"no", "yes"}, errors : {"no", "yes"}]]
    /\ {raced, failed, missed} \subseteq SUBSET Session

\* Whatever crashes, fails or changes, the newest bytes of a session are in one
\* of the two homes; only a write between the last comparison and the removal
\* of the source is out of the executor's hands (`cross_device_move`).  And
\* Baaz's home never holds a torn file: a child resumed there reads all of it.
NothingIsLost ==
    /\ \A f \in File \ late : newest[f] \in {source[f], target[f]}
    /\ \A f \in File : target[f] # Partial

\* Of two runs over the same file one moves it and the other skips it: what has
\* landed is never written over.
NeverOverwritten ==
    [][\A f \in File : target[f] # 0 /\ target'[f] # target[f] => MovedBack(f)]_vars

\* A run that reports no failure left nothing of its plan behind, whatever the
\* journal of earlier runs and crashes said.
CleanRunMovedAll ==
    \A w \in Workers :
      worker[w].pc \in {"report", "unpin"} /\ worker[w].errors = "no" =>
        \A f \in worker[w].plan : source[f] = 0 \/ target[f] # 0

\* A resume is given a home that has the session, also while the prompt moves
\* it, unless the click fell between its gate and its spawn or a file of the
\* session could not be moved.
ResumesFindTheirSession == missed \subseteq raced \cup failed

-----------------------------------------------------------------------------
(* What a comment claims, and the code does not do *)

\* clear_legacy_resumes: "so no later resume keeps reading the owner's home
\* after the move was admitted".
LaterResumesAreOurs ==
    \A s \in Session : worker[s].gate = "lazy" => worker[s].pc # "owners"
=============================================================================

-------------------------- MODULE MigrationProofs --------------------------
(***************************************************************************)
(* What holds of Migration for any files, sessions, versions and any       *)
(* number of crashes, faults and runs: nothing is lost and nothing landed  *)
(* is written over, a clean run moved all of its plan, and a resume finds  *)
(* its session.                                                            *)
(*                                                                         *)
(* The inductive invariant is IInv.  Its clauses are, from the bottom: one *)
(* worker is in the executor; a worker is at files of its own; the         *)
(* versions on disk are in order; the copy of a worker in the executor is  *)
(* whole and lands on nothing; nothing moves without consent; a resume     *)
(* whose gate was not overtaken goes by the homes as the gate saw them;    *)
(* and what a worker planned is still to do, under way, or settled.        *)
(***************************************************************************)
EXTENDS Migration, FiniteSetTheorems, TLAPS

\* Where a worker may be: with a file it has not moved yet, with a file, in
\* execute_plan's loop, at the list it works off, and anywhere in its run.

Moving == {"begin", "beginning", "move", "snapshot", "copying", "verify",
           "commit", "compare", "remove"}
WithFile == Moving \cup {"mark", "marking", "drop", "dropping"}
Executing == WithFile \cup {"sweep", "next"}
Filtering == {"prune", "pruning", "filter"}
Running == Executing \cup Filtering \cup {"lock", "report", "unpin"}

\* Nothing is left to move of a file.
Settled(f) == source[f] = 0 \/ target[f] # 0

\* The EXECUTOR mutex: whoever is in execute_plan's loop holds it, and alone.
OneExecutor ==
    /\ \A a, b \in executor : a = b
    /\ \A w \in Workers : worker[w].pc \in Executing => w \in executor
    /\ \A w \in executor : worker[w].pc \in Executing \cup Filtering

\* A resume plans and moves the files of its own session only.
OwnFiles ==
    \A w \in Workers :
      /\ worker[w].plan \cup worker[w].todo \cup worker[w].file \subseteq Mine(w)
      /\ worker[w].pc \in WithFile => \E f \in File : worker[w].file = {f}

\* No home has bytes that were never written, and a file is in one of the two.
VersionsInOrder ==
    \A f \in File :
      /\ 1 <= newest[f] /\ newest[f] <= writes + 1 /\ writes <= MaxWrites
      /\ source[f] <= newest[f] /\ target[f] <= newest[f]
      /\ source[f] # 0 \/ target[f] # 0

\* How far the move of f by w has come.  The source only grows between the
\* snapshot and the last comparison, so a source that is still the snapshot's
\* is what landed.
WholeCopy(w, f) ==
    /\ worker[w].pc \in {"snapshot", "copying", "verify", "commit"} => target[f] = 0
    /\ worker[w].pc = "copying" => worker[w].before <= source[f]
    /\ worker[w].pc \in {"verify", "commit"} =>
         /\ worker[w].before <= staging[f] /\ staging[f] <= source[f]
         /\ staging[f] # 0
    /\ worker[w].pc = "compare" =>
         worker[w].before <= target[f] /\ target[f] <= source[f]
    /\ worker[w].pc \in {"compare", "remove"} => target[f] # 0
    /\ worker[w].pc = "remove" => f \in late \/ target[f] = newest[f]
WholeCopies ==
    \A w \in Workers, f \in File : worker[w].file = {f} => WholeCopy(w, f)

\* Until the prompt's Move every file is the owner's, and nobody plans a move.
UntouchedWithoutConsent ==
    /\ consented = "no" => \A f \in File : source[f] # 0 /\ target[f] = 0
    /\ \A w \in Workers : worker[w].pc \in Running \cup {"plan"} => consented = "yes"

\* What the gate of a resume decided still holds when it spawns, unless a Move
\* came in between (`raced`).
GateIsKept(s) ==
    /\ worker[s].pc \in Running \cup {"plan"} => worker[s].gate = "lazy"
    /\ worker[s].pc = "pin" => worker[s].gate = "legacy"
    /\ worker[s].pc = "spawn" => worker[s].gate # "none"
    /\ worker[s].pc \notin {"idle", "gate"} /\ worker[s].gate \in {"legacy", "home"}
         => consented = "no" \/ s \in raced
    /\ worker[s].pc = "spawn" /\ worker[s].gate = "legacy" /\ consented = "no"
         => s \in pins
    /\ worker[s].gate = "home" => Mine(s) = {}
    /\ worker[s].gate = "lazy" => consented = "yes"
    /\ s \in pins => consented = "no" \/ s \in raced
GatesAreKept == \A s \in Session : GateIsKept(s)

\* A file of the plan is still to do, under way or settled, or there was an
\* error.
PlansAreWorkedOff ==
    \A w \in Workers :
      /\ worker[w].pc \in Running /\ worker[w].errors = "no" =>
           \A f \in worker[w].plan :
             \/ f \in worker[w].todo
             \/ worker[w].pc \in Moving /\ worker[w].file = {f}
             \/ Settled(f)
      /\ worker[w].pc \in {"report", "unpin"} => worker[w].todo = {}

\* What a lazy resume did not plan had been moved already, and what it failed
\* to move is on record: so it spawns where its session is.
ResumesAreServed ==
    \A s \in Session :
      /\ worker[s].errors = "yes" => s \in failed
      /\ worker[s].pc \in Running => \A f \in Mine(s) \ worker[s].plan : Settled(f)
      /\ worker[s].pc = "spawn" /\ worker[s].gate = "lazy" =>
           s \in failed \/ \A f \in Mine(s) : target[f] # 0

\* TypeOK, with the mutex as a set of workers (OneExecutor bounds it).
Places == {"idle", "gate", "pin", "unpin", "spawn", "owners", "ours", "plan",
           "filter", "lock", "sweep", "next", "report", "move", "snapshot",
           "copying", "verify", "commit", "compare", "remove", "prune", "begin",
           "mark", "drop", "pruning", "beginning", "marking", "dropping"}
WorkerRecords ==
    [pc : Places, gate : {"none", "legacy", "lazy", "home"}, plan : SUBSET File,
     todo : SUBSET File, file : SUBSET File, seen : Journals, before : Versions,
     moved : {"no", "yes"}, errors : {"no", "yes"}]

Types ==
    /\ source \in [File -> Versions] /\ newest \in [File -> Versions]
    /\ target \in [File -> Versions \cup {Partial}]
    /\ staging \in [File -> Versions \cup {Partial}]
    /\ late \subseteq File /\ journal \in Journals
    /\ consented \in {"no", "yes"} /\ device \in {"same", "cross"}
    /\ cache \subseteq File /\ pins \subseteq Session
    /\ executor \subseteq Workers
    /\ worker \in [Workers -> WorkerRecords]
    /\ raced \subseteq Session /\ failed \subseteq Session /\ missed \subseteq Session
    /\ writes \in Nat

\* The inductive invariant.
IInv ==
    /\ Types
    /\ OneExecutor /\ OwnFiles /\ VersionsInOrder /\ WholeCopies
    /\ UntouchedWithoutConsent /\ GatesAreKept /\ PlansAreWorkedOff
    /\ ResumesAreServed /\ NothingIsLost /\ ResumesFindTheirSession

-----------------------------------------------------------------------------
(* Types, and what the operators return *)

USE DEF disk, gate, story, bounds, Becomes, Goes, At

\* The steps of a journal update, by name.
LEMMA WritingIs ==
    /\ DOMAIN Writing = {"prune", "begin", "mark", "drop"}
    /\ Writing["prune"] = "pruning" /\ Writing["begin"] = "beginning"
    /\ Writing["mark"] = "marking" /\ Writing["drop"] = "dropping"
    /\ {Writing[k] : k \in DOMAIN Writing} =
         {"pruning", "beginning", "marking", "dropping"}
<1>1. DOMAIN Writing = {"prune", "begin", "mark", "drop"}
  BY DEF Writing
<1>2. /\ Writing["prune"] = "pruning" /\ Writing["begin"] = "beginning"
      /\ Writing["mark"] = "marking" /\ Writing["drop"] = "dropping"
  BY DEF Writing
<1>. QED  BY <1>1, <1>2

\* The type invariant of the module follows from the two clauses.
LEMMA TypesGiveTypeOK == Types /\ OneExecutor => TypeOK
<1>. SUFFICES ASSUME Types, OneExecutor PROVE TypeOK
  OBVIOUS
<1>1. Places = {"idle", "gate", "pin", "unpin", "spawn", "owners", "ours", "plan",
                "filter", "lock", "sweep", "next", "report", "move", "snapshot",
                "copying", "verify", "commit", "compare", "remove"}
               \cup DOMAIN Writing \cup {Writing[k] : k \in DOMAIN Writing}
  BY WritingIs DEF Places
<1>2. Cardinality(executor) <= 1
  <2>1. CASE executor = {}
    BY <2>1, FS_EmptySet
  <2>2. CASE executor # {}
    <3>1. PICK w : w \in executor
      BY <2>2
    <3>2. executor = {w}
      BY <3>1 DEF OneExecutor
    <3>. QED  BY <3>2, FS_Singleton
  <2>. QED  BY <2>1, <2>2
<1>3. worker \in [Workers ->
         [pc : {"idle", "gate", "pin", "unpin", "spawn", "owners", "ours", "plan",
                "filter", "lock", "sweep", "next", "report", "move", "snapshot",
                "copying", "verify", "commit", "compare", "remove"}
               \cup DOMAIN Writing \cup {Writing[k] : k \in DOMAIN Writing},
          gate : {"none", "legacy", "lazy", "home"}, plan : SUBSET File,
          todo : SUBSET File, file : SUBSET File, seen : Journals,
          before : Versions, moved : {"no", "yes"}, errors : {"no", "yes"}]]
  BY <1>1, Zenon DEF Types, WorkerRecords
<1>4. {raced, failed, missed} \subseteq SUBSET Session /\ executor \in SUBSET Workers
  BY DEF Types
<1>. QED  BY <1>2, <1>3, <1>4, Zenon DEF Types, TypeOK

\* Every update of a journal gives a journal.
LEMMA JournalsAreClosed ==
    ASSUME NEW j \in Journals, NEW f \in File
    PROVE  /\ Pruned(j) \in Journals /\ Begun(j, f) \in Journals
           /\ Completed(j, f) \in Journals /\ Dropped(j, f) \in Journals
BY DEF Journals, Pruned, Begun, Completed, Dropped, Without, Entry

\* The file a worker is at.
LEMMA NowIs ==
    ASSUME NEW w \in Workers, NEW f \in File, worker[w].file = {f}
    PROVE  Now(w) = f
BY DEF Now

\* A worker's record is well-formed.
LEMMA WorkerTyped ==
    ASSUME Types, NEW w \in Workers
    PROVE  worker[w] \in WorkerRecords
BY DEF Types

-----------------------------------------------------------------------------

\* So is that of a worker that has nothing to do.
LEMMA IdleIsTyped == Idle \in WorkerRecords
<1>1. 0 \in Versions /\ {} \in Journals
  BY MigrationAssumption DEF Versions, Journals
<1>. QED  BY <1>1 DEF WorkerRecords, Places, Idle

\* The initial states satisfy the invariant.
LEMMA InitEstablishes == Init => IInv
<1>. SUFFICES ASSUME Init PROVE IInv
  OBVIOUS
<1>. USE MigrationAssumption DEF Init, Idle
<1>1. Idle \in WorkerRecords /\ 0 \in Versions /\ 1 \in Versions
  BY IdleIsTyped DEF Versions
<1>2. Types
  <2>1. worker \in [Workers -> WorkerRecords]
    BY <1>1, Zenon
  <2>. QED  BY <1>1, <2>1 DEF Types, Journals
<1>3. \A w \in Workers : worker[w] = Idle
  BY Zenon
<1>4. OneExecutor /\ OwnFiles
  BY <1>3 DEF OneExecutor, OwnFiles, Executing, WithFile, Moving
<1>5. VersionsInOrder /\ NothingIsLost
  BY DEF VersionsInOrder, NothingIsLost, Partial
<1>6. WholeCopies /\ PlansAreWorkedOff
  BY <1>3 DEF WholeCopies, WholeCopy, PlansAreWorkedOff, Running, Executing, WithFile, Moving,
     Filtering
<1>7. UntouchedWithoutConsent /\ GatesAreKept /\ ResumesAreServed
  BY <1>3 DEF UntouchedWithoutConsent, GatesAreKept, GateIsKept, ResumesAreServed, Running,
     Executing, WithFile, Moving, Filtering, Workers
<1>. QED  BY <1>2, <1>4, <1>5, <1>6, <1>7 DEF IInv, ResumesFindTheirSession

-----------------------------------------------------------------------------
(* The plans and the gate of a resume *)

\* The walk, time that passes between runs, the end, and a stuttering step.
LEMMA QuietStepKeeps ==
    ASSUME IInv,
           RefreshCache \/ Done \/ UNCHANGED vars
             \/ \E kinds \in {{"live"}, {"live", "done"}} : TimePasses(kinds)
    PROVE  IInv'
<1>. USE DEF IInv
<1>1. UNCHANGED <<disk, gate, device, executor, worker, story, writes>>
  BY DEF RefreshCache, Done, TimePasses, vars
<1>2. cache' \subseteq File /\ journal' \in Journals
  <2>1. CASE RefreshCache
    BY <2>1 DEF RefreshCache, Plan, Types
  <2>2. CASE Done \/ UNCHANGED vars
    BY <2>2 DEF Done, vars, Types
  <2>3. ASSUME NEW kinds \in {{"live"}, {"live", "done"}}, TimePasses(kinds)
        PROVE  cache' \subseteq File /\ journal' \in Journals
    BY <2>3 DEF TimePasses, Types, Journals
  <2>. QED  BY <2>1, <2>2, <2>3
<1>3. Types'
  BY <1>1, <1>2 DEF Types
<1>4. OneExecutor' /\ OwnFiles' /\ VersionsInOrder' /\ WholeCopies'
  BY <1>1 DEF OneExecutor, OwnFiles, VersionsInOrder, WholeCopies, WholeCopy
<1>5. UntouchedWithoutConsent' /\ GatesAreKept'
  BY <1>1 DEF UntouchedWithoutConsent, GatesAreKept, GateIsKept
<1>6. PlansAreWorkedOff' /\ ResumesAreServed'
  BY <1>1 DEF PlansAreWorkedOff, ResumesAreServed, Settled
<1>7. NothingIsLost' /\ ResumesFindTheirSession'
  BY <1>1 DEF NothingIsLost, ResumesFindTheirSession
<1>. QED  BY <1>3, <1>4, <1>5, <1>6, <1>7

\* The prompt's Move overtakes the resumes that went by the owner's home.
LEMMA MoveKeeps == ASSUME IInv, Move PROVE IInv'
<1>. USE MigrationAssumption DEF IInv
<1>1. /\ UNCHANGED <<disk, journal, device, cache, executor, failed, missed, writes>>
      /\ consented' = "yes" /\ pins' = {} /\ raced' = raced \cup Overtaken
  BY DEF Move
<1>2. /\ worker[Confirm].pc = "idle"
      /\ worker' = [worker EXCEPT ![Confirm] = [Idle EXCEPT !.pc = "plan", !.plan = cache]]
  BY DEF Move
<1>3. /\ worker'[Confirm].pc = "plan" /\ worker'[Confirm].plan = cache
      /\ worker'[Confirm].todo = {} /\ worker'[Confirm].file = {}
      /\ \A w \in Workers : w # Confirm => worker'[w] = worker[w]
      /\ \A s \in Session : s \in Workers /\ worker'[s] = worker[s]
  BY <1>2 DEF Types, Idle, Workers
<1>12. worker' \in [Workers -> WorkerRecords]
  <2>1. [Idle EXCEPT !.pc = "plan", !.plan = cache] \in WorkerRecords
    BY IdleIsTyped DEF WorkerRecords, Places, Types
  <2>. QED  BY <1>2, <2>1 DEF Types
<1>4. Types'
  BY <1>1, <1>12, MigrationAssumption DEF Types, Overtaken
<1>5. OneExecutor'
  BY <1>1, <1>2, <1>3 DEF OneExecutor, Executing, WithFile, Moving, Filtering
<1>6. OwnFiles'
  BY <1>1, <1>3 DEF OwnFiles, WithFile, Moving, Mine, Types
<1>7. VersionsInOrder' /\ WholeCopies' /\ NothingIsLost'
  BY <1>1, <1>3 DEF VersionsInOrder, WholeCopies, WholeCopy, NothingIsLost
<1>8. UntouchedWithoutConsent'
  BY <1>1 DEF UntouchedWithoutConsent
<1>9. GatesAreKept'
  <2>. SUFFICES ASSUME NEW s \in Session PROVE GateIsKept(s)'
    BY DEF GatesAreKept
  <2>1. worker[s].pc \notin {"idle", "gate"} /\ worker[s].gate # "lazy" =>
          s \in raced'
    BY <1>1 DEF Overtaken
  <2>. QED  BY <1>1, <1>3, <2>1 DEF GatesAreKept, GateIsKept, Mine
<1>10. PlansAreWorkedOff' /\ ResumesAreServed'
  BY <1>1, <1>3 DEF PlansAreWorkedOff, ResumesAreServed, Settled, Running, Executing,
     WithFile, Moving, Filtering, Mine
<1>11. ResumesFindTheirSession'
  BY <1>1 DEF ResumesFindTheirSession
<1>. QED  BY <1>4, <1>5, <1>6, <1>7, <1>8, <1>9, <1>10, <1>11

\* A crash leaves the files, the journal and the consent.
LEMMA CrashKeeps == ASSUME IInv, Crash PROVE IInv'
<1>. USE DEF IInv
<1>1. /\ UNCHANGED <<disk, journal, consented, device, story, writes>>
      /\ pins' = {} /\ cache' = {} /\ executor' = {}
      /\ worker' = [w \in Workers |-> Idle]
  BY DEF Crash
<1>2. \A w \in Workers : worker'[w] = Idle
  BY <1>1, Zenon
<1>3. Idle \in WorkerRecords
  BY IdleIsTyped
<1>4. Types'
  <2>1. worker' \in [Workers -> WorkerRecords]
    BY <1>1, <1>3, Zenon
  <2>. QED  BY <1>1, <2>1 DEF Types
<1>. USE <1>1, <1>2 DEF Idle, Running, Executing, WithFile, Moving, Filtering
<1>5. OneExecutor' /\ OwnFiles'
  BY DEF OneExecutor, OwnFiles
<1>6. VersionsInOrder' /\ WholeCopies' /\ NothingIsLost'
  BY DEF VersionsInOrder, WholeCopies, WholeCopy, NothingIsLost
<1>7. UntouchedWithoutConsent' /\ GatesAreKept'
  BY DEF UntouchedWithoutConsent, GatesAreKept, GateIsKept, Workers
<1>8. PlansAreWorkedOff' /\ ResumesAreServed'
  BY DEF PlansAreWorkedOff, ResumesAreServed, Workers
<1>. QED  BY <1>4, <1>5, <1>6, <1>7, <1>8 DEF ResumesFindTheirSession

\* The end of the prompt's run.
LEMMA ReportKeeps == ASSUME IInv, Report PROVE IInv'
<1>. USE DEF IInv
<1>1. /\ UNCHANGED <<disk, journal, gate, device, executor, story, writes>>
      /\ cache' = {} /\ worker[Confirm].pc = "report"
      /\ worker' = [worker EXCEPT ![Confirm] = Idle]
  BY DEF Report
<1>2. /\ worker'[Confirm] = Idle
      /\ \A w \in Workers : w # Confirm => worker'[w] = worker[w]
      /\ \A s \in Session : s \in Workers /\ worker'[s] = worker[s]
  BY <1>1, MigrationAssumption DEF Types, Workers
<1>3. Types'
  BY <1>1, IdleIsTyped DEF Types
<1>. USE <1>1, <1>2 DEF Idle
<1>4. OneExecutor'
  BY DEF OneExecutor, Executing, WithFile, Moving, Filtering
<1>5. OwnFiles'
  BY DEF OwnFiles, WithFile, Moving, Mine
<1>6. VersionsInOrder' /\ WholeCopies' /\ NothingIsLost'
  BY DEF VersionsInOrder, WholeCopies, WholeCopy, NothingIsLost
<1>7. UntouchedWithoutConsent'
  BY DEF UntouchedWithoutConsent, Running, Executing, WithFile, Moving, Filtering
<1>8. GatesAreKept'
  BY DEF GatesAreKept, GateIsKept, Mine
<1>9. PlansAreWorkedOff' /\ ResumesAreServed'
  BY DEF PlansAreWorkedOff, ResumesAreServed, Settled, Running, Executing, WithFile,
     Moving, Filtering, Mine
<1>. QED  BY <1>3, <1>4, <1>5, <1>6, <1>7, <1>8, <1>9 DEF ResumesFindTheirSession

\* A resume from its gate to its child, without the moves in between.
LEMMA ResumeKeeps ==
    ASSUME IInv, NEW s \in Session, Resume(s) \/ ResumeStep(s) \/ Close(s)
    PROVE  IInv'
<1>. DEFINE r == worker[s]
            r1 == worker'[s]
<1>. USE DEF IInv, ResumeStep
<1>1. s \in Workers /\ s # Confirm /\ r \in WorkerRecords
  BY MigrationAssumption, WorkerTyped DEF Workers
<1>2. /\ UNCHANGED <<disk, journal, consented, device, cache, executor, raced, failed,
                     writes>>
      /\ missed \subseteq missed' /\ missed' \subseteq missed \cup {s}
      /\ pins' \subseteq pins \cup {s} /\ pins \subseteq pins' \cup {s}
  BY DEF Resume, Gate, PinLegacyResume, ClearLegacyResume, Spawn, Close
<1>3. /\ r.pc \in {"idle", "gate", "pin", "unpin", "spawn", "owners", "ours"}
      /\ r1.pc \in {"idle", "gate", "pin", "plan", "spawn", "owners", "ours"}
      /\ r1 = Idle \/ /\ r1.plan = r.plan /\ r1.todo = r.todo /\ r1.file = r.file
                      /\ r1.errors = r.errors
      /\ r1 \in WorkerRecords
      /\ worker' = [worker EXCEPT ![s] = r1]
  <2>1. CASE Close(s)
    BY <1>1, <2>1, IdleIsTyped DEF Close, Idle, Types
  <2>2. CASE Resume(s) \/ PinLegacyResume(s) \/ ClearLegacyResume(s) \/ Spawn(s)
    BY <1>1, <2>2 DEF Resume, PinLegacyResume, ClearLegacyResume, Spawn, Types,
       WorkerRecords, Places
  <2>3. CASE Gate(s)
    BY <1>1, <2>3 DEF Gate, Types, WorkerRecords, Places
  <2>. QED  BY <2>1, <2>2, <2>3
<1>4. \A w \in Workers : w # s => worker'[w] = worker[w]
  BY <1>3 DEF Types
<1>5. Types'
  BY <1>1, <1>2, <1>3 DEF Types
<1>6. OneExecutor'
  <2>1. s \notin executor
    BY <1>1, <1>3 DEF OneExecutor, Executing, WithFile, Moving, Filtering
  <2>2. \A w \in executor : worker'[w] = worker[w]
    BY <1>4, <2>1 DEF Types
  <2>3. r1.pc \notin Executing
    BY <1>3 DEF Executing, WithFile, Moving
  <2>. QED  BY <1>2, <1>4, <2>2, <2>3 DEF OneExecutor, Executing, WithFile, Moving,
     Filtering
<1>7. OwnFiles'
  BY <1>1, <1>2, <1>3, <1>4 DEF OwnFiles, WithFile, Moving, Mine, Idle
<1>8. VersionsInOrder' /\ NothingIsLost'
  BY <1>2 DEF VersionsInOrder, NothingIsLost
<1>9. WholeCopies'
  BY <1>1, <1>2, <1>3, <1>4 DEF WholeCopies, WholeCopy
<1>10. r1.pc \notin Running
  BY <1>3 DEF Running, Executing, WithFile, Moving, Filtering
<1>11. GateIsKept(s)' /\ (r1.pc = "plan" => consented = "yes")
  <2>1. CASE Resume(s)
    BY <1>1, <1>2, <1>10, <2>1 DEF Resume, Types, WorkerRecords, GatesAreKept,
       GateIsKept, Mine
  <2>2. CASE Gate(s)
    <3>1. r1 = [r EXCEPT !.gate = r1.gate, !.pc = r1.pc]
      BY <1>1, <2>2 DEF Gate, Types, WorkerRecords
    <3>2. r.pc = "gate" /\ pins' = pins
      BY <2>2 DEF Gate
    <3>3. \/ /\ OnlyTheOwners(s) /\ r1.gate = "legacy" /\ r1.pc = "pin"
          \/ /\ ~OnlyTheOwners(s) /\ consented = "yes"
             /\ r1.gate = "lazy" /\ r1.pc = "plan"
          \/ /\ ~OnlyTheOwners(s) /\ consented = "no"
             /\ r1.gate = "home" /\ r1.pc = "spawn"
      BY <1>1, <2>2 DEF Gate, Types, WorkerRecords
    <3>4. ~OnlyTheOwners(s) /\ consented = "no" => Mine(s) = {}
      BY DEF OnlyTheOwners, UntouchedWithoutConsent, Mine
    <3>5. OnlyTheOwners(s) => consented = "no"
      BY DEF OnlyTheOwners
    <3>. QED  BY <1>2, <1>10, <3>2, <3>3, <3>4, <3>5 DEF GatesAreKept, GateIsKept, Mine
  <2>3. CASE PinLegacyResume(s)
    BY <1>1, <1>2, <1>10, <2>3 DEF PinLegacyResume, Types, WorkerRecords, GatesAreKept,
       GateIsKept, Mine
  <2>4. CASE ClearLegacyResume(s)
    BY <1>1, <1>2, <1>10, <2>4 DEF ClearLegacyResume, Types, WorkerRecords, GatesAreKept,
       GateIsKept, Mine, Running
  <2>5. CASE Spawn(s)
    BY <1>1, <1>2, <1>10, <2>5 DEF Spawn, Types, WorkerRecords, GatesAreKept,
       GateIsKept, Mine
  <2>6. CASE Close(s)
    BY <1>1, <1>2, <1>10, <2>6 DEF Close, Types, WorkerRecords, GatesAreKept,
       GateIsKept, Mine, Idle
  <2>. QED  BY <2>1, <2>2, <2>3, <2>4, <2>5, <2>6
<1>12. \A x \in Session : x # s => GateIsKept(x)'
  BY <1>2, <1>4 DEF GatesAreKept, GateIsKept, Mine, Workers
<1>13. GatesAreKept'
  BY <1>11, <1>12 DEF GatesAreKept
<1>14. UntouchedWithoutConsent'
  BY <1>1, <1>2, <1>4, <1>10, <1>11 DEF UntouchedWithoutConsent
<1>15. PlansAreWorkedOff'
  BY <1>1, <1>2, <1>3, <1>4, <1>10 DEF PlansAreWorkedOff, Settled, Running
<1>16. ResumesAreServed'
  <2>1. \A x \in Session : x # s => worker'[x] = worker[x]
    BY <1>4 DEF Workers
  <2>2. r1.errors = "yes" => s \in failed
    BY <1>3 DEF ResumesAreServed, Idle
  <2>3. r1.pc = "spawn" /\ r1.gate = "lazy" =>
          s \in failed \/ \A f \in Mine(s) : target[f] # 0
    <3>1. CASE Close(s) \/ Resume(s) \/ Spawn(s)
      BY <1>1, <3>1 DEF Close, Resume, Spawn, Types, Idle, WorkerRecords
    <3>4. CASE Gate(s)
      <4>1. r1.pc = "spawn" => r1.gate = "home"
        BY <1>1, <3>4 DEF Gate, Types, WorkerRecords
      <4>. QED  BY <4>1
    <3>2. CASE PinLegacyResume(s)
      BY <1>1, <3>2 DEF PinLegacyResume, Types, WorkerRecords, GatesAreKept, GateIsKept
    <3>3. CASE ClearLegacyResume(s)
      <4>1. r.pc = "unpin" /\ r.pc \in Running
        BY <3>3 DEF ClearLegacyResume, Running
      <4>2. \A f \in Mine(s) \ r.plan : Settled(f)
        BY <4>1 DEF ResumesAreServed
      <4>3. r.errors = "no" => \A f \in r.plan : Settled(f)
        BY <1>1, <4>1 DEF PlansAreWorkedOff, Moving
      <4>4. r.errors = "yes" => s \in failed
        BY DEF ResumesAreServed
      <4>5. r.errors \in {"no", "yes"}
        BY <1>1 DEF WorkerRecords
      <4>. QED  BY <4>2, <4>3, <4>4, <4>5 DEF Settled, VersionsInOrder, Mine
    <3>. QED  BY <3>1, <3>2, <3>3, <3>4
  <2>. QED  BY <1>2, <1>10, <2>1, <2>2, <2>3 DEF ResumesAreServed, Settled, Mine
<1>17. ResumesFindTheirSession'
  <2>1. CASE ~Spawn(s)
    BY <1>2, <2>1 DEF Resume, Gate, PinLegacyResume, ClearLegacyResume, Close,
       ResumesFindTheirSession
  <2>2. CASE Spawn(s)
    <3>1. r.pc = "spawn" /\ missed' = IF Missing(s) THEN missed \cup {s} ELSE missed
      BY <2>2 DEF Spawn
    <3>2. r.gate \in {"legacy", "lazy", "home"} /\ consented \in {"no", "yes"}
      BY <1>1, <3>1 DEF WorkerRecords, GatesAreKept, GateIsKept, Types
    <3>3. Missing(s) => s \in raced \cup failed
      <4>1. CASE r.gate = "home"
        BY <4>1 DEF GatesAreKept, GateIsKept, Missing
      <4>2. CASE r.gate = "legacy"
        BY <3>1, <3>2, <4>2 DEF GatesAreKept, GateIsKept, Missing, OwnerHomed,
           UntouchedWithoutConsent, Mine
      <4>3. CASE r.gate = "lazy"
        BY <3>1, <3>2, <4>3 DEF GatesAreKept, GateIsKept, ResumesAreServed, Missing,
           OwnerHomed
      <4>. QED  BY <3>2, <4>1, <4>2, <4>3
    <3>. QED  BY <1>2, <3>1, <3>3 DEF ResumesFindTheirSession
  <2>. QED  BY <2>1, <2>2
<1>. QED  BY <1>5, <1>6, <1>7, <1>8, <1>9, <1>13, <1>14, <1>15, <1>16, <1>17

-----------------------------------------------------------------------------
(* The executor *)

\* Planning, the mutex, the sweep, and the choice of the next move.
LEMMA PlanningKeeps ==
    ASSUME IInv, NEW w \in Workers,
           MakePlan(w) \/ Filter(w) \/ LockExecutor(w) \/ CleanStaleStaging(w)
             \/ NextMove(w) \/ AllMoved(w)
    PROVE  IInv'
<1>. DEFINE r == worker[w]
            r1 == worker'[w]
<1>. USE DEF IInv
<1>1. r \in WorkerRecords /\ Mine(w) \subseteq File
  BY WorkerTyped DEF Mine
<1>2. /\ UNCHANGED <<source, target, newest, late, journal, consented, pins, device,
                     cache, story, writes>>
  BY DEF MakePlan, Filter, LockExecutor, CleanStaleStaging, NextMove, AllMoved
<1>3. /\ r.pc \in {"plan", "filter", "lock", "sweep", "next"}
      /\ r1.pc \in {"prune", "next", "lock", "sweep", "begin", "report", "unpin"}
      /\ r1.gate = r.gate /\ r1.errors = r.errors
      /\ r1 \in WorkerRecords
      /\ worker' = [worker EXCEPT ![w] = r1]
  <2>1. CASE MakePlan(w)
    BY <1>1, <2>1 DEF MakePlan, Plan, Types, WorkerRecords, Places
  <2>2. CASE Filter(w)
    BY <1>1, <2>2 DEF Filter, Pending, Types, WorkerRecords, Places
  <2>3. CASE LockExecutor(w) \/ CleanStaleStaging(w) \/ AllMoved(w)
    BY <1>1, <2>3 DEF LockExecutor, CleanStaleStaging, AllMoved, Types, WorkerRecords,
       Places
  <2>4. CASE NextMove(w)
    <3>1. PICK f \in r.todo :
            worker' = [worker EXCEPT ![w] =
              [worker[w] EXCEPT !.pc = "begin", !.file = {f}, !.todo = @ \ {f}]]
      BY <2>4 DEF NextMove
    <3>2. r.pc = "next"
      BY <2>4 DEF NextMove
    <3>. QED  BY <1>1, <3>1, <3>2 DEF Types, WorkerRecords, Places
  <2>. QED  BY <2>1, <2>2, <2>3, <2>4
<1>4. \A x \in Workers : x # w => worker'[x] = worker[x]
  BY <1>3 DEF Types
\* What each step does to the plan of the worker, and to the mutex.
<1>5. \/ /\ r.pc = "plan" /\ r1.pc = "prune" /\ r1.file = r.file
         /\ r1.todo = r1.plan /\ r1.plan \subseteq Mine(w)
         /\ w # Confirm => r1.plan = Plan(Mine(w))
         /\ UNCHANGED <<executor, staging>>
      \/ /\ r.pc = "filter" /\ r1.pc = IF w \in executor THEN "next" ELSE "lock"
         /\ r1.file = r.file /\ r1.plan = r.plan /\ r1.todo = Pending(r.todo)
         /\ UNCHANGED <<executor, staging>>
      \/ /\ r.pc = "lock" /\ r1.pc = "sweep" /\ executor = {} /\ executor' = {w}
         /\ r1.file = r.file /\ r1.plan = r.plan /\ r1.todo = r.todo
         /\ UNCHANGED staging
      \/ /\ r.pc = "sweep" /\ r1.pc = "prune" /\ UNCHANGED executor
         /\ r1.file = r.file /\ r1.plan = r.plan /\ r1.todo = r.todo
         /\ staging' \in [File -> Versions \cup {Partial}]
      \/ /\ r.pc = "next" /\ r1.pc = "begin" /\ r1.plan = r.plan
         /\ \E f \in r.todo : r1.file = {f} /\ r1.todo = r.todo \ {f}
         /\ UNCHANGED <<executor, staging>>
      \/ /\ r.pc = "next" /\ executor' = {} /\ r.todo = {}
         /\ r1.pc = IF w = Confirm THEN "report" ELSE "unpin"
         /\ r1.file = r.file /\ r1.plan = r.plan /\ r1.todo = r.todo
         /\ UNCHANGED staging
  <2>. USE <1>1 DEF Types, WorkerRecords
  <2>1. CASE MakePlan(w)
    BY <2>1 DEF MakePlan, Plan, OwnFiles
  <2>2. CASE Filter(w)
    BY <2>2 DEF Filter
  <2>3. CASE LockExecutor(w)
    BY <2>3 DEF LockExecutor
  <2>4. CASE CleanStaleStaging(w)
    <3>1. staging' \in [File -> Versions \cup {Partial}]
      BY <2>4, MigrationAssumption DEF CleanStaleStaging, Versions
    <3>. QED  BY <2>4, <3>1 DEF CleanStaleStaging
  <2>5. CASE NextMove(w)
    <3>1. PICK f \in r.todo :
            worker' = [worker EXCEPT ![w] =
              [worker[w] EXCEPT !.pc = "begin", !.file = {f}, !.todo = @ \ {f}]]
      BY <2>5 DEF NextMove
    <3>2. r.pc = "next" /\ UNCHANGED <<executor, staging>>
      BY <2>5 DEF NextMove
    <3>3. /\ r1.pc = "begin" /\ r1.plan = r.plan
          /\ r1.file = {f} /\ r1.todo = r.todo \ {f}
      BY <3>1
    <3>. QED  BY <3>2, <3>3
  <2>6. CASE AllMoved(w)
    BY <2>6 DEF AllMoved
  <2>. QED  BY <2>1, <2>2, <2>3, <2>4, <2>5, <2>6
<1>. HIDE DEF r, r1
<1>6. executor' \subseteq Workers /\ staging' \in [File -> Versions \cup {Partial}]
  BY <1>5 DEF Types
<1>7. Types'
  BY <1>2, <1>3, <1>6 DEF Types
<1>8. OneExecutor'
  <2>. USE DEF OneExecutor, Executing, WithFile, Moving, Filtering
  <2>1. \A x \in executor' : x # w => x \in executor /\ worker'[x] = worker[x]
    BY <1>4, <1>5 DEF Types
  <2>2. \A a, b \in executor' : a = b
    BY <1>5
  <2>3. r1.pc \in Executing => w \in executor'
    BY <1>5 DEF r
  <2>4. w \in executor' => r1.pc \in Executing \cup Filtering
    BY <1>5 DEF r
  <2>5. \A x \in Workers : x # w /\ worker[x].pc \in Executing => x \in executor'
    BY <1>5 DEF r
  <2>. QED  BY <1>4, <2>1, <2>2, <2>3, <2>4, <2>5 DEF r1
<1>9. OwnFiles'
  <2>1. r1.plan \cup r1.todo \cup r1.file \subseteq Mine(w)
    BY <1>5 DEF OwnFiles, Pending, r
  <2>2. r1.pc \in WithFile => \E f \in File : r1.file = {f}
    BY <1>1, <1>5 DEF OwnFiles, WithFile, Moving, r
  <2>3. \A x \in Workers : Mine(x)' = Mine(x)
    BY DEF Mine
  <2>. QED  BY <1>4, <2>1, <2>2, <2>3 DEF OwnFiles, r1
<1>10. VersionsInOrder' /\ NothingIsLost' /\ ResumesFindTheirSession'
  BY <1>2 DEF VersionsInOrder, NothingIsLost, ResumesFindTheirSession
<1>11. WholeCopies'
  <2>1. staging' = staging \/ \A x \in Workers : x # w => x \notin executor
    BY <1>5 DEF OneExecutor, r, Executing
  <2>2. \A x \in Workers : x # w =>
          staging' = staging \/ worker[x].pc \notin {"verify", "commit"}
    BY <2>1 DEF OneExecutor, Executing, WithFile, Moving
  <2>. QED  BY <1>2, <1>3, <1>4, <2>2 DEF WholeCopies, WholeCopy, r1
<1>12. r.pc \in Running \cup {"plan"} /\ r1.pc \in Running
  BY <1>3 DEF Running, Executing, WithFile, Moving, Filtering
<1>13. UntouchedWithoutConsent'
  BY <1>2, <1>4, <1>12 DEF UntouchedWithoutConsent, r, r1
<1>14. GatesAreKept'
  <2>1. \A s \in Session : s # w => GateIsKept(s)'
    BY <1>2, <1>4 DEF GatesAreKept, GateIsKept, Mine, Workers
  <2>2. w \in Session => GateIsKept(w)'
    BY <1>2, <1>3, <1>12 DEF GatesAreKept, GateIsKept, Mine, r, r1
  <2>. QED  BY <2>1, <2>2 DEF GatesAreKept
<1>15. \A f \in File : Settled(f)' <=> Settled(f)
  BY <1>2 DEF Settled
<1>16. PlansAreWorkedOff'
  <2>1. r1.pc \in {"report", "unpin"} => r1.todo = {}
    BY <1>5
  <2>2. ASSUME r1.errors = "no", NEW f \in r1.plan
        PROVE  f \in r1.todo \/ (r1.pc \in Moving /\ r1.file = {f}) \/ Settled(f)
    <3>1. CASE r.pc = "plan"
      BY <1>5, <2>2, <3>1
    <3>2. CASE r.pc # "plan"
      <4>1. f \in r.plan /\ f \in File /\ r.errors = "no" /\ r.pc \in Running
        BY <1>1, <1>3, <1>5, <1>12, <2>2, <3>2 DEF WorkerRecords
      <4>2. f \in r.todo \/ Settled(f)
        BY <1>3, <4>1 DEF PlansAreWorkedOff, r, Moving
      <4>3. f \in r.todo => f \in r1.todo \/ r1.file = {f} \/ Settled(f)
        BY <1>5, <4>1 DEF Pending, Settled
      <4>4. r1.file = {f} /\ ~(f \in r1.todo \/ Settled(f)) => r1.pc \in Moving
        BY <1>5, <4>2 DEF Moving, Pending, Settled
      <4>. QED  BY <4>2, <4>3, <4>4
    <3>. QED  BY <3>1, <3>2
  <2>3. \A x \in Workers : \A f \in worker[x].plan : f \in File
    BY DEF OwnFiles, Mine
  <2>. QED  BY <1>4, <1>15, <2>1, <2>2, <2>3, <1>2 DEF PlansAreWorkedOff, r1, Settled
<1>17. ResumesAreServed'
  <2>1. \A s \in Session : s # w => worker'[s] = worker[s]
    BY <1>4 DEF Workers
  <2>2. w \in Session => \A f \in Mine(w) \ r1.plan : Settled(f)
    BY <1>3, <1>5, <1>12, MigrationAssumption DEF ResumesAreServed, r, Plan, Settled,
       Running
  <2>3. w \in Session /\ r1.errors = "yes" => w \in failed
    BY <1>3 DEF ResumesAreServed, r
  <2>. QED  BY <1>2, <1>3, <2>1, <2>2, <2>3 DEF ResumesAreServed, r1, Mine, Settled
<1>. QED  BY <1>7, <1>8, <1>9, <1>10, <1>11, <1>13, <1>14, <1>16, <1>17

\* The updates of the journal.  Nothing here depends on what is in it: a plan
\* is filtered by what is on disk.
LEMMA JournalKeeps == ASSUME IInv, NEW w \in Workers, JournalStep(w) PROVE IInv'
<1>. DEFINE r == worker[w]
            r1 == worker'[w]
<1>. USE DEF IInv
<1>1. r \in WorkerRecords
  BY WorkerTyped
<1>2. UNCHANGED <<disk, gate, device, cache, executor, story, writes>>
  BY DEF JournalStep, ReadJournal, PruneJournal, BeginMove, MarkCompleted, DropRecord,
     WriteJournal
<1>3. /\ r1 = [r EXCEPT !.pc = r1.pc, !.seen = r1.seen]
      /\ worker' = [worker EXCEPT ![w] = r1]
      /\ r1.seen \in Journals
      /\ \/ r.pc \in {"prune", "pruning"} /\ r1.pc \in {"pruning", "filter"}
         \/ r.pc \in {"begin", "beginning"} /\ r1.pc \in {"beginning", "move"}
         \/ r.pc \in {"mark", "marking"} /\ r1.pc \in {"marking", "next"}
         \/ r.pc \in {"drop", "dropping"} /\ r1.pc \in {"dropping", "next"}
  <2>1. CASE ReadJournal(w)
    BY <1>1, <2>1, WritingIs DEF ReadJournal, Types, WorkerRecords
  <2>2. CASE PruneJournal(w) \/ BeginMove(w) \/ MarkCompleted(w) \/ DropRecord(w)
    <3>1. {} \in Journals
      BY DEF Journals
    <3>2. PICK entry, next :
            /\ WriteJournal(w, r.pc, entry, next)
            /\ <<r.pc, next>> \in {<<"pruning", "filter">>, <<"beginning", "move">>,
                                  <<"marking", "next">>, <<"dropping", "next">>}
      <4>1. CASE PruneJournal(w)
        BY <4>1 DEF PruneJournal, WriteJournal
      <4>2. CASE BeginMove(w)
        BY <4>2 DEF BeginMove, WriteJournal
      <4>3. CASE MarkCompleted(w)
        BY <4>3 DEF MarkCompleted, WriteJournal
      <4>4. CASE DropRecord(w)
        BY <4>4 DEF DropRecord, WriteJournal
      <4>. QED  BY <2>2, <4>1, <4>2, <4>3, <4>4
    <3>3. worker' = [worker EXCEPT ![w] = [r EXCEPT !.pc = next, !.seen = {}]]
      BY <3>2 DEF WriteJournal
    <3>. QED  BY <1>1, <3>1, <3>2, <3>3 DEF Types, WorkerRecords
  <2>. QED  BY <2>1, <2>2 DEF JournalStep
<1>4. journal' \in Journals
  <2>1. CASE ReadJournal(w)
    BY <2>1 DEF ReadJournal, Types
  <2>2. CASE PruneJournal(w) \/ BeginMove(w) \/ MarkCompleted(w) \/ DropRecord(w)
    <3>1. r.pc = "pruning" \/ \E f \in File : Now(w) = f
      BY <2>2, NowIs DEF PruneJournal, BeginMove, MarkCompleted, DropRecord, WriteJournal,
         OwnFiles, WithFile, Moving
    <3>2. r.seen \in Journals
      BY <1>1 DEF WorkerRecords
    <3>3. CASE PruneJournal(w)
      <4>1. Pruned(r.seen) \in Journals
        BY <3>2 DEF Pruned, Journals
      <4>. QED  BY <3>3, <4>1 DEF PruneJournal, WriteJournal
    <3>4. CASE BeginMove(w)
      BY <3>1, <3>2, <3>4, JournalsAreClosed DEF BeginMove, WriteJournal
    <3>5. CASE MarkCompleted(w)
      BY <3>1, <3>2, <3>5, JournalsAreClosed DEF MarkCompleted, WriteJournal
    <3>6. CASE DropRecord(w)
      BY <3>1, <3>2, <3>6, JournalsAreClosed DEF DropRecord, WriteJournal
    <3>. QED  BY <2>2, <3>3, <3>4, <3>5, <3>6
  <2>. QED  BY <2>1, <2>2 DEF JournalStep
<1>. HIDE DEF r, r1
<1>5. /\ r1.gate = r.gate /\ r1.plan = r.plan /\ r1.todo = r.todo /\ r1.file = r.file
      /\ r1.errors = r.errors /\ r1 \in WorkerRecords
  BY <1>1, <1>3 DEF r, WorkerRecords, Places
<1>6. \A x \in Workers : x # w => worker'[x] = worker[x]
  BY <1>3 DEF Types
<1>7. Types'
  BY <1>2, <1>3, <1>4, <1>5 DEF Types
<1>8. OneExecutor'
  BY <1>2, <1>3, <1>6 DEF OneExecutor, Executing, WithFile, Moving, Filtering, Types, r, r1
<1>9. OwnFiles'
  <2>1. \A x \in Workers : Mine(x)' = Mine(x)
    BY DEF Mine
  <2>. QED  BY <1>3, <1>5, <1>6, <2>1 DEF OwnFiles, WithFile, Moving, r, r1
<1>10. VersionsInOrder' /\ NothingIsLost' /\ ResumesFindTheirSession'
  BY <1>2 DEF VersionsInOrder, NothingIsLost, ResumesFindTheirSession
<1>11. WholeCopies'
  BY <1>2, <1>3, <1>6 DEF WholeCopies, WholeCopy, r1
<1>12. r.pc \in Running /\ r1.pc \in Running /\ r1.pc \notin {"report", "unpin"}
  BY <1>3 DEF Running, Executing, WithFile, Moving, Filtering
<1>13. UntouchedWithoutConsent'
  BY <1>2, <1>6, <1>12 DEF UntouchedWithoutConsent, r, r1
<1>14. GatesAreKept'
  <2>1. \A s \in Session : s # w => GateIsKept(s)'
    BY <1>2, <1>6 DEF GatesAreKept, GateIsKept, Mine, Workers
  <2>2. w \in Session => GateIsKept(w)'
    BY <1>2, <1>3, <1>5, <1>12 DEF GatesAreKept, GateIsKept, Mine, r, r1
  <2>. QED  BY <2>1, <2>2 DEF GatesAreKept
<1>15. PlansAreWorkedOff'
  <2>1. r.pc \in Moving <=> r1.pc \in Moving
    BY <1>3 DEF Moving
  <2>. QED  BY <1>2, <1>5, <1>6, <1>12, <2>1 DEF PlansAreWorkedOff, Settled, r, r1
<1>16. ResumesAreServed'
  BY <1>2, <1>3, <1>5, <1>6, <1>12 DEF ResumesAreServed, Settled, Mine, Workers, r, r1
<1>. QED  BY <1>7, <1>8, <1>9, <1>10, <1>11, <1>13, <1>14, <1>15, <1>16

\* The steps of a move that leave the files alone: they go on, or give up.
LEMMA DecisionKeeps ==
    ASSUME IInv, NEW w \in Workers,
           SkipMove(w) \/ CrossDevice(w) \/ Verify(w) \/ Compare(w) \/ Refused(w)
    PROVE  IInv'
<1>. DEFINE r == worker[w]
            r1 == worker'[w]
<1>. USE DEF IInv
<1>1. r \in WorkerRecords
  BY WorkerTyped
<1>2. /\ UNCHANGED <<disk, journal, gate, device, cache, executor, raced, missed, writes>>
      /\ r.pc \in {"move", "snapshot", "copying", "verify", "commit", "compare", "remove"}
  <2>1. CASE SkipMove(w) \/ CrossDevice(w)
    BY <2>1 DEF SkipMove, CrossDevice, MayMove
  <2>2. CASE Verify(w)
    BY <2>2 DEF Verify, Fails
  <2>3. CASE Compare(w)
    BY <2>3 DEF Compare, Fails
  <2>4. CASE Refused(w)
    BY <2>4 DEF Refused, Fails
  <2>. QED  BY <2>1, <2>2, <2>3, <2>4
<1>3. PICK f \in File : r.file = {f} /\ Now(w) = f
  BY <1>2, NowIs DEF OwnFiles, WithFile, Moving
<1>4. /\ r1 = [r EXCEPT !.pc = r1.pc, !.errors = r1.errors]
      /\ worker' = [worker EXCEPT ![w] = r1]
      /\ \/ /\ r1.pc = "drop" /\ r1.errors = "yes" /\ failed' = failed \cup {SessionOf[f]}
         \/ /\ r1.pc = "drop" /\ r1.errors = r.errors /\ UNCHANGED failed /\ Settled(f)
         \/ /\ r1.pc = "snapshot" /\ r1.errors = r.errors /\ UNCHANGED failed
            /\ target[f] = 0
         \/ /\ r.pc = "verify" /\ r1.pc = "commit" /\ r1.errors = r.errors
            /\ UNCHANGED failed
         \/ /\ r.pc = "compare" /\ r1.pc = "remove" /\ r1.errors = r.errors
            /\ UNCHANGED failed /\ source[f] = r.before
  <2>. USE <1>1, <1>3 DEF Types, WorkerRecords
  <2>1. CASE SkipMove(w)
    BY <2>1 DEF SkipMove, Settled
  <2>2. CASE CrossDevice(w)
    BY <2>2 DEF CrossDevice, MayMove
  <2>3. CASE Verify(w)
    <3>1. r.pc = "verify"
      BY <2>3 DEF Verify
    <3>2. \/ Goes(w, "commit") /\ UNCHANGED failed
          \/ Fails(w)
      BY <2>3 DEF Verify
    <3>3. CASE Goes(w, "commit") /\ UNCHANGED failed
      BY <3>1, <3>3
    <3>4. CASE Fails(w)
      BY <3>4 DEF Fails
    <3>. QED  BY <3>2, <3>3, <3>4
  <2>4. CASE Compare(w)
    <3>1. r.pc = "compare"
      BY <2>4 DEF Compare
    <3>2. \/ Goes(w, "remove") /\ UNCHANGED failed /\ source[f] = r.before
          \/ Fails(w)
      BY <2>4 DEF Compare
    <3>3. CASE Goes(w, "remove") /\ UNCHANGED failed /\ source[f] = r.before
      BY <3>1, <3>3
    <3>4. CASE Fails(w)
      BY <3>4 DEF Fails
    <3>. QED  BY <3>2, <3>3, <3>4
  <2>5. CASE Refused(w)
    BY <2>5 DEF Refused, Fails
  <2>. QED  BY <2>1, <2>2, <2>3, <2>4, <2>5
<1>. HIDE DEF r, r1
<1>5. /\ r1.gate = r.gate /\ r1.plan = r.plan /\ r1.todo = r.todo /\ r1.file = r.file
      /\ r1.before = r.before /\ r1 \in WorkerRecords
  BY <1>1, <1>4 DEF WorkerRecords, Places
<1>6. \A x \in Workers : x # w => worker'[x] = worker[x]
  BY <1>4 DEF Types
<1>7. failed \subseteq failed' /\ failed' \subseteq Session
  BY <1>4, MigrationAssumption DEF Types
<1>8. Types'
  BY <1>2, <1>4, <1>5, <1>7 DEF Types
<1>9. r.pc \in Moving /\ r1.pc \in WithFile
  BY <1>2, <1>4 DEF WithFile, Moving
<1>10. OneExecutor'
  BY <1>2, <1>4, <1>6, <1>9 DEF OneExecutor, Executing, WithFile, Types, r, r1
<1>11. OwnFiles'
  <2>1. \A x \in Workers : Mine(x)' = Mine(x)
    BY DEF Mine
  <2>. QED  BY <1>5, <1>6, <1>9, <2>1 DEF OwnFiles, WithFile, r, r1
<1>12. VersionsInOrder' /\ NothingIsLost' /\ ResumesFindTheirSession'
  BY <1>2, <1>7 DEF VersionsInOrder, NothingIsLost, ResumesFindTheirSession
<1>13. WholeCopies'
  <2>1. \A x \in Workers, g \in File : x # w /\ worker[x].file = {g} => WholeCopy(x, g)'
    BY <1>2, <1>6 DEF WholeCopies, WholeCopy
  <2>2. WholeCopy(w, f)
    BY <1>3 DEF WholeCopies, r
  <2>3. WholeCopy(w, f)'
    <3>1. CASE r1.pc \in {"drop", "snapshot"}
      BY <1>2, <1>4, <3>1 DEF WholeCopy, r1
    <3>2. CASE r1.pc = "commit"
      BY <1>2, <1>4, <1>5, <2>2, <3>2 DEF WholeCopy, r, r1
    <3>3. CASE r1.pc = "remove"
      <4>1. target[f] # 0 /\ r.before <= target[f] /\ target[f] <= source[f]
            /\ source[f] = r.before
        BY <1>4, <2>2, <3>3 DEF WholeCopy, r
      <4>2. target[f] = source[f]
        <5>1. target[f] \in Nat /\ source[f] \in Nat
          BY MigrationAssumption DEF Types, Versions, Partial
        <5>. QED  BY <4>1, <5>1
      <4>3. f \in late \/ newest[f] = target[f]
        BY <4>2 DEF NothingIsLost
      <4>. QED  BY <1>2, <3>3, <4>1, <4>3 DEF WholeCopy, r1
    <3>. QED  BY <1>4, <3>1, <3>2, <3>3
  <2>. QED  BY <1>3, <1>5, <1>6, <2>1, <2>3 DEF WholeCopies, r1
<1>14. r.pc \in Running /\ r1.pc \in Running /\ r1.pc \notin {"report", "unpin"}
  BY <1>2, <1>4 DEF Running, Executing, WithFile, Moving
<1>15. UntouchedWithoutConsent'
  BY <1>2, <1>6, <1>14 DEF UntouchedWithoutConsent, r, r1
<1>16. GatesAreKept'
  <2>1. \A s \in Session : s # w => GateIsKept(s)'
    BY <1>2, <1>6 DEF GatesAreKept, GateIsKept, Mine, Workers
  <2>2. w \in Session => GateIsKept(w)'
    BY <1>2, <1>4, <1>5, <1>14 DEF GatesAreKept, GateIsKept, Mine, r, r1
  <2>. QED  BY <2>1, <2>2 DEF GatesAreKept
<1>17. PlansAreWorkedOff'
  <2>1. r1.errors = "no" => r.errors = "no" /\ (r1.pc \in Moving \/ Settled(f))
    BY <1>4 DEF Moving
  <2>2. ASSUME r1.errors = "no", NEW g \in r1.plan
        PROVE  g \in r1.todo \/ (r1.pc \in Moving /\ r1.file = {g}) \/ Settled(g)
    <3>1. g \in r.todo \/ (r.pc \in Moving /\ r.file = {g}) \/ Settled(g)
      BY <1>5, <1>14, <2>1, <2>2 DEF PlansAreWorkedOff, r
    <3>. QED  BY <1>3, <1>5, <2>1, <2>2, <3>1
  <2>. QED  BY <1>2, <1>6, <1>14, <2>2 DEF PlansAreWorkedOff, Settled, r1
<1>18. ResumesAreServed'
  <2>1. w \in Session => SessionOf[f] = w
    BY <1>3, MigrationAssumption DEF OwnFiles, Mine, r
  <2>2. w \in Session /\ r1.errors = "yes" => w \in failed'
    BY <1>4, <1>7, <2>1 DEF ResumesAreServed, r
  <2>3. \A x \in Session : x # w => worker'[x] = worker[x]
    BY <1>6 DEF Workers
  <2>4. w \in Session => \A g \in Mine(w) \ r1.plan : Settled(g)
    BY <1>5, <1>14 DEF ResumesAreServed, r
  <2>5. r1.pc # "spawn"
    BY <1>14 DEF Running, Executing, WithFile, Moving, Filtering
  <2>. QED  BY <1>2, <1>7, <2>2, <2>3, <2>4, <2>5 DEF ResumesAreServed, Settled, Mine, r1
<1>. QED  BY <1>8, <1>10, <1>11, <1>12, <1>13, <1>15, <1>16, <1>17, <1>18

\* The steps of a move that change the file it moves.
LEMMA LandingKeeps ==
    ASSUME IInv, NEW w \in Workers,
           Rename(w) \/ Snapshot(w) \/ Copied(w) \/ Commit(w) \/ RemoveSource(w)
    PROVE  /\ IInv'
           /\ \A f \in File : target[f] # 0 => target'[f] = target[f]
<1>. DEFINE r == worker[w]
            r1 == worker'[w]
<1>. USE DEF IInv
<1>1. r \in WorkerRecords
  BY WorkerTyped
<1>2. /\ UNCHANGED <<newest, late, journal, gate, device, cache, executor, story, writes>>
      /\ r.pc \in {"move", "snapshot", "copying", "commit", "remove"}
  BY DEF Rename, Snapshot, Copied, Commit, RemoveSource, MayMove
<1>3. PICK f \in File : r.file = {f} /\ Now(w) = f
  BY <1>2, NowIs DEF OwnFiles, WithFile, Moving
<1>4. WholeCopy(w, f)
  BY <1>3 DEF WholeCopies
<1>5. \A g \in File : /\ source[g] \in Nat /\ newest[g] \in Nat
                      /\ target[g] \in Nat /\ staging[g] \in Nat
  BY MigrationAssumption DEF Types, Versions, Partial
\* What each step does to the file.
<1>6. /\ r1 = [r EXCEPT !.pc = r1.pc, !.before = r1.before, !.moved = r1.moved]
      /\ worker' = [worker EXCEPT ![w] = r1]
      /\ r1 \in WorkerRecords
      /\ \A g \in File : g # f => /\ source'[g] = source[g] /\ target'[g] = target[g]
                                  /\ staging'[g] = staging[g]
      /\ \/ /\ r1.pc = "mark" /\ target[f] = 0 /\ target'[f] = source[f]
            /\ source'[f] = 0
         \/ /\ r1.pc = "copying" /\ target[f] = 0 /\ target'[f] = 0
            /\ source'[f] = source[f] /\ r1.before = source[f]
         \/ /\ r1.pc = "verify" /\ target[f] = 0 /\ target'[f] = 0
            /\ source'[f] = source[f] /\ staging'[f] = source[f]
            /\ r1.before = r.before /\ r.before <= source[f]
         \/ /\ r1.pc = "compare" /\ target[f] = 0 /\ target'[f] = staging[f]
            /\ source'[f] = source[f] /\ r1.before = r.before
            /\ r.before <= staging[f] /\ staging[f] <= source[f] /\ staging[f] # 0
         \/ /\ r.pc = "remove" /\ r1.pc = "mark" /\ target[f] # 0
            /\ target'[f] = target[f] /\ source'[f] = 0
            /\ f \in late \/ target[f] = newest[f]
  <2>. USE <1>1, <1>3, <1>4 DEF Types, WorkerRecords, Places
  <2>1. CASE Rename(w)
    BY <2>1 DEF Rename, MayMove
  <2>2. CASE Snapshot(w)
    BY <2>2 DEF Snapshot, WholeCopy
  <2>3. CASE Copied(w)
    BY <2>3 DEF Copied, WholeCopy
  <2>4. CASE Commit(w)
    BY <2>4 DEF Commit, WholeCopy
  <2>5. CASE RemoveSource(w)
    BY <2>5 DEF RemoveSource, WholeCopy
  <2>. QED  BY <2>1, <2>2, <2>3, <2>4, <2>5
<1>7. /\ source' \in [File -> Versions]
      /\ target' \in [File -> Versions \cup {Partial}]
      /\ staging' \in [File -> Versions \cup {Partial}]
  <2>1. 0 \in Versions
    BY MigrationAssumption DEF Versions
  <2>. QED  BY <1>3, <2>1 DEF Rename, Snapshot, Copied, Commit, RemoveSource, Types
<1>. HIDE DEF r, r1
<1>8. /\ r1.gate = r.gate /\ r1.plan = r.plan /\ r1.todo = r.todo /\ r1.file = r.file
      /\ r1.errors = r.errors
  BY <1>1, <1>6 DEF WorkerRecords
<1>9. \A x \in Workers : x # w => worker'[x] = worker[x]
  BY <1>6 DEF Types
<1>10. Types'
  BY <1>2, <1>6, <1>7 DEF Types
<1>11. r.pc \in Executing /\ r1.pc \in Executing
  BY <1>2, <1>6 DEF Executing, WithFile, Moving
<1>12. OneExecutor'
  BY <1>2, <1>6, <1>9, <1>11 DEF OneExecutor, Types, r, r1
<1>13. OwnFiles'
  <2>1. \A x \in Workers : Mine(x)' = Mine(x)
    BY DEF Mine
  <2>. QED  BY <1>3, <1>8, <1>9, <2>1 DEF OwnFiles, r, r1
<1>14. VersionsInOrder'
  <2>. SUFFICES ASSUME NEW g \in File
       PROVE  /\ source'[g] <= newest[g] /\ target'[g] <= newest[g]
              /\ source'[g] # 0 \/ target'[g] # 0
    BY <1>2 DEF VersionsInOrder
  <2>1. source[g] <= newest[g] /\ target[g] <= newest[g] /\ newest[g] # 0
        /\ (source[g] # 0 \/ target[g] # 0)
    BY <1>5 DEF VersionsInOrder
  <2>2. CASE g # f
    BY <1>6, <2>1, <2>2
  <2>3. CASE g = f
    BY <1>5, <1>6, <2>1, <2>3
  <2>. QED  BY <2>2, <2>3
<1>15. NothingIsLost'
  <2>. SUFFICES ASSUME NEW g \in File
       PROVE  /\ g \notin late => newest[g] \in {source'[g], target'[g]}
              /\ target'[g] # Partial
    BY <1>2 DEF NothingIsLost
  <2>1. target'[g] <= newest[g] /\ newest[g] \in Versions
    BY <1>2, <1>14 DEF VersionsInOrder, Types
  <2>2. target'[g] # Partial
    BY <2>1, MigrationAssumption DEF Versions, Partial
  <2>3. /\ g \notin late => newest[g] \in {source[g], target[g]}
        /\ newest[g] # 0
    BY <1>5 DEF NothingIsLost, VersionsInOrder
  <2>4. g \notin late => newest[g] \in {source'[g], target'[g]}
    BY <1>6, <2>3
  <2>. QED  BY <2>2, <2>4
<1>16. WholeCopies'
  <2>1. \A x \in Workers, g \in File : x # w /\ worker[x].file = {g} => WholeCopy(x, g)'
    <3>. SUFFICES ASSUME NEW x \in Workers, NEW g \in File, x # w, worker[x].file = {g}
         PROVE  WholeCopy(x, g)'
      OBVIOUS
    <3>1. worker[x].pc \notin Executing
      BY <1>11 DEF OneExecutor, r
    <3>. QED  BY <1>9, <3>1 DEF WholeCopy, Executing, WithFile, Moving
  <2>2. WholeCopy(w, f)'
    <3>1. r1.pc \in {"mark", "copying", "verify", "compare"}
      BY <1>6
    <3>2. target[f] = 0 => source[f] # 0
      BY DEF VersionsInOrder
    <3>3. CASE r1.pc \in {"mark", "copying"}
      BY <1>5, <1>6, <3>3 DEF WholeCopy, r1
    <3>4. CASE r1.pc = "verify"
      BY <1>5, <1>6, <3>2, <3>4 DEF WholeCopy, r1
    <3>5. CASE r1.pc = "compare"
      BY <1>5, <1>6, <3>5 DEF WholeCopy, r1
    <3>. QED  BY <3>1, <3>3, <3>4, <3>5
  <2>. QED  BY <1>3, <1>8, <1>9, <2>1, <2>2 DEF WholeCopies, r1
<1>17. r.pc \in Running /\ r1.pc \in Running /\ r1.pc \notin {"report", "unpin"}
  BY <1>2, <1>6 DEF Running, Executing, WithFile, Moving
<1>18. UntouchedWithoutConsent'
  <2>1. consented = "yes"
    BY <1>17 DEF UntouchedWithoutConsent, r
  <2>. QED  BY <1>2, <2>1 DEF UntouchedWithoutConsent
<1>19. GatesAreKept'
  <2>1. \A s \in Session : s # w => GateIsKept(s)'
    BY <1>2, <1>9 DEF GatesAreKept, GateIsKept, Mine, Workers
  <2>2. w \in Session => GateIsKept(w)'
    <3>1. r1.pc \notin {"idle", "gate", "pin", "spawn"}
      BY <1>17 DEF Running, Executing, WithFile, Moving, Filtering
    <3>2. r.pc \notin {"idle", "gate", "pin", "spawn"}
      BY <1>17 DEF Running, Executing, WithFile, Moving, Filtering
    <3>. QED  BY <1>2, <1>8, <1>17, <3>1, <3>2 DEF GatesAreKept, GateIsKept, Mine, r, r1
  <2>. QED  BY <2>1, <2>2 DEF GatesAreKept
<1>20. \A g \in File : Settled(g) => Settled(g)'
  BY <1>6 DEF Settled
<1>21. r1.pc \notin Moving => Settled(f)'
  BY <1>6 DEF Settled, Moving
<1>22. PlansAreWorkedOff'
  <2>1. ASSUME r1.errors = "no", NEW g \in r1.plan
        PROVE  g \in r1.todo \/ (r1.pc \in Moving /\ r1.file = {g}) \/ Settled(g)'
    <3>1. g \in r.todo \/ (r.pc \in Moving /\ r.file = {g}) \/ Settled(g)
      BY <1>8, <1>17, <2>1 DEF PlansAreWorkedOff, r
    <3>2. g \in File
      BY <1>8, <2>1 DEF OwnFiles, Mine, r
    <3>. QED  BY <1>3, <1>8, <1>20, <1>21, <3>1, <3>2
  <2>2. \A x \in Workers : \A g \in worker[x].plan : g \in File
    BY DEF OwnFiles, Mine
  <2>. QED  BY <1>9, <1>17, <1>20, <2>1, <2>2 DEF PlansAreWorkedOff, r1
<1>23. ResumesAreServed'
  <2>1. \A x \in Session : x # w => worker'[x] = worker[x]
    BY <1>9 DEF Workers
  <2>2. w \in Session => \A g \in Mine(w) \ r1.plan : Settled(g)
    BY <1>8, <1>17 DEF ResumesAreServed, r
  <2>3. r1.pc # "spawn" /\ (w \in Session /\ r1.errors = "yes" => w \in failed)
    BY <1>8, <1>17 DEF Running, Executing, WithFile, Moving, Filtering, ResumesAreServed, r
  <2>4. \A g \in File : target[g] # 0 => target'[g] # 0
    BY <1>6
  <2>5. \A x \in Session : Mine(x) \subseteq File /\ Mine(x)' = Mine(x)
    BY DEF Mine
  <2>. QED  BY <1>2, <1>20, <2>1, <2>2, <2>3, <2>4, <2>5 DEF ResumesAreServed, r1
<1>24. \A g \in File : target[g] # 0 => target'[g] = target[g]
  BY <1>6
<1>25. ResumesFindTheirSession'
  BY <1>2 DEF ResumesFindTheirSession
<1>. QED  BY <1>10, <1>12, <1>13, <1>14, <1>15, <1>16, <1>18, <1>19, <1>22, <1>23, <1>24,
            <1>25

-----------------------------------------------------------------------------
(* The owner *)

\* The owner's write makes a newer version than any copy.
LEMMA OwnerWritesKeeps == ASSUME IInv, NEW f \in File, OwnerWrites(f) PROVE IInv'
<1>. USE DEF IInv
<1>1. /\ source[f] # 0 /\ writes < MaxWrites /\ writes' = writes + 1
      /\ source' = [source EXCEPT ![f] = newest[f] + 1]
      /\ newest' = [newest EXCEPT ![f] = @ + 1]
      /\ late' = IF \E w \in Workers : worker[w].pc = "remove" /\ worker[w].file = {f}
                   THEN late \cup {f} ELSE late
      /\ UNCHANGED <<target, staging, journal, gate, device, cache, executor, worker, story>>
  BY DEF OwnerWrites
<1>2. /\ MaxWrites \in Nat /\ writes \in Nat
      /\ \A g \in File : /\ source[g] \in Nat /\ newest[g] \in Nat
                         /\ target[g] \in Nat /\ staging[g] \in Nat
  BY MigrationAssumption DEF Types, Versions, Partial
<1>3. /\ \A g \in File : g # f => source'[g] = source[g] /\ newest'[g] = newest[g]
      /\ source'[f] = newest[f] + 1 /\ newest'[f] = newest[f] + 1
      /\ source'[f] > source[f] /\ source'[f] # 0
  BY <1>1, <1>2 DEF Types, VersionsInOrder
<1>4. Types'
  <2>1. newest[f] + 1 \in Versions
    BY <1>1, <1>2 DEF VersionsInOrder, Versions
  <2>. QED  BY <1>1, <1>2, <2>1 DEF Types
<1>5. OneExecutor' /\ OwnFiles'
  BY <1>1 DEF OneExecutor, OwnFiles, Mine
<1>6. VersionsInOrder'
  <2>. SUFFICES ASSUME NEW g \in File
       PROVE  /\ 1 <= newest'[g] /\ newest'[g] <= writes' + 1 /\ writes' <= MaxWrites
              /\ source'[g] <= newest'[g] /\ target[g] <= newest'[g]
              /\ source'[g] # 0 \/ target[g] # 0
    BY <1>1 DEF VersionsInOrder
  <2>1. /\ 1 <= newest[g] /\ newest[g] <= writes + 1
        /\ source[g] <= newest[g] /\ target[g] <= newest[g]
        /\ source[g] # 0 \/ target[g] # 0
    BY DEF VersionsInOrder
  <2>2. CASE g # f
    BY <1>1, <1>2, <1>3, <2>1, <2>2
  <2>3. CASE g = f
    BY <1>1, <1>2, <1>3, <2>1, <2>3
  <2>. QED  BY <2>2, <2>3
<1>7. WholeCopies'
  <2>. SUFFICES ASSUME NEW w \in Workers, NEW g \in File, worker[w].file = {g}
       PROVE  WholeCopy(w, g)'
    BY <1>1 DEF WholeCopies
  <2>1. WholeCopy(w, g) /\ worker[w].before \in Nat
    BY WorkerTyped, MigrationAssumption DEF WholeCopies, WorkerRecords, Versions
  <2>2. CASE g # f
    <3>1. g \in late => g \in late'
      BY <1>1
    <3>. QED  BY <1>1, <1>3, <2>1, <2>2, <3>1 DEF WholeCopy
  <2>3. CASE g = f
    <3>1. worker[w].pc = "remove" => f \in late'
      BY <1>1, <2>3
    <3>. QED  BY <1>1, <1>2, <1>3, <2>1, <2>3, <3>1 DEF WholeCopy
  <2>. QED  BY <2>2, <2>3
<1>8. UntouchedWithoutConsent' /\ GatesAreKept'
  BY <1>1, <1>3 DEF UntouchedWithoutConsent, GatesAreKept, GateIsKept, Mine
<1>9. \A g \in File : Settled(g) => Settled(g)'
  BY <1>1, <1>3 DEF Settled
<1>10. PlansAreWorkedOff' /\ ResumesAreServed'
  <2>1. \A w \in Workers : worker[w].plan \subseteq File
    BY DEF OwnFiles, Mine
  <2>2. PlansAreWorkedOff'
    BY <1>1, <1>9, <2>1 DEF PlansAreWorkedOff
  <2>3. \A s \in Session : Mine(s) \subseteq File /\ Mine(s)' = Mine(s)
    BY DEF Mine
  <2>. QED  BY <1>1, <1>9, <2>2, <2>3 DEF ResumesAreServed
<1>11. NothingIsLost' /\ ResumesFindTheirSession'
  <2>1. ASSUME NEW g \in File, g \notin late'
        PROVE  newest'[g] \in {source'[g], target'[g]}
    BY <1>1, <1>3, <2>1 DEF NothingIsLost
  <2>2. \A g \in File : target'[g] # Partial
    BY <1>1 DEF NothingIsLost
  <2>3. ResumesFindTheirSession'
    BY <1>1 DEF ResumesFindTheirSession
  <2>. QED  BY <2>1, <2>2, <2>3 DEF NothingIsLost
<1>. QED  BY <1>4, <1>5, <1>6, <1>7, <1>8, <1>10, <1>11

\* The owner puts a file back.
LEMMA MovedBackKeeps == ASSUME IInv, NEW f \in File, MovedBack(f) PROVE IInv'
<1>. USE DEF IInv
<1>1. /\ \A w \in Workers : worker[w].pc = "idle"
      /\ target[f] # 0 /\ source[f] = 0
      /\ source' = [source EXCEPT ![f] = target[f]]
      /\ target' = [target EXCEPT ![f] = 0]
      /\ UNCHANGED <<staging, newest, late, journal, gate, device, cache, executor, worker,
                     story, writes>>
  BY DEF MovedBack, Busy
<1>2. \A g \in File : source[g] \in Nat /\ newest[g] \in Nat /\ target[g] \in Nat
  BY MigrationAssumption DEF Types, Versions, Partial
<1>3. /\ \A g \in File : g # f => source'[g] = source[g] /\ target'[g] = target[g]
      /\ source'[f] = target[f] /\ target'[f] = 0
  BY <1>1 DEF Types
<1>4. Types'
  <2>1. target[f] \in Versions /\ 0 \in Versions
    BY MigrationAssumption DEF NothingIsLost, Types, Versions
  <2>. QED  BY <1>1, <2>1 DEF Types
<1>5. OneExecutor' /\ OwnFiles'
  BY <1>1 DEF OneExecutor, OwnFiles, Mine
<1>6. VersionsInOrder'
  BY <1>1, <1>2, <1>3 DEF VersionsInOrder
<1>7. WholeCopies'
  BY <1>1 DEF WholeCopies, WholeCopy
<1>8. UntouchedWithoutConsent' /\ GatesAreKept'
  <2>1. consented # "no"
    BY <1>1 DEF UntouchedWithoutConsent
  <2>. QED  BY <1>1, <2>1 DEF UntouchedWithoutConsent, GatesAreKept, GateIsKept, Mine
<1>9. PlansAreWorkedOff' /\ ResumesAreServed'
  BY <1>1 DEF PlansAreWorkedOff, ResumesAreServed, Running, Executing, WithFile, Moving,
     Filtering, Workers
<1>10. NothingIsLost' /\ ResumesFindTheirSession'
  <2>1. \A g \in File : g \notin late => newest[g] \in {source'[g], target'[g]}
    BY <1>1, <1>2, <1>3 DEF NothingIsLost, VersionsInOrder
  <2>2. \A g \in File : target'[g] # Partial
    BY <1>3, MigrationAssumption DEF NothingIsLost, Partial
  <2>3. ResumesFindTheirSession'
    BY <1>1 DEF ResumesFindTheirSession
  <2>. QED  BY <1>1, <2>1, <2>2, <2>3 DEF NothingIsLost
<1>. QED  BY <1>4, <1>5, <1>6, <1>7, <1>8, <1>9, <1>10

-----------------------------------------------------------------------------
(* The theorems *)

\* Every step keeps the invariant.
LEMMA StepKeeps == ASSUME IInv, [Next]_vars PROVE IInv'
<1>1. ASSUME NEW w \in Workers, WorkerStep(w) \/ Refused(w) PROVE IInv'
  BY <1>1, PlanningKeeps, JournalKeeps, DecisionKeeps, LandingKeeps
     DEF WorkerStep, MoveStep
<1>2. ASSUME NEW s \in Session, Resume(s) \/ ResumeStep(s) \/ Close(s) PROVE IInv'
  BY <1>2, ResumeKeeps
<1>3. ASSUME NEW f \in File, OwnerWrites(f) \/ MovedBack(f) PROVE IInv'
  BY <1>3, OwnerWritesKeeps, MovedBackKeeps
<1>. QED  BY <1>1, <1>2, <1>3, QuietStepKeeps, MoveKeeps, CrashKeeps, ReportKeeps DEF Next

\* IInv holds in every reachable state.
THEOREM Invariant == Spec => []IInv
<1>1. Init => IInv
  BY InitEstablishes
<1>2. IInv /\ [Next]_vars => IInv'
  BY StepKeeps
<1>. QED  BY <1>1, <1>2, PTL DEF Spec

\* Every variable has its type.
THEOREM TypeCorrect == Spec => []TypeOK
<1>1. IInv => TypeOK
  BY TypesGiveTypeOK DEF IInv
<1>. QED  BY <1>1, Invariant, PTL

\* Whatever crashes, fails, or is written meanwhile, the newest bytes of a
\* file are in one of the two homes, and Baaz's never has a torn one.
THEOREM NothingIsLostAlways == Spec => []NothingIsLost
<1>1. IInv => NothingIsLost
  BY DEF IInv
<1>. QED  BY <1>1, Invariant, PTL

\* A run that ends without an error left nothing of its plan behind.
THEOREM CleanRunsMovedAllAlways == Spec => []CleanRunMovedAll
<1>1. IInv => CleanRunMovedAll
  BY DEF IInv, CleanRunMovedAll, PlansAreWorkedOff, Settled, Running, Moving
<1>. QED  BY <1>1, Invariant, PTL

\* A resume is given a home that has its session, unless a Move overtook it or
\* a file of its session could not be moved.
THEOREM ResumesFindTheirSessionAlways == Spec => []ResumesFindTheirSession
<1>1. IInv => ResumesFindTheirSession
  BY DEF IInv
<1>. QED  BY <1>1, Invariant, PTL

\* Only the owner takes away what has landed.
LEMMA StepOverwritesNothing ==
    ASSUME IInv, [Next]_vars, NEW f \in File, target[f] # 0, target'[f] # target[f]
    PROVE  MovedBack(f)
<1>1. ASSUME NEW w \in Workers, WorkerStep(w) \/ Refused(w) PROVE FALSE
  <2>1. CASE Rename(w) \/ Snapshot(w) \/ Copied(w) \/ Commit(w) \/ RemoveSource(w)
    BY <2>1, LandingKeeps
  <2>2. CASE JournalStep(w)
    BY <2>2 DEF JournalStep, ReadJournal, PruneJournal, BeginMove, MarkCompleted,
       DropRecord, WriteJournal
  <2>3. CASE SkipMove(w) \/ CrossDevice(w) \/ Verify(w) \/ Compare(w) \/ Refused(w)
    BY <2>3 DEF SkipMove, CrossDevice, Verify, Compare, Refused
  <2>4. CASE \/ MakePlan(w) \/ Filter(w) \/ LockExecutor(w) \/ CleanStaleStaging(w)
             \/ NextMove(w) \/ AllMoved(w)
    BY <2>4 DEF MakePlan, Filter, LockExecutor, CleanStaleStaging, NextMove, AllMoved
  <2>. QED  BY <1>1, <2>1, <2>2, <2>3, <2>4 DEF WorkerStep, MoveStep
<1>2. ASSUME NEW s \in Session, Resume(s) \/ ResumeStep(s) \/ Close(s) PROVE FALSE
  BY <1>2 DEF Resume, ResumeStep, Gate, PinLegacyResume, ClearLegacyResume, Spawn, Close
<1>3. ASSUME NEW g \in File, OwnerWrites(g) \/ MovedBack(g) PROVE MovedBack(f)
  <2>1. CASE OwnerWrites(g)
    BY <2>1 DEF OwnerWrites
  <2>2. CASE MovedBack(g)
    BY <2>2 DEF MovedBack, IInv, Types
  <2>. QED  BY <1>3, <2>1, <2>2
<1>4. ~(RefreshCache \/ Move \/ Report \/ Crash \/ Done \/ UNCHANGED vars)
  BY DEF RefreshCache, Move, Report, Crash, Done, vars
<1>5. ASSUME NEW kinds \in {{"live"}, {"live", "done"}} PROVE ~TimePasses(kinds)
  BY DEF TimePasses
<1>. QED  BY <1>1, <1>2, <1>3, <1>4, <1>5 DEF Next

\* What has landed in Baaz's home is never written over.
THEOREM NeverOverwrittenAlways == Spec => NeverOverwritten
<1>1. IInv /\ [Next]_vars =>
        [\A f \in File : target[f] # 0 /\ target'[f] # target[f] => MovedBack(f)]_vars
  BY StepOverwritesNothing
<1>. QED  BY <1>1, Invariant, PTL DEF Spec, NeverOverwritten

=============================================================================

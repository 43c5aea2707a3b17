--------------------------- MODULE CleanupLedger ---------------------------
(***************************************************************************)
(* The cleanup ledger: what each owner (a conversation's CLI session, a    *)
(* session's worktree, a worker) created outside the database, recorded in *)
(* the log so that it can be removed after a crash too.  Tasks record      *)
(* artifacts before they create them; other tasks end an owner's processes *)
(* or dispose of the owner; a starting daemon sweeps what is left.         *)
(*                                                                         *)
(* Source: src/crates/core/src/ledger.rs.                                  *)
(***************************************************************************)
EXTENDS FiniteSets

CONSTANTS
    Owners,       \* ledger owners
    Jobs,         \* owners only one task at a time uses: brain jobs, research, commit messages
    Tasks,        \* tasks of the daemon that use the ledger
    Artifacts,    \* what an owner may create
    Pids,         \* Artifact::Process, recorded once it runs
    Dirs,         \* Artifact::ProcessesIn
    Worktrees,    \* Artifact::Worktree, removed by the git engine
    Reused        \* artifacts an owner may record again under the same identity

ASSUME LedgerAssumption ==
    /\ Owners # {} /\ Jobs \subseteq Owners
    /\ Pids \subseteq Artifacts /\ Dirs \subseteq Artifacts /\ Worktrees \subseteq Artifacts
    /\ Reused \subseteq Artifacts /\ Pids \intersect Reused = {}

(* is_process *)
Processes == Pids \union Dirs
Holdings  == [Owners -> SUBSET Artifacts]

(***************************************************************************)
(* What a task works on: an artifact it records (left), or what it has     *)
(* still to remove (left, then files) and what it removed and not yet      *)
(* acknowledged.                                                           *)
(***************************************************************************)
Job == [owner : Owners, left : SUBSET Artifacts, files : SUBSET Artifacts,
        removed : SUBSET Artifacts, disposes : BOOLEAN]

Steps == {"idle", "append", "note", "create", "request", "mark", "snapshot", "remove", "drop"}

VARIABLES
    (* the log *)
    logged,      \* recorded and not removed
    requested,   \* owners whose disposal was requested
    (* the daemon's memory: State *)
    held,        \* State.artifacts
    disposing,   \* State.disposing
    (* the world *)
    exists,      \* artifacts that are there
    pc, job,     \* per task
    (* the sweeps of a start: Runtime::start's and, with the git engine, recover's *)
    sweeps,      \* sweeps not finished; clients are served at 0
    toEnd,       \* owners whose processes this sweep has yet to end
    toDispose,   \* owners it has yet to dispose of
    (* the owners' users *)
    life,        \* open, leaving (its disposal was asked for) or closed (archived)
    ever,        \* artifacts ever recorded under an identity of their own
    asked        \* owners somebody ever asked to dispose of

log    == <<logged, requested>>
state  == <<held, disposing>>
sweep  == <<sweeps, toEnd, toDispose>>
users  == <<life, ever, asked>>
vars   == <<log, state, exists, pc, job, sweep, users>>

NoJob == [owner |-> CHOOSE o \in Owners : TRUE, left |-> {}, files |-> {}, removed |-> {}, disposes |-> FALSE]
Nothing == [o \in Owners |-> {}]

Init ==
    /\ logged = Nothing /\ requested = {}
    /\ held = Nothing /\ disposing = {}
    /\ exists = Nothing
    /\ pc = [t \in Tasks |-> "idle"]
    /\ job = [t \in Tasks |-> NoJob]
    /\ sweeps = 0 /\ toEnd = {} /\ toDispose = {}
    /\ life = [o \in Owners |-> "open"]
    /\ ever = Nothing /\ asked = {}

(* The task goes to another step, with another job. *)
Goto(t, step, j) ==
    /\ pc' = [pc EXCEPT ![t] = step]
    /\ job' = [job EXCEPT ![t] = j]

With(holdings, o, set)    == [holdings EXCEPT ![o] = @ \union set]
Without(holdings, o, set) == [holdings EXCEPT ![o] = @ \ set]

(* A job's owner has one task; a conversation or worker may be disposed of, or its session *)
(* stop, while its CLI is still being started.                                             *)
MayUse(t, o) == o \in Jobs => \A u \in Tasks \ {t} : pc[u] = "idle" \/ job[u].owner # o

-----------------------------------------------------------------------------
(* record(): check the memory, append, note it in memory; the caller then creates it. *)

(* A process runs before it has an identity to record. *)
StartRecord(t, o, a) ==
    /\ sweeps = 0 /\ pc[t] = "idle" /\ MayUse(t, o) /\ life[o] # "closed"
    /\ a \in Reused \/ a \notin ever[o]
    /\ ever' = With(ever, o, {a} \ Reused)
    /\ exists' = IF a \in Pids THEN With(exists, o, {a}) ELSE exists
    /\ Goto(t, IF a \in held[o] THEN "create" ELSE "append", [NoJob EXCEPT !.owner = o, !.left = {a}])
    /\ UNCHANGED <<log, state, sweep, life, asked>>

(* Mutant: the artifact is taken as recorded before the log has it. *)
NotLogged(t) == logged

(* The log once the event of the task's record is appended. *)
Recorded(t) == With(logged, job[t].owner, job[t].left)

AppendRecord(t) ==
    /\ pc[t] = "append"
    /\ logged' = Recorded(t)
    /\ Goto(t, "note", job[t])
    /\ UNCHANGED <<requested, state, exists, sweep, users>>

(* The append fails; its caller gives up creating the artifact. *)
RecordFails(t) ==
    /\ pc[t] = "append"
    /\ Goto(t, "idle", NoJob)
    /\ UNCHANGED <<log, state, exists, sweep, users>>

Note(t) ==
    /\ pc[t] = "note"
    /\ held' = With(held, job[t].owner, job[t].left)
    /\ IF job[t].left \subseteq Pids THEN Goto(t, "idle", NoJob) ELSE Goto(t, "create", job[t])
    /\ UNCHANGED <<log, disposing, exists, sweep, users>>

(* The caller creates the artifact, or fails to. *)
Create(t) ==
    /\ pc[t] = "create"
    /\ exists' = With(exists, job[t].owner, job[t].left) \/ UNCHANGED exists
    /\ Goto(t, "idle", NoJob)
    /\ UNCHANGED <<log, state, sweep, users>>

-----------------------------------------------------------------------------
(* end_processes(), dispose(), remove(). *)

(* Mutant: a session that stops loses its files as well. *)
Everything(o) == held[o]

(* What a session that stops or hibernates gives up. *)
ItsProcesses(o) == held[o] \intersect Processes

StartEnd(t, o) ==
    Goto(t, "remove", [NoJob EXCEPT !.owner = o, !.left = ItsProcesses(o)])

StartDispose(t, o) ==
    Goto(t, IF o \in disposing THEN "snapshot" ELSE "request", [NoJob EXCEPT !.owner = o, !.disposes = TRUE])

(* A session stops or hibernates. *)
EndProcesses(t, o) ==
    /\ sweeps = 0 /\ pc[t] = "idle" /\ MayUse(t, o)
    /\ StartEnd(t, o)
    /\ UNCHANGED <<log, state, exists, sweep, users>>

(* A conversation is archived or deleted, a task ends, Storage cleans up. *)
Dispose(t, o) ==
    /\ sweeps = 0 /\ pc[t] = "idle" /\ MayUse(t, o)
    /\ StartDispose(t, o)
    /\ asked' = asked \union {o}
    /\ life' = [life EXCEPT ![o] = IF @ = "open" THEN "leaving" ELSE @]
    /\ UNCHANGED <<log, state, exists, sweep, ever>>

(* A request that cannot be recorded is only logged. *)
Request(t) ==
    /\ pc[t] = "request"
    /\ requested' = requested \union {job[t].owner} \/ UNCHANGED requested
    /\ Goto(t, "mark", job[t])
    /\ UNCHANGED <<logged, state, exists, sweep, users>>

(* Processes first, then files. *)
Snapshot(t) ==
    /\ pc[t] \in {"mark", "snapshot"}
    /\ disposing' = IF pc[t] = "mark" THEN disposing \union {job[t].owner} ELSE disposing
    /\ LET all == held[job[t].owner] IN
       Goto(t, "remove", [job[t] EXCEPT !.left = all \intersect Processes, !.files = all \ Processes])
    /\ UNCHANGED <<log, held, exists, sweep, users>>

(* Mutant: an artifact that could not be removed is acknowledged too. *)
AckedAnyway(a, gone) == TRUE

(* Whether an artifact counts as removed: a process does, however its kill went. *)
Acked(a, gone) == gone \/ a \in Pids

(* One artifact is removed, or not; a failure may come after the removal. *)
RemoveOne(t, a, gone) ==
    /\ pc[t] = "remove" /\ a \in job[t].left
    /\ exists' = Without(exists, job[t].owner, {a}) \/ (~gone /\ UNCHANGED exists)
    /\ Goto(t, "remove", [job[t] EXCEPT !.left = @ \ {a},
                              !.removed = IF Acked(a, gone) THEN @ \union {a} ELSE @])
    /\ UNCHANGED <<log, state, sweep, users>>

(* Every artifact of the list was tried; the removals are acknowledged in the log. *)
Acknowledge(t) ==
    /\ pc[t] = "remove" /\ job[t].left = {} /\ job[t].removed # {}
    /\ logged' = Without(logged, job[t].owner, job[t].removed)
    /\ Goto(t, "drop", job[t])
    /\ UNCHANGED <<requested, state, exists, sweep, users>>

(* Mutants: the memory keeps what the log no longer has; or forgets the owner. *)
StillHeld(t) == held
OwnerDropped(t) == [o \in Owners \ {job[t].owner} |-> held[o]]

(* The memory once the removals are acknowledged. *)
HeldAfter(t) == Without(held, job[t].owner, job[t].removed)

(* This remove() returns: the files' turn, or the end of the job. *)
NextPart(t) ==
    \/ /\ job[t].files # {}
       /\ Goto(t, "remove", [job[t] EXCEPT !.left = job[t].files, !.files = {}, !.removed = {}])
       /\ UNCHANGED <<disposing, life>>
    \/ /\ job[t].files = {}
       /\ Goto(t, "idle", NoJob)
       /\ disposing' = IF job[t].disposes /\ held'[job[t].owner] = {}
                         THEN disposing \ {job[t].owner} ELSE disposing
       /\ life' = IF job[t].disposes /\ sweeps = 0
                    THEN [life EXCEPT ![job[t].owner] = "closed"] ELSE life

Drop(t) ==
    /\ pc[t] = "drop"
    /\ held' = HeldAfter(t)
    /\ NextPart(t)
    /\ UNCHANGED <<log, exists, sweep, ever, asked>>

(* Nothing was removed, or the append of the acknowledgement fails. *)
NotAcknowledged(t) ==
    /\ pc[t] = "remove" /\ job[t].left = {}
    /\ UNCHANGED held
    /\ NextPart(t)
    /\ UNCHANGED <<log, exists, sweep, ever, asked>>

-----------------------------------------------------------------------------
(* The daemon is killed.  load() folds the log; the next daemon sweeps twice before it    *)
(* serves anyone, the first time without the git engine.                                  *)
SweepOf(n) ==
    /\ sweeps' = n
    /\ toEnd' = {o \in Owners : held'[o] # {}}
    /\ toDispose' = disposing'

Restart ==
    /\ held' = logged /\ disposing' = requested
    /\ pc' = [t \in Tasks |-> "idle"]
    /\ job' = [t \in Tasks |-> NoJob]
    /\ SweepOf(2)
    /\ UNCHANGED <<log, exists, users>>

AllIdle == \A t \in Tasks : pc[t] = "idle"

SweepEnd(t, o) ==
    /\ sweeps # 0 /\ AllIdle /\ o \in toEnd
    /\ toEnd' = toEnd \ {o}
    /\ StartEnd(t, o)
    /\ UNCHANGED <<log, state, exists, sweeps, toDispose, users>>

(* Without the git engine an owner with a worktree is left to the second sweep. *)
SweepDispose(t, o) ==
    /\ sweeps # 0 /\ AllIdle /\ toEnd = {} /\ o \in toDispose
    /\ toDispose' = toDispose \ {o}
    /\ IF sweeps = 2 /\ held[o] \intersect Worktrees # {}
         THEN UNCHANGED <<pc, job>>
         ELSE StartDispose(t, o)
    /\ UNCHANGED <<log, state, exists, sweeps, toEnd, users>>

SweepDone ==
    /\ sweeps # 0 /\ AllIdle /\ toEnd = {} /\ toDispose = {}
    /\ UNCHANGED state
    /\ IF sweeps = 2 THEN SweepOf(1) ELSE sweeps' = 0 /\ UNCHANGED <<toEnd, toDispose>>
    /\ UNCHANGED <<log, exists, pc, job, users>>

(* An archived conversation is brought back; its owner may record again. *)
Restore(o) ==
    /\ sweeps = 0 /\ life[o] = "closed"
    /\ life' = [life EXCEPT ![o] = "open"]
    /\ UNCHANGED <<log, state, exists, pc, job, sweep, ever, asked>>

(* Processes end by themselves. *)
ProcessEnds(o, a) ==
    /\ a \in Processes \intersect exists[o]
    /\ exists' = Without(exists, o, {a})
    /\ UNCHANGED <<log, state, pc, job, sweep, users>>

TaskStep(t) ==
    \/ AppendRecord(t) \/ RecordFails(t) \/ Note(t) \/ Create(t)
    \/ Request(t) \/ Snapshot(t) \/ Acknowledge(t) \/ Drop(t)
    \/ NotAcknowledged(t)
    \/ \E a \in Artifacts, gone \in BOOLEAN : RemoveOne(t, a, gone)

Next ==
    \/ \E t \in Tasks, o \in Owners :
           \/ EndProcesses(t, o) \/ Dispose(t, o) \/ SweepEnd(t, o) \/ SweepDispose(t, o)
           \/ \E a \in Artifacts : StartRecord(t, o, a)
    \/ \E t \in Tasks : TaskStep(t)
    \/ SweepDone \/ Restart
    \/ \E o \in Owners : Restore(o) \/ \E a \in Artifacts : ProcessEnds(o, a)

Spec == Init /\ [][Next]_vars

-----------------------------------------------------------------------------
TypeOK ==
    /\ logged \in Holdings /\ held \in Holdings /\ exists \in Holdings /\ ever \in Holdings
    /\ requested \subseteq Owners /\ disposing \subseteq Owners /\ asked \subseteq Owners
    /\ toEnd \subseteq Owners /\ toDispose \subseteq Owners /\ sweeps \in {0, 1, 2}
    /\ pc \in [Tasks -> Steps] /\ job \in [Tasks -> Job]
    /\ life \in [Owners -> {"open", "leaving", "closed"}]

(***************************************************************************)
(* What a job created is in the log, however records, disposals, failures  *)
(* and crashes meet, so it can always be removed (ledger.rs:1 "recorded    *)
(* before it is relied on"); a process has no identity before it runs.     *)
(***************************************************************************)
NothingForgotten == \A o \in Jobs : exists[o] \ Pids \subseteq logged[o]

(***************************************************************************)
(* When no task is between a log write and its note in memory, the memory  *)
(* has what a restart would load.                                          *)
(***************************************************************************)
Settled == \A t \in Tasks : pc[t] \notin {"note", "drop"}
MemoryIsLog ==
    Settled => \A o \in Owners : held[o] \ Reused = logged[o] \ Reused

(***************************************************************************)
(* Hibernation, and a crash followed by a sweep, take processes; the files *)
(* of an owner nobody ever asked to dispose of are not touched.            *)
(***************************************************************************)
FilesKept ==
    [][\A o \in Owners \ asked : exists[o] \ Processes \subseteq exists'[o]]_vars

(***************************************************************************)
(* The same for an owner that was restored: what it created is "removed    *)
(* exactly when its owner is disposed of" (ledger.rs:2), so a starting     *)
(* daemon's sweep leaves it alone.                                         *)
(***************************************************************************)
RestoredKept ==
    [][\A o \in Owners :
           sweeps # 0 /\ life[o] = "open" => exists[o] \ Processes \subseteq exists'[o]]_vars

(***************************************************************************)
(* "Recorded before it is relied on" (ledger.rs:1), for conversations and  *)
(* workers too: a file that is there is in the log.                        *)
(***************************************************************************)
AllRemembered == \A o \in Owners : exists[o] \ Processes \subseteq logged[o]

(***************************************************************************)
(* The inductive invariant, in four parts: a job's owner has one task; what *)
(* that task has created or is to create is in the log, and what it is to  *)
(* acknowledge is gone; an artifact with an identity of its own is recorded *)
(* once, so that no removal of it is under way before it is noted; and only *)
(* owners asked to be disposed of are marked, or have files in a job.      *)
(***************************************************************************)
Uses(t, o) == pc[t] # "idle" /\ job[t].owner = o

OneTaskPerJob == \A o \in Jobs, t, u \in Tasks : Uses(t, o) /\ Uses(u, o) => t = u

JobRecorded(o) ==
    /\ exists[o] \ Pids \subseteq logged[o]
    /\ (\A t \in Tasks : pc[t] = "drop" => job[t].owner # o) => held[o] \subseteq logged[o]
    /\ \A t \in Tasks : Uses(t, o) =>
           /\ pc[t] \in {"note", "create"} => job[t].left \subseteq logged[o]
           /\ pc[t] = "drop" => held[o] \ job[t].removed \subseteq logged[o]
           /\ job[t].removed \intersect exists[o] \subseteq Pids

JobsRecorded == \A o \in Jobs : JobRecorded(o)

Listed(t, o, a)    == Uses(t, o) /\ pc[t] \notin {"append", "note", "create"}
                      /\ a \in job[t].left \union job[t].files \union job[t].removed
Dropping(t, o, a)  == Uses(t, o) /\ pc[t] = "drop" /\ a \in job[t].removed
Recording(t, o, a) == Uses(t, o) /\ pc[t] \in {"append", "note"} /\ a \in job[t].left
Noting(t, o, a)    == Uses(t, o) /\ pc[t] = "note" /\ a \in job[t].left

Once(o, a) ==
    /\ a \in logged[o] \union held[o] => a \in ever[o]
    /\ \A t \in Tasks : Recording(t, o, a) \/ Listed(t, o, a) => a \in ever[o]
    /\ \A t \in Tasks : Recording(t, o, a) =>
           /\ a \notin held[o]
           /\ a \in logged[o] <=> Noting(t, o, a)
           /\ \A u \in Tasks : ~Listed(u, o, a) /\ (Recording(u, o, a) => u = t)
    /\ \A t \in Tasks : Dropping(t, o, a) => a \notin logged[o]
    /\ a \in held[o] \ logged[o] => \E t \in Tasks : Dropping(t, o, a)
    /\ a \in logged[o] \ held[o] => \E t \in Tasks : Noting(t, o, a)

RecordedOnce == \A o \in Owners, a \in Artifacts \ Reused : Once(o, a)

OnlyAsked ==
    /\ requested \union disposing \union toDispose \subseteq asked
    /\ \A t \in Tasks :
           /\ pc[t] \in {"request", "mark", "snapshot"} => job[t].owner \in asked
           /\ pc[t] \in {"remove", "drop"} =>
                  job[t].left \union job[t].files \subseteq Processes \/ job[t].owner \in asked

Inductive == OneTaskPerJob /\ JobsRecorded /\ RecordedOnce /\ OnlyAsked
=============================================================================

# Brigadier: a TLA+ development

Brigadier is a desktop app that runs coding agents. A background daemon (`brigadierd`, Rust)
owns all state: an SQLite event log, a directory of content-addressed blobs, the agents' CLI
processes, git worktrees. A Tauri shell bridges the daemon's socket to a web UI. The modules
here model the parts of the daemon that everything else relies on: how events are stored and
published, how blobs are collected, how views are folded from the log, how settings are
written, how what was created outside the database is cleaned up, how the window follows
the log, how a conversation's messages become turns, how the CLI sessions of a worker follow one another, and how
a worker's change is checked and landed. Each is model-checked on a small instance; most are proved for all parameters.

Paths are relative to the repository's root (`src/` here).

## 1. The system: inventory

| Component | State it keeps | Operations | Talks to | What is hard | What makes it correct |
|---|---|---|---|---|---|
| Event store `crates/store` (writer, lib, schema) | `events` table, `sqlite_sequence`, cache of stream heads, bounded queue, broadcast feed | append (with retention), delete streams, checkpoint, compact, shutdown, open | every task (queue + oneshot), feed subscribers | batches share a transaction, savepoint rollbacks, crash between commit and reply, shutdown with a full queue | replies are true, appends are atomic, numbers unique, streams contiguous, feed in order, every call answered |
| Blob store and collector `store/src/blob.rs` | files and their times, `blob_refs` | put, touch, list, remove, gc | composers and workers (put), writer (references, removal) | a put or touch races listing and removal; time is the only lock between put and append | a stored event never names a missing blob |
| Catalog `core/src/{projection,sessions}.rs` | projects, conversations, last writer per field | create, rename, pin, set up, archive, delete, fallback, wait | event store, UI | commands commit in one order and apply in another | the view is what a restart would fold |
| Settings `core/src/{sessions,routing/availability}.rs` | one value, a lock | note models, save a client's copy | provider lists, UI | stale pages saved over what the daemon recorded | known models stay known, new ones start barred |
| Boards and message queues `core/src/{board,sessions}.rs` | per-conversation fold, queue of messages | enqueue, edit, move, take, settle, pop, pause | conversation driver, UI | decisions on a copy of the board, then a change under the lock | nothing sent twice or from a paused queue |
| Cleanup ledger `core/src/ledger.rs` | artifacts per owner, owners being disposed of | record, end processes, dispose, sweep | providers, git, OS, event store | records race disposals; crashes between creating, removing and acknowledging | nothing is forgotten, nobody's files go unasked |
| Raw sessions `core/src/runtime.rs` | state per CLI session | start, resume, fork, interrupt, close, sweep | providers, ledger | check-then-append; dying CLIs | one process per session, every start settles |
| Conversation driver `core/src/manager/{mod,conversation,requests,cards,decisions}.rs` | live turn, queue, pending cards | send, steer, interrupt, end of turn, rebirth | runtime, boards, workers | three tasks act on a turn at once | one turn at a time, each message answered once |
| Tasks and workers `manager/{workers,fallback,watchdog,worker_handoff}.rs` | task states, worktrees, quota waits | start, step, finish, fall back, retry, recover | runtime, git, gates | quota waits, restarts, handoffs | no task lost, no slot leaked |
| Gates and reviews `manager/{gates,plan_gates,review}.rs` | rounds and verdicts | open, answer, retry, decide | workers, providers | late verdicts, lost reviewers | nothing lands unreviewed |
| Landing and git `manager/{landing,git_actions,undo,branches}.rs`, `crates/git` | refs, worktrees, checkouts | land, undo, reapply, sync | git, gates | moved refs, interrupted landings | the user's uncommitted work survives |
| Rebirth `manager/{rebirth,cold,warm}.rs` | handoff note, replacement session | prepare, switch, abandon | runtime | a turn arriving during the switch | no message lost |
| Overnight runs `manager/overnight`, `core/src/overnight.rs` | run, phases, slots, deadline | start, phase, gate, wind down, recover, report | workers, gates, daemon supervisor | restarts in the middle of a phase | each phase verified once, slots respected |
| Lifecycle `manager/{lifecycle,fork,side_chat,project_removal,uninstall}.rs` | conversation lifecycle | archive, restore, delete, recover | ledger, git, catalog | recovery of half-done archives | restore gives back what archive kept |
| Router `crates/router`, `core/src/routing` | rankings, quota, outcomes | decide, forecast, learn, merge | workers | floating-point scores | only allowed models chosen |
| Daemon session and feed `daemon/src/server.rs` | feed position, last event sent | subscribe, replay, forward, lag, answer requests | store feed, bridge | lag, replay against live events | no gap, no repeat |
| Desktop bridge and window `apps/desktop/src-tauri/src/bridge.rs`, `apps/desktop/src/state` | last event seen, queued requests, catalog copy | connect, forward, reload, apply | daemon, UI | reconnects, reloads racing events | the window ends up showing what the daemon has |
| Daemon services `daemon/src/{idle,terminals,gate,dictation,upgrade}.rs` | activity, pseudo terminals | idle exit, gate requests | OS | exit racing a new client | never exits while used |
| IPC `crates/ipc` | frames | handshake, read, write | both sides | partial reads | |
| Providers `crates/providers` | CLI processes, parsed streams | send, steer, approve, fork, remove | vendors' CLIs | formats owned by others | |
| Brain, index, sandbox, MCP server | vector database, index, OS handles | download, embed, scan, spawn | OS | I/O | |

How a change flows: a UI request crosses the bridge to a daemon session, which calls the core.
The core appends an event and waits for the writer (**EventStore**); once answered it applies the event
to its projection (**CatalogProjection**, **SettingsWrites**). The writer broadcasts the event before it
answers; each session forwards it, the bridge passes it on and the window applies it
(**FeedSubscription**). Whatever an agent's session creates outside the database is recorded
through the same log first (**CleanupLedger**), and large payloads are blobs named in events
(**BlobGc**). A user's message goes to its conversation's driver, which queues it, steers it into the
turn that runs or starts a turn with it (**ConversationDriver**). The orchestrator hands work to tasks: each has a worker,
a CLI session that is replaced when it ends, stalls, runs out of quota or of context (**WorkerSession**). The change it reports is built into a
commit, checked in rounds, put to the user and landed on the target branch (**ChangeLanding**). Overnight, a conductor leads the orchestrator through a
plan's phases on a branch of their own, has each phase checked as a whole, and ends with a report (**OvernightRun**).

## 2. Modules

Every component module declares its CONSTANTS with a named ASSUME, one action per step
of the code that another task can run between, and ends in its properties. `MC*` modules
give constants small values; `*Proofs` modules hold the TLAPS proofs.

### EventLog, EventStore

`EventLog` is the promise: rows that change one commit at a time, numbered for good, streams
without gaps. `EventStore` is the code: callers that pass the `admitting` check and then send
(`Submit`, `Send`), the queue, the writer that drains a batch, sorts it (`SortCommand`: mutations
first, shutdowns held back), applies each command under a savepoint (`Begin`, `InsertEvent`,
`FinishAppend`, `ApplyDelete`, `FailCommand`, `EndCommand`), commits, publishes and replies
one event at a time, and stops or dies. `CommitFails`, `TransactionFails`, `WriterEnds` and `Restart`
are the failures. `rows`, `issued` are the disk; `work`, `workIssued` the open transaction; `heads` the cache;
`feed`, `lastSeq`, `answers` what others see. `ever` and `answers` are history.

Abstracted: payloads, times and kinds of events; checkpoint and compact, which change nothing
modelled; the readers. A restart drops callers' waits as the process dies with them.

### BlobGc

A holder puts (temp file, rename) or touches a blob and may reference it in an event while its
hold is younger than the grace period; a collector computes a cutoff, lists entries one by one and sends
chunks to the writer, which checks references and the file's time again under the lock. The clock
is a variable. The code's rule (comment at `store/src/blob.rs:58`) that a reference follows a put or touch within
the grace period is `MayReference`; the guarantee is the grace minus the time a put takes
(`MaxPutTime`), because a file's time is that of the temp file's last write.

### CatalogProjection

The log's fold (`saved`) and the daemon's view (`live`) side by side. A command reads the view,
appends a batch (`Record`, `Commit`/`AppendFails`) and applies it later (`Apply`), in any order with others.
Fields with a sequence map are `Guarded`; `fallback` and `quota_wait` have none. `updated_at_ms` is a maximum and commutes, so
it is left out. A change of setup also remembers it in the project in the same batch (`Remembering`).

### SettingsWrites

Settings are the pair (known models, models with a worker rule). Clients save the copy their page read, however
old; listers note an agent's list; `settings_writes` is the lock; `Noted` and `Rebased` are the two rules.
The load-time migration (`sessions.rs:124-126`) runs once before anyone else and is not modelled.

### CleanupLedger

Per task a small program counter over `record` (check, append, note, create), `end_processes`,
`dispose` (request, mark, snapshot, processes, files) and `remove` (one artifact at a time, acknowledge, drop).
`logged`/`requested` are the log's fold, `held`/`disposing` the memory, `exists` the world. `Restart`
kills everything; the next daemon sweeps twice (without and with the git engine) before it serves
clients. `Jobs` are owners one task at a time uses (brain jobs, research, commit messages); the others can be disposed
of while their CLI starts, which the code allows. `Reused` artifacts are those an owner records
again under the same identity (its folder, its worktree). Raw sessions that the runtime removes concurrently with the
second sweep are not in this model. A removal of several CLI files fails as a whole in the code; each fails alone here, which allows more.

### FeedSubscription

Composes the store's publishing (as a counter), the daemon session, the bridge and the window. An
event is its sequence number. `wire` is the socket, `channel` the Tauri channel, `answers` the
promises of requests, which are not ordered with the channel. `Connect` stands for the Welcome
and the Connected notice together: nothing else of a connection happens in between. Gaps in the numbers (deleted streams) and request timeouts are left out; a frame lost is a frame dropped with its connection (`Break`).

### ConversationDriver

One conversation, a Chat or a session (`kind`). `board` is what is stored and changed one step at a time
under the boards' lock; `conv` is `ConvState`, in memory under its own lock; `clis` the CLI processes
and the events their pumps have yet to read; `kicks` the drivers spawned. Everything that runs is a task of the daemon in `proc`:
a driver (`DriverTurn`, `QueuePeek`, `QueueTake`, `QueueAppend`, `EnsureCli`, `SendTurn`, `FailTurn`), a client's call
(`ChatSends`, `SessionSends`, `SteerQueued`, `Interrupt`, ...), a CLI's pump (`TurnCompleted`, `PumpEnds`), the orchestrator's
`route_follow_up` (`RouteFollowUp`, `Routed`) and a worker's report. A step ends where the code awaits the other lock, the store or the CLI, so that what was read
before is stale in the next step. `lock` is `ConvState`'s where the code keeps it over such a wait; where nothing else
waits under it (`ChatSends`) the whole handler is one step. `settle_requests` is three steps with its caller's next one
in `ret`: it reads the board, then the driver's activity, then writes.

Abstracted: a message is its request; `ensure_cli` is one step, because `busy` keeps everyone else from it; the requests of one settle are written together;
`kicks` saturates at `MaxKicks`, as a driver that finds another's work done returns. Only the driver's and the steerer's append after taking a
message may fail: before that a failed append just fails the call. Left out: attachments, queue positions, cards and questions to the user (no request waits, so
`working_request` and `answer_working` agree), quota waits, compaction, rebirth, hibernation, failed turns, and edits and redos.

### ChangeLanding

One write task's change. `task` is its record on the board (`BoardTask`: state, report, candidate, gate, landing), `work`, `head` and `worktree` the
task's worktree, `tip`, `overlaps` and `carried` the target branch. `jobs` are the async tasks Brigadier spawned for the change; a job's `at` names the
await it stands at and its `gate` and `commit` what it read before: `Build` and `Record` (`build_and_review`), `Open` and `Install` (`open_gate` under the
`gates` lock), `Act` (`act_on_round`), `StartFix` and `Fix`, `Escalate` and `Escalated`, `Approve`, `Answer` and `Answered` (`approve_and_land` and its card), `Land`,
`GitLands`, `Replay`, `Replayed`, `Landed`, and `HandBack` (`landing_problem`). Beside them run the worker (`WorkerEdits`, `WorkerReports`), the orchestrator
(`Accept`, `OverrideRead`/`OverrideStart`, `SendBack`), the checkers (`MemberReports`), the stop and the restart with its `recover`.
`reviewed`, `verified`, `allowed`, `overruled` and `landings` are history.

Abstracted: a commit is the content it was built from and the tip it was built on; the two reviewers are one; a worker edits as long as its worktree exists, so
`Relay` (whose wait for the turn's end times out) is always ready; the user may always have written since an escalation; "Ask for approval" is chosen once.
`accept_task` is one step because `begin_landing` decides again on what it read. Left out: failed appends, `changed_nothing`, plan and phase rounds, the overnight
merge, finishing a session, undo. With `Patient` the orchestrator accepts, overrides and sends back nothing that Brigadier has in hand (`InHand`).

### WorkerSession

One write task's CLI sessions. `task` is the board's record (state, whether an attempt is open, its errors, a quota wait), `live` the `TaskLive` under its own lock,
`known` whether that is still in the manager's map, `clis` the sessions with their process and their event pump, `jobs` the async tasks that route the task, hand it off or over, launch, fail, stop or
dispose of it; a job's `lock` is the reroute lock, so a job that waits for it is one whose guard asks for it. The pump is `TurnCompleted`, `TurnDecided` and `PumpEnds`; `HandOff`, `EndAttempt`,
`Continue`, `Routed` are `fallback.rs`; `HandOver`, `HandedOver`, `Fresh` are `worker_handoff.rs`; `Nudge` and `TakeStalled` the watchdog; `Launch`, `Install`, `Mark`, `SendFirst` `launch_worker`; then
the calls `Message`, `Pause`, `Resume`, `Stop` and their continuations.

Abstracted: a session's turn is none, running or interrupted; a round of the watchdog and the recheck `still_due` makes under the lock are one step, taken when the
session was silent for minutes, so that its turn is under way and no end of one is unread; `revive_worker` is one step; taking the reroute lock and the check under it are one. A changed set of models restarts the session
on resume only. Left out: transient retries, questions to the user, permission cards, hibernation, the daemon's restart, overnight slots, and the workspace's contents.
Updates of one task are taken in the order they were asked for (`task_writes`, `workers.rs:664`), and `launch_worker` asks for its mark right after it spawned the pump (`workers.rs:1307`), so a hand-off that ends the attempt
waits for the mark of the session it ends (`EndAttempt`). With `Patient` nobody messages or resumes a worker while one of its jobs runs or the end of a turn is unread, messages no task at work that has no session, and no launch
overtakes a message that closes a session. Once a stop or a failure is under way (`Ending`), `OneSession` and the rest of `WaitsAlone` ask nothing more: a launch that raced the stop may still install its session, be marked running and be routed
again, and all of it is about to be closed with what the task created.

### OvernightRun

One run of a plan. `run` is its record (state, whether its branch is made, the merge point, `verified_commit`), `phase` the record of each phase with its round of checks (`gate`), both changed one step at
a time under the lock of `change_run_if`. `author` is the run's branch: the phase whose work each commit is, so `tip` is its length. `jobs` are what the manager spawned and has yet to do; a job carries what
was read before it waited: the candidate, and whether the run was ending. `Advances` is `next_step` with `pick_next`, `Leads` the lead's kickoff, `PhaseDone` and `DoneRecorded` the two halves of
`phase_done_as` (reading the branch's tip, then recording under the lock), `CheckedAsIs` the one `nudge_lead` makes. `Opens`, `MemberReports`, `JudgeStarts` and `Decides` are a round; `Verdict` is `verdict_of`. `ending` is how far
`end_run` came (`EndSettles`, `EndPosts`, `EndFinishes`), and also the `winding` set that lets one run at a time; `ClockResumes` is the clock's look at a run that is reporting. `Restart` is a kill, the recovery of the tasks and `resume_run`.
A task's work is `Delegate` and `TaskEnds`; how it is checked and lands is ChangeLanding's. `held` and a gate's `evidence` are history.

Abstracted: the members of a round are a verifier, a reviewer and a judge, started and recorded in one step; "failed" is findings or no result at all, and `userOnly` whether what is left is the user's; a verdict reads the tip and is recorded in one step;
partial and blocked are one state; the deadline is a Stop; what a Stop calls the conductor for, `end_run`, starts in the same step. The lead's turns are not told apart, so reminders are not counted.
Left out: proposals and Phase 0, Continue, stop directives, "max workers", the merge, admission slots, waits for quota, gaps and notifications.

## 3. Runs

| Run | Instance | Size | What it shows |
|---|---|---|---|
| `event_store` | 2 callers, 2 streams, 4 kinds of call, queue and batch of 2, one cached head, 4 calls, 1 restart | 3.9 M states, 75 s | types, numbers, answers, feed, nothing lost; implements `EventLog` |
| `event_store_live` | 3 callers, 3 kinds of call, queue of 2, batch of 1, 3 calls, 1 restart | 450 K states, 55 s | every call is answered; a shutdown drops nothing that was sent |
| `blob_gc` | 2 contents, 2 holders, a collector, grace 2, puts up to 1, clock to 4, chunk of 1 | 50 s | no dangling reference, recent blobs kept |
| `catalog` | a project, a conversation, 2 writers, 4 commits | seconds | the view is the log's fold; deletions are final |
| `settings` | 2 models of an agent, 2 pages, a lister, 5 commits | seconds | known and barred models are kept |
| `cleanup_ledger` | a job's owner and a conversation's, one by one, 2 tasks, a process, a file, a worktree, a processes-in-folder artifact | 14 s | what exists is in the log; memory and log agree; unasked files are kept |
| `feed` | 2 events, buffer 1, page 2, replay limit 2, 1 fault | 50 s | forwarded without gap; every event reaches the window |
| `conversation` | both kinds, 2 messages, 1 driver, 1 client, 2 CLIs, 1 of 6 mishaps, one of them a worker that goes on with the answer; at most three tasks mid-way at once | 2.7 M states, 100 s | a message is given once and accounted for; follow-ups are judged, also while the answer goes on in a worker; nothing waits without a driver |
| `landing` | 3 rounds, 1 fix, 2 contents, 1 commit of others, 2 reports, 2 accepts, 1 send-back, 1 stop or restart; `Patient` | 1.45 M states, 15 s | what lands was checked and allowed as that change, once; nothing is stranded, no checker left |
| `worker` | `ERROR_HANDOFFS` of 2, any 2 outside events; `Patient` | 1.03 M states, 115 s | one session at a time until the task ends, a fresh one is not closed for an old reason, a wait has no model, no task at work stays silent |
| `overnight` | 2 phases, 2 rounds, 1 fix, 1 commit, 1 mishap (a restart, no branch, no checkers, a report not noted, a steer), a Stop | 1.6 M states, 115 s | a verified phase was checked as the commit it is verified at; the merge point covers no unverified work; one report; an ending run ends |
| `overnight_stop` | the same without mishaps | a violation after 7 states | a `phase_done` takes a run back that was stopped |

**Why the bounds are enough.** In the store, two callers in a batch of two are the smallest
instance in which one command fails and another succeeds in one transaction, and in which a delete follows an append to
its stream there; three callers on a queue of two with batches of one make a sender wait for room and leave commands
queued behind a shutdown, beyond the batch that holds it. One cached head
makes the cache overflow; four calls let a stream be appended to, trimmed or deleted, appended to again and read after a restart.
In the collector, a clock of twice the grace
lets a blob become stale, be listed, be touched and be held again. The catalog's four commits allow a
creation, two competing changes and a deletion. In the ledger two tasks are all that can meet in one owner's entry: the third would repeat the
roles of the second. The feed's buffer of one and replay limit of two make both kinds of lag happen with two events.
In a conversation, two messages are one that works and one steered into it, judged, queued or deleted beside it; the pump, the
client, the driver, the tool call and the worker are a task each, and any three of them may be mid-way at once (`MCThreeAtOnce`, the run's one state constraint: the run passes with
all of them at once too, in twice the time). Its mishaps happen
one at a time (`MaxMishaps`), each anywhere. Bugs that need three messages (an older request's turn beside a newer, finished one) or two drivers are beyond this run.
A change of two contents is the one checked and the one it became; one commit of others makes a candidate stale, with its overlap chosen; three rounds are a first one, the fix's or the
replay's, and one more before `MAX_ROUNDS` (8 in the code) is reached. In `worker`, `ERROR_HANDOFFS` of 2 (3 in the code) lets one error be handed on and the next fail the task, and
any two events (a limit, an error, an exit, a full context, a failed start, a quota wait, a retry, a message, a pause, a stop) meet at every step of the jobs the first one began, next to the watchdog and the
reports, which are not counted; a race of three events is beyond it.
An overnight run of two phases is one that is unfinished and one verified beside it; one commit makes a candidate stale, two rounds (`MAX_ROUNDS` is 6) a first one and the one after a fix, a moved branch, a retry or a restart. A
second commit (4.9 M states) and a second mishap (3.8 M) changed nothing in the safety properties; `RunEnds` with two of them is beyond it.
Bounds are constants in guards (`MaxCalls`, `MaxRestarts`, `MaxTime`, `MaxEvents`, `MaxSeq`, `MaxFaults`,
`MaxBacklog`, and the like); the proofs hold for any value.

**Deadlock.** It is checked except in the runs of the store, the feed, the conversation, `landing` and `worker`: a store that was shut down, a
window that has everything, a conversation whose messages are all sent, a change that landed and a task that ended rightly do nothing more.

**Fairness.** `event_store_live`: weak fairness of the writer thread's step, which runs as long as the process does, and of
each caller's send (tokio's bounded channel is fair). No fairness of failures, new calls or
restarts. `feed`: weak fairness of each task of the path (publish, session, bridge, window, reconnect with its
capped backoff), none of commits, breaks, restarts, or a failing read. `MaxBacklog` delays only `Connect`, which the window always re-enables. `worker`: weak
fairness of the daemon's own steps taken together (`Daemon`: jobs, pumps, the watchdog, all tasks of one runtime that runs on and a timer that ticks), none of what a CLI, the orchestrator or the user does. `overnight`: weak fairness of
`Advances` (a spawned task), of the steps of `end_run` together (one task, whose wait has a cutoff) and of `ClockResumes` (the clock looks every half minute). `Prepare`, the rounds and the agents need none: `RunEnds` is about the ending alone.

### Where code and words differ

These are in the models and have no run of their own; a formula names each where one states it.

* `RestoredKept` (CleanupLedger) fails: `CleanupCompleted` is read and never written; a request outlives its disposal, so archive,
  restore and a restart remove a restored conversation's session files and worktree.
* `CatalogCaughtUp` (FeedSubscription) fails, without any fault: `loadCatalog` overwrites live events, and `GetCatalog` answers before a published event is applied.
* `Acked`: a failed kill is acknowledged. `ReadFails`: a failed replay leaves a connection without a feed (`Delivered` excepts it).
* `WaitMatchesLog` (CatalogProjection) fails: the comment at `projection.rs:12` covers every last-writer-wins field; two have no
  sequence map, and a turn and a retry write the wait at once. The instance of `catalog` shows it.
* `AllRemembered` (CleanupLedger) fails with one shared owner: closing a conversation whose CLI is starting removes and
  acknowledges an artifact that the start then creates.
* `Judged` excepts a kill: which follow-ups the orchestrator was asked about is in memory only, so after a restart one
  that was being judged stays `deciding` and holds back the queue behind it, although "a follow-up the orchestrator didn't
  judge waits too" (`conversation.rs:14`).
* `Settled` (ConversationDriver) fails with no mishap at all: a steer's `settle_requests` that looked at the driver before the
  turn ended (`manager/requests.rs:131`) writes after the turn's end settled, so a request "works" (`requests.rs:3`) with nothing
  left of it, until something else settles. Two messages in a Chat show it.
* A steer into a turn that has just ended starts the CLI's next turn (`providers/src/claude/mod.rs:1175`); the pump then reads
  the first turn's end and clears `busy` while the second runs.
* `NothingStranded` excepts a CLI that exits or does not start: nothing kicks, and what the turn carried waits for the user's next message.
* A queue can stop with nothing running: `route_follow_up` that leaves a message in the queue after its turn was stopped,
  and `send_to_session`'s place in the queue after reading `busy`, kick no driver.
* `NothingUnchecked` (ChangeLanding) fails without `Patient`: the orchestrator accepts, sends the worker back before the build ends, and accepts the new report. A retry of the verification alone,
  meant for "the same change, already reviewed" (`gates.rs`, `Recheck::Verify`), then runs on the second build's candidate, which no reviewer saw. The verification holds: `NothingUnverified` is proved without `Patient`.
* `approve_and_land` sets the task to `AwaitingApproval` whatever it has become, so a task stopped meanwhile shows as waiting again, against
  "A task stopped meanwhile, or being stopped, stays stopped" (`landing.rs:1063`).
* A restart between git's landing and its record announces a change as not landed (`lifecycle.rs:136`); accepting it again finds nothing new and the task is done (`LandsOnce`).
* `OneSession` (WorkerSession) fails without `Patient`: a message's `revive_worker` launches without the reroute lock, beside a hand-off, a launch or a resume; and a message that closes a full session while the
  end of its turn starts a hand-over lets the old pump begin a hand-off against the fresh session (`workers.rs:1905`), although "its fresh session must not be closed mid-turn" (`worker_handoff.rs:231`).
* `launch_worker` and `continue_held` set a task to running, `wait_for_quota` and `pause_task` to paused, whatever it is by then: a worker stopped while its session starts shows as running
  (`Settles` excepts a task that was removed), and a report made meanwhile is overtaken.
* A message right after a pause, before the interrupted turn's end is read, ends with `busy` false while a turn runs: the watchdog does not look at that worker if it falls silent.
* `FenceHolds` (OvernightRun, run `overnight_stop`): "The fence comes first and is durable" (`wind_down.rs:3`), but `phase_done_as` (`conductor.rs:664`) and `open_phase_round` (`phase_gates.rs:280`) record `PhaseGate` over
  `WindingDown`. The run's checks and next phases go on; `end_run` finds it in another state and leaves. `RunEnds` excepts it (`held`), and the deadline, whose command was applied, does not come again.
* A verdict that comes while a run is reporting changes a phase that `end_run` settled, even to running or verified, as only the round's being open is asked.
* Closing a round and opening the next are two records: a kill between them leaves a phase in its checks whose round is closed, which `resume_run` passes over (`recovery.rs:101`, `Some(_) => None`); the run waits for its
  deadline or a Stop, although "every active run carries on" (`recovery.rs:34`). A kill between choosing a phase and noting its start leaves it without a start commit; `all_verified` does not count it, and `WorkCovered` excepts it.
* A round's member that ends before the round is recorded finds no round, and the round then waits for it (one step in the model). What lands after the tip a verdict read is in no phase's diff.
* A lead is called for its phase also when a Stop came between.
* A restart prepares a run again whose branch is made (`overnight/mod.rs:598`); if that fails it ends without a report although it had a branch, so `OneReport` speaks of runs of which a phase began.

## 4. Proofs

All checked by `tlapm` from nothing, for any value of the constants that meets the ASSUMEs.

* **StoreProofs**, of EventStore: `TypeInvariant`; `InductiveInvariant`. `HeadsAgree` alone is not
  inductive: a rollback can only restore agreement if the savepoint's rows are known to be the
  committed ones plus those of finished commands, so `Inductive` adds what is in and outside the
  transaction. From it: `CacheAuthoritative`, `SeqUnique` (numbers in the transaction lie above
  those issued) and `StoreImplementsLog` (each step is a commit of `EventLog` or a stutter; the
  refinement maps `rows` and `issued` to themselves). `FeedOrdered` needs that what a batch will publish lies
  in the order of its numbers above `lastSeq` (`FeedInv`). `AnswersTruthful` and `CallsAtomic` need where
  every command is: in one place only, held for a caller that waits for it, its number no other's, and no row
  bearing it until its transaction commits (`AnswersInv`); the rows of an outcome are then as many as its
  events, because their numbers ascend. `CommitsLoseNothing` needs that the head of each stream
  a command appended to is the last of its rows, so that what a trim takes is older than what the command stored
  (`LossesExplained`), and `ShutdownDrains` that a queue with a shutdown behind it is closed and empty (`Drained`).
  Of BlobGc: `ReferencesResolve` needs that a hold young enough to be referenced has a file
  with a recent time, and that no collector works with a cutoff reaching it
  (`HoldsAreFresh`, `CutoffsAreOld`). `CollectionKeepsRecent` is the action property from the same invariant.
* **CatalogProjectionProofs**: `ViewMatchesLog` from an invariant saying that a value of the log the view
  lacks is carried by a writer that has yet to apply it (`ValuesPending`), with creations
  alone in flight (`CreationsAlone`). `DeletedStaysDeleted` follows.
* **SessionsProofs**, of SettingsWrites (whose operators bear the name Settings where the two modules would clash): one writer
  at a time, computing from the newest settings (`OneWriter`, `FromNewest`), and pages never ahead of the log; then
  `KnownModelsKept`, `RulesEndKnowingly`, `LaterModelsBarred`.
  Of ConversationDriver, the run's five invariants: `DriverTypes` (`TypeOK`), `EachGivenOnce` (`GivenOnce`), `EachAccounted` (`Accounted`), `EachJudged` (`Judged`) and `NoneStranded` (`NothingStranded`), for any number of messages,
  drivers (calls of `next_turn`), clients' calls, CLIs and mishaps. None is inductive alone; `DriverInductive` has six parts. `Typed` says, besides the state's types, what a task's locals hold where it stands (`Fits`: only a task on its way to the CLI
  carries messages, only one that has been asked about follow-ups lists them). `Placed`: a message the user sent lies in one place and in one task's hands at most, and in one of them at least unless the daemon was killed; this is
  `Accounted` without the counting. It needs `Locking`: a driver between its peek at the queue and the append holds the driver's lock, so that no other takes the same message, and nothing of a Chat waits for a turn meanwhile; and
  `Queued`: the queue names nothing twice, and only what is in it is being judged. `Looks`: each follow-up being judged is in `asked` or `asking`, or with a task that will settle it. `Works`: unless a CLI exited or did not start or the daemon was
  killed, what waits for a turn has a kick, a task that will kick, a driver that will look, or the busy mark; and where that is set a driver is on its way to the CLI, or the CLI runs or has an event to read, which is why a driver that finds it set may leave (`Alive`).
  `Pick`, the model's split of a list into what is taken and what stays, is proved to keep what it should and the absence of repetitions by cardinalities, as induction over sequences is out of reach.
* **CleanupLedgerProofs**: `NothingIsForgotten` from `OneTaskPerJob` and `JobsRecorded`;
  `MemoryMatchesLog` from `RecordedOnce` (an artifact with an identity of its own is recorded by one task once, and
  no removal of it is under way before it is noted); `FilesAreKept` from `OnlyAsked`.

* **ChangeLandingProofs**: `TypesAreKept`, and `OnlyVerifiedLands` for any orchestrator (with or without `Patient`) and any bounds. `NothingUnverified` alone is not inductive: a commit that git is asked to land has to be
  vouched for (passed by a verifier, or overruled, up to a clean replay), so `Inductive` adds that of jobs (`JobsVouched`), of a round that passed (`RoundVouched`), that the round being opened is the next and the only
  one (`Opening`, `RoundsInOrder`), and that no commit was built on a tip the target does not have (`OntoTip`), without which a replay could not be seen to be clean.
  The run's other five invariants, `NothingUnchecked` (`OnlyCheckedLands`), `UserDecides` (`OnlyAllowedLands`), `LandsOnce` (`VersionsLandOnce`), `NoOrphans` (`CheckersEndWithTask`) and `NothingStranded` (`ChangeMovesOn`), are proved for any
  bounds under the hypothesis `Patient`, which the run has too: TLC finds four of them violated without it. No code enforces it; `accept_task` answers that "the outcome arrives as a message" (`landing.rs:169`), which Brigadier sends. Their invariant,
  `Orderly`, rests on `Alone`: at most one job is in flight, it belongs to a task that is under review, and no round is open beside it. Then each version of the worktree's content is in one place on its way to the target (`Versions`); what each job carries fits
  the task it will change, and what is in its hands was judged, allowed or overruled as what it is a clean replay of (`Judged`); each result an open round waits for has one checker, and no checker is without a round (`Staffing`);
  and whoever ends a job hands the task to somebody (`Moving`).

* **FeedSubscriptionProofs**: `TypeInvariant`, and `NoGap` for any buffer, page and replay limit. What makes it inductive is the wire: the events on their way on a connection continue what its
  bridge forwarded up to the last one sent, each once and in order (`Continues`), a live feed starts no later than where its replay ended (`NotAhead`), nothing on its way is ahead of the daemon
  (`FramesKnown`), and a connection that is down carries nothing (`DownEmpty`).

* **OvernightRunProofs**: `CheckedAsVerified`, `WorkCovered` and `OneReport` for any plan and any number of rounds, commits and restarts. The evidence of a round is on its commit only if a member's commit is the open round's
  (`InRound`: it came with this round or an earlier one; after a settled phase, whose rounds are counted anew, none opens), so a pass is one of the round's commit (`Evident`). The merge point needs that one phase at a time is at work or
  has an open round (`OneLive`, which needs that a phase the ending settled with its round open does not let the run go on, `EndedOpen`), that whoever has work on the branch started (`WorkStarted`), and that a phase chosen and
  not led yet is not led any more once the merge point covers its work (`Covered`). `OneReport` needs that nothing is under way in a run that did not begin (`Untouched`).
  `TypeOK`, with its limits on rounds and fixes (`LimitsKept`), needs `InLimits`: a phase has at most one job that is to open a round (`OneOpen`), and only while no round of it is open and it may still open one (`Fine`); a phase at work has no round open
  and one more to open (`Sober`). A restart forgets every job and begins an open round again: this is the one round beyond `MAX_ROUNDS`, and the restart itself counts for it, so the limit is `MAX_ROUNDS` plus the mishaps that happened.

* **WorkerSessionProofs**: `WorkerTypes` for any orchestrator; `AttemptsBounded` (`TypeOK`, with its bounds on errors handed on and on stalls), `NeverTwoSessions` (`OneSession`), `FreshSessionKept` (`FreshKept`) and `QuotaWaitsAlone` (`WaitsAlone`) for any number of
  errors, limits, exits, messages, pauses, resumes and stops, under the hypothesis `Patient`, which the run has too: TLC finds `OneSession` violated without it. None is inductive alone. At any time (`Always`) at most one job closes a session to start
  the next (`Starter`): those that do so to route the task hold the reroute lock (`OneLock`, `Locked`), and beside a first start or a message's, which hold none, only pauses and the task's end run (`Alone`). Sessions are numbered: the live one is that of the newest
  generation, a launch carries the next number, and a job that will close a session was decided for this generation (`Generations`, `Decisions`, `Numbers`). Until the task's end is under way (`Ongoing`) a session is the live one or the one such a job
  closes or installs (`Followed`), an attempt is open unless the task waits or is being routed (`Opened`, `Waiting`), and a hand-over is decided once for a session, when nothing is said to it and no first message is on its way (`HandedOnce`, `Held`, `FirstMessage`);
  so no second one is ever found waiting for the lock with a decision about the session that follows.

Every invariant that a run checks is proved for all values of the constants, those of ChangeLanding (but `NothingUnverified`) and of WorkerSession under `Patient`. Only model-checked, and out of the prover's
reach: the liveness properties (`EveryCallAnswered`, `Delivered`, `Settles`, `RunEnds`) and ENABLED. The inductive invariants, `HeadsAgree` and the proved type invariants that no run lists were model-checked
on these instances before they were proved; `AllOrNothing` (EventStore) is proved, and has no run beside `AnswersAreTrue` and `LogSpec`. No module uses a RECURSIVE operator.

## 5. Not modelled, and why

Not yet: raw sessions (`runtime.rs`: a resume checks that a session is stopped and sets it starting only after an append; the sweep after a crash), rebirth, an overnight run's proposal, Phase 0, Continue, merge and slots, plan reviews, the landing of a
session as a whole, undo, branches and pull requests, and the recovery of tasks other than a change's. Of the board, cards and plans. Hazards of these parts are not in PROJECT.json's list beyond the lines the models reach.
Left out for good: the UI beyond the feed's handling (views), the platform layer and sandbox (OS calls), provider parsing and the generated protocol types (formats owned by
vendors), the brain's vectors and the index (I/O and ranking), IPC framing (bytes), router scores (floating point).

## 6. Plan

1. *Done:* EventLog/EventStore, BlobGc, CatalogProjection, SettingsWrites, CleanupLedger, FeedSubscription, the core of ConversationDriver, ChangeLanding, WorkerSession, OvernightRun.
2. WorkerSession: hibernation, questions and permission cards, the daemon's restart; composed with ChangeLanding (a report, a fix's send-back and a stop are steps of both).
3. **ConversationDriver**: cards and `Waiting`, hibernation and `close_cli`, quota waits, rebirth.
4. **RawSessions**: start, resume, fork, close, and the sweep after a crash, composed with CleanupLedger's owner.
5. **OvernightAdmission**: slots; OvernightRun with Phase 0, Continue and the merge, and its round composed with WorkerSession's tasks.
6. Router: eligibility, overrides and merge as operators over sets, compared with a reference definition.
7. Proofs: those of the modules above as each is written, and what still holds of ChangeLanding and WorkerSession without `Patient`.

Each new module keeps the shape of these: constants with assumptions, an inductive invariant in named parts, functions rather than RECURSIVE
operators, one run per question with the smallest instance in which its hazard happens.

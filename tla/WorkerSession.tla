---------------------------- MODULE WorkerSession ----------------------------
(***************************************************************************)
(* One write task's worker: the CLI sessions that work on it, one after    *)
(* the other.  A session's event pump, hand-offs to another model and      *)
(* hand-overs to a fresh session, the stall watchdog, the quota timer, the *)
(* orchestrator's messages and the user's pause, resume and stop all start *)
(* and close them, each as an async job of its own.                        *)
(*                                                                         *)
(* Source: src/crates/core/src/manager/{workers,fallback,worker_handoff,   *)
(* watchdog}.rs.                                                           *)
(***************************************************************************)
EXTENDS Integers, FiniteSets

CONSTANTS
    ErrorHandoffs, \* ERROR_HANDOFFS
    Patient,       \* nobody messages or resumes a worker while a session starts or closes
    MaxEvents      \* bound: limits, exits, messages, pauses and so on, all together

ASSUME WorkerAssumption ==
    /\ ErrorHandoffs \in Nat \ {0}
    /\ MaxEvents \in Nat
    /\ Patient \in BOOLEAN

VARIABLES
    task,    \* the task's record on the board
    live,    \* its TaskLive's state
    known,   \* the TaskLive is in the manager's map: no dispose_task has removed it
    clis,    \* the CLI sessions, each with its process and its event pump
    started, \* how many CLI sessions were started
    jobs,    \* the async jobs under way for the task
    events   \* how often something came from outside: a limit, an exit, a message, ...

vars == <<task, live, known, clis, started, jobs, events>>

Final == {"Stopped", "Failed"}
Sessions == Nat \ {0}

(* A session: whether its process runs, the turn it works on, the end of a *)
(* turn its pump has not read, and what the pump carries between two steps.*)
Cli(id) == [id |-> id, alive |-> TRUE, turn |-> "none", ended |-> "none",
            decides |-> FALSE, nudge |-> FALSE, asked |-> FALSE, from |-> 0]

(* A job: the session it was decided for, the one it closes or starts, and *)
(* whether it holds the reroute lock.                                      *)
Job(at, from) == [at |-> at, from |-> from, cli |-> 0, end |-> "none", pending |-> FALSE,
                  lock |-> FALSE, caller |-> "task", watch |-> FALSE,
                  new |-> TRUE]

Replace(j, new) == jobs' = (jobs \ {j}) \union new
Become(j, at) == Replace(j, {[j EXCEPT !.at = at]})

(* The same job, at work on something that is not about a session. *)
Onwards(j, at) == Replace(j, {[j EXCEPT !.at = at, !.from = 0, !.cli = 0, !.end = "none", !.pending = FALSE]})
RerouteFree == \A j \in jobs : ~j.lock

Running == live.cli # 0 /\ \E c \in clis : c.id = live.cli /\ c.alive
CliOf(id) == {c \in clis : c.id = id}
With(c, new) == clis' = (clis \ {c}) \union {new}

(* The steps at which a job closes its session, and those of them under    *)
(* the reroute lock.                                                       *)
Rerouting == {"handOffClose", "overClose", "stalledClose", "replaceClose", "restartClose"}
Closing == Rerouting \union {"messageClose", "failClose", "failEnd", "stopClose", "stopEnd"}

(* stop_task holds the settle lock until what the task created is gone. *)
Stopping == {"stopClose", "stopEnd", "stopSweep"}

Init ==
    /\ task = [state |-> "Starting", open |-> TRUE, errors |-> 0, wait |-> FALSE, report |-> FALSE]
    /\ live = [cli |-> 0, busy |-> FALSE, stopping |-> FALSE, nudged |-> FALSE, cutoff |-> "none",
               asked |-> FALSE, held |-> FALSE, generation |-> 0, stalls |-> 0, stallNudged |-> FALSE, full |-> FALSE]
    /\ known = TRUE /\ clis = {} /\ started = 0
    /\ jobs = {Job("launch", 0)}
    /\ events = 0

(* Something comes from outside. *)
Event == events < MaxEvents /\ events' = events + 1

-----------------------------------------------------------------------------
(* A worker's CLI.  It may also stay silent for good. *)

(* It speaks: the watchdog's nudge counts no more. *)
Speaks(c) ==
    /\ c.alive /\ c.turn = "running" /\ live.cli = c.id /\ live.stallNudged
    /\ live' = [live EXCEPT !.stallNudged = FALSE]
    /\ Event
    /\ UNCHANGED <<task, known, clis, started, jobs>>

(* An error it gives up on: another model takes over when the turn ends. *)
CutOff(c, end) ==
    /\ c.alive /\ c.turn = "running" /\ c.ended = "none"
    /\ live' = [live EXCEPT !.cutoff = end]
    /\ Event
    /\ UNCHANGED <<task, known, clis, started, jobs>>

(* worker_context: its context is past the hand-off size, and it is asked  *)
(* once a turn to wrap up.                                                 *)
ContextFull(c) ==
    /\ c.alive /\ c.turn = "running" /\ c.ended = "none"
    /\ live' = [live EXCEPT !.full = TRUE,
                            !.asked = @ \/ (live.busy /\ ~live.stopping /\ live.cutoff = "none")]
    /\ Event
    /\ UNCHANGED <<task, known, clis, started, jobs>>

(* submit_report, taken only from a task at work, and not while a stop     *)
(* holds the settle lock.                                                  *)
Report(c) ==
    /\ c.alive /\ c.turn = "running" /\ known
    /\ task.state \in {"Starting", "Running"}
    /\ \A j \in jobs : j.at \notin Stopping
    /\ task' = [task EXCEPT !.state = "Reported", !.report = TRUE]
    /\ live' = [live EXCEPT !.nudged = TRUE]
    /\ UNCHANGED <<known, clis, started, jobs, events>>

TurnEnds(c) ==
    /\ c.alive /\ c.turn \in {"running", "interrupted"} /\ c.ended = "none"
    /\ With(c, [c EXCEPT !.turn = "none",
                         !.ended = IF c.turn = "running" THEN "completed" ELSE "interrupted"])
    /\ UNCHANGED <<task, live, known, started, jobs, events>>

Exits(c) ==
    /\ c.alive /\ ~\E j \in jobs : j.at \in Closing /\ j.cli = c.id
    /\ With(c, [c EXCEPT !.alive = FALSE, !.turn = "none"])
    /\ Event
    /\ UNCHANGED <<task, live, known, started, jobs>>

(* What a CLI does with a message: it works on it in the turn that runs, or *)
(* in a new one.                                                           *)
Send(c) == With(c, [c EXCEPT !.turn = IF @ = "none" THEN "running" ELSE @])

(* detach_cli: the session is taken off the task; its end is no reason for *)
(* another.  end_cli then ends it and waits for its pump.                  *)
Detached == [live EXCEPT !.stopping = TRUE, !.cli = 0]
Detach(j, at) ==
    /\ live' = Detached
    /\ Replace(j, {[j EXCEPT !.at = at, !.cli = live.cli, !.lock = @ \/ at \in Rerouting]})

AtEnd(j, at) == j.at = at /\ CliOf(j.cli) = {}

EndCli(j) ==
    /\ j.at \in Closing
    /\ \E c \in CliOf(j.cli) : c.alive /\ With(c, [c EXCEPT !.alive = FALSE, !.turn = "none"])
    /\ UNCHANGED <<task, live, known, started, jobs, events>>

-----------------------------------------------------------------------------
(* The session's event pump. *)

(* worker_turn_completed, under the state's lock. *)
TurnCompleted(c) ==
    /\ c.ended # "none" /\ ~c.decides
    /\ live' = [live EXCEPT !.busy = FALSE, !.asked = FALSE, !.nudged = @ \/ ~live.stopping]
    /\ With(c, IF live.stopping THEN [c EXCEPT !.ended = "none"]
               ELSE [c EXCEPT !.decides = TRUE, !.nudge = ~live.nudged, !.asked = live.asked,
                              !.from = live.generation])
    /\ UNCHANGED <<task, known, started, jobs, events>>

Decided(c) == [c EXCEPT !.decides = FALSE, !.ended = "none", !.nudge = FALSE, !.asked = FALSE, !.from = 0]

(* Then it reads the task and decides what follows the turn. *)
TurnDecided(c) ==
    /\ c.decides
    /\ IF task.state \in Final \union {"Paused"}
         THEN With(c, Decided(c)) /\ UNCHANGED <<live, jobs>>
       ELSE IF task.state = "Reported"
         THEN /\ live' = [live EXCEPT !.cutoff = "none"]
              /\ With(c, Decided(c)) /\ UNCHANGED jobs
       ELSE IF live.cutoff # "none"
         THEN /\ live' = [live EXCEPT !.cutoff = "none", !.stopping = TRUE]
              /\ jobs' = jobs \union {[Job("handOff", c.from) EXCEPT !.end = live.cutoff]}
              /\ With(c, Decided(c))
       ELSE IF c.ended = "interrupted"
         THEN With(c, Decided(c)) /\ UNCHANGED <<live, jobs>>
       ELSE IF c.asked
         THEN /\ jobs' = jobs \union {Job("handOver", c.from)}
              /\ With(c, Decided(c)) /\ UNCHANGED live
       ELSE IF c.nudge /\ c.alive
         THEN /\ live' = [live EXCEPT !.busy = TRUE, !.stallNudged = FALSE]
              /\ With(c, [Decided(c) EXCEPT !.turn = "running"]) /\ UNCHANGED jobs
         ELSE /\ jobs' = jobs \union {Job("fail", 0)}
              /\ With(c, Decided(c)) /\ UNCHANGED live
    /\ UNCHANGED <<task, known, started, events>>

(* The end of pump_worker, which a launch starts once the session is the   *)
(* task's: after everything the CLI sent.                                  *)
PumpEnds(c) ==
    /\ ~c.alive /\ c.ended = "none"
    /\ \A j \in jobs : ~(j.at = "install" /\ j.cli = c.id)
    /\ clis' = clis \ {c}
    /\ live' = [live EXCEPT !.busy = FALSE, !.cli = IF @ = c.id THEN 0 ELSE @]
    /\ jobs' = IF live.stopping THEN jobs ELSE jobs \union {Job("exited", live.generation)}
    /\ UNCHANGED <<task, known, started, events>>

-----------------------------------------------------------------------------
(* Handing the task on to another model. *)

(* A CLI that exits before its task's first report is a reason to. *)
Exited(j) ==
    /\ j.at = "exited"
    /\ IF task.state \in Final \/ task.report
         THEN Replace(j, {}) /\ UNCHANGED live
         ELSE /\ live' = [live EXCEPT !.cutoff = "none"]
              /\ Replace(j, {[j EXCEPT !.at = "handOff",
                                  !.end = IF live.cutoff = "none" THEN "error" ELSE live.cutoff]})
    /\ UNCHANGED <<task, known, clis, started, events>>

(* Mutant: one error too many is handed on. *)
HandOffOnceMore(j) ==
    /\ (j.at = "handOff" /\ RerouteFree) \/ AtEnd(j, "replaceClose")
    /\ IF task.state \in Final \/ ~task.open \/ (j.at = "handOff" /\ live.generation # j.from)
         THEN Replace(j, {}) /\ UNCHANGED live
       ELSE IF j.end = "error" /\ task.errors >= ErrorHandoffs
         THEN Replace(j, {[Job("fail", 0) EXCEPT !.lock = TRUE, !.watch = j.watch]}) /\ UNCHANGED live
         ELSE Detach(j, "handOffClose")
    /\ UNCHANGED <<task, known, clis, started, events>>

(* Mutant: a cut-off model's session is left open as its attempt ends. *)
HandOffUnclosed(j) ==
    /\ (j.at = "handOff" /\ RerouteFree) \/ AtEnd(j, "replaceClose")
    /\ IF task.state \in Final \/ ~task.open \/ (j.at = "handOff" /\ live.generation # j.from)
         THEN Replace(j, {})
       ELSE IF j.end = "error" /\ task.errors + 1 >= ErrorHandoffs
         THEN Replace(j, {[Job("fail", 0) EXCEPT !.lock = TRUE, !.watch = j.watch]})
         ELSE Replace(j, {[j EXCEPT !.at = "handOffClose", !.cli = 0, !.lock = TRUE]})
    /\ UNCHANGED <<task, live, known, clis, started, events>>

(* hand_off, under the reroute lock: a session of its own it was not       *)
(* decided for is left alone.  hand_off_held: nothing if the task or its   *)
(* attempt ended; the last error fails the task.                           *)
HandOff(j) ==
    /\ (j.at = "handOff" /\ RerouteFree) \/ AtEnd(j, "replaceClose")
    /\ IF task.state \in Final \/ ~task.open \/ (j.at = "handOff" /\ live.generation # j.from)
         THEN Replace(j, {}) /\ UNCHANGED live
       ELSE IF j.end = "error" /\ task.errors + 1 >= ErrorHandoffs
         THEN Replace(j, {[Job("fail", 0) EXCEPT !.lock = TRUE, !.watch = j.watch]}) /\ UNCHANGED live
         ELSE Detach(j, "handOffClose")
    /\ UNCHANGED <<task, known, clis, started, events>>

(* Updates of the task are taken in the order they were asked for          *)
(* (task_writes): the mark of the session this ends was queued before.     *)
EndAttempt(j) ==
    /\ AtEnd(j, "handOffClose")
    /\ \A k \in jobs : k.at # "mark"
    /\ task' = [task EXCEPT !.open = FALSE,
                            !.errors = IF task.open /\ j.end = "error" THEN @ + 1 ELSE @]
    /\ live' = [live EXCEPT !.stalls = 0]
    /\ Onwards(j, "continue")
    /\ UNCHANGED <<known, clis, started, events>>

(* Mutant: a task is routed again whether or not a model works on it. *)
ContinueAnyway(j) ==
    /\ j.at = "continue" /\ (j.lock \/ RerouteFree)
    /\ Replace(j, IF task.state \in Final THEN {}
                  ELSE {[j EXCEPT !.at = "routed", !.lock = TRUE]})
    /\ UNCHANGED <<task, live, known, clis, started, events>>

(* continue_task, for one that already holds the lock continue_held: only  *)
(* a task no model works on is routed.                                     *)
Continue(j) ==
    /\ j.at = "continue" /\ (j.lock \/ RerouteFree)
    /\ Replace(j, IF task.state \in Final \/ task.open THEN {}
                  ELSE {[j EXCEPT !.at = "routed", !.lock = TRUE]})
    /\ UNCHANGED <<task, live, known, clis, started, events>>

(* A model may take it, or it waits for quota: whatever the task is by now.*)
Routed(j) ==
    /\ j.at = "routed"
    /\ \/ /\ task' = [task EXCEPT !.open = TRUE, !.state = "Running", !.wait = FALSE]
          /\ live' = [live EXCEPT !.stopping = FALSE, !.busy = FALSE]
          /\ Become(j, "launch")
          /\ UNCHANGED events
       \/ /\ Event
          /\ task' = [task EXCEPT !.state = "Paused", !.wait = TRUE]
          /\ Replace(j, {})
          /\ UNCHANGED live
    /\ UNCHANGED <<known, clis, started>>

(* The reset's timer, a provider's check or a changed rule routes a task   *)
(* that waits again.                                                       *)
RetryWaiting ==
    /\ known /\ task.state = "Paused" /\ task.wait
    /\ jobs' = jobs \union {Job("continue", 0)}
    /\ Event
    /\ UNCHANGED <<task, live, known, clis, started>>

-----------------------------------------------------------------------------
(* launch_worker. *)

(* An error ends the task, or is the answer to the call that started it. *)
Failing(j) == IF j.caller = "task" THEN {[Job("fail", 0) EXCEPT !.lock = j.lock, !.watch = j.watch]} ELSE {}

(* The CLI starts in the task's worktree, unless that went with the task. *)
Launch(j) ==
    /\ j.at = "launch"
    /\ Patient => \A k \in jobs : k.at # "messageClose"
    /\ \/ /\ known
          /\ started' = started + 1
          /\ clis' = clis \union {Cli(started + 1)}
          /\ Replace(j, {[j EXCEPT !.at = "install", !.cli = started + 1]})
          /\ UNCHANGED events
       \/ /\ IF known THEN Event ELSE UNCHANGED events
          /\ Replace(j, Failing(j))
          /\ UNCHANGED <<clis, started>>
    /\ UNCHANGED <<task, live, known>>

Install(j) ==
    /\ j.at = "install"
    /\ live' = [live EXCEPT !.cli = j.cli, !.busy = TRUE, !.nudged = FALSE, !.stopping = FALSE,
                            !.asked = FALSE, !.held = FALSE, !.generation = @ + 1,
                            !.stallNudged = FALSE, !.full = @ /\ ~j.new]
    /\ Become(j, "mark")
    /\ UNCHANGED <<task, known, clis, started, events>>

Mark(j) ==
    /\ j.at = "mark"
    /\ task' = [task EXCEPT !.state = "Running"]
    /\ Become(j, "send")
    /\ UNCHANGED <<live, known, clis, started, events>>

SendFirst(j) ==
    /\ j.at = "send"
    /\ \/ \E c \in CliOf(j.cli) : c.alive /\ Send(c) /\ Replace(j, {})
       \/ /\ \A c \in CliOf(j.cli) : ~c.alive
          /\ Replace(j, Failing(j))
          /\ UNCHANGED clis
    /\ UNCHANGED <<task, live, known, started, events>>

-----------------------------------------------------------------------------
(* Handing the task over to a fresh session of the same model. *)

(* Mutant: whatever session it was decided for. *)
HandOverAnySession(j) ==
    /\ (j.at = "handOver" /\ RerouteFree) \/ AtEnd(j, "stalledClose")
    /\ IF live.held
         THEN /\ live' = [live EXCEPT !.held = FALSE]
              /\ Replace(j, {[Job("fresh", 0) EXCEPT !.lock = TRUE, !.caller = j.caller, !.watch = j.watch]})
       ELSE IF task.state \in Final
         THEN Replace(j, {}) /\ UNCHANGED live
         ELSE Detach(j, "overClose")
    /\ UNCHANGED <<task, known, clis, started, events>>

(* hand_over, under the reroute lock.  A message goes to the fresh session *)
(* another hand-over started; a session held for a paused task starts;     *)
(* that of a task that ended is closed with it, not handed over.           *)
HandOver(j) ==
    /\ (j.at = "handOver" /\ RerouteFree) \/ AtEnd(j, "stalledClose")
    /\ IF live.generation # j.from
         THEN /\ Replace(j, {})
              /\ IF j.pending /\ live.cli # 0
                   THEN /\ \E c \in CliOf(live.cli) : IF c.alive THEN Send(c) ELSE UNCHANGED clis
                        /\ live' = IF live.busy THEN live
                                   ELSE [live EXCEPT !.busy = TRUE, !.nudged = FALSE,
                                                     !.stallNudged = FALSE]
                   ELSE UNCHANGED <<live, clis>>
       ELSE IF live.held
         THEN /\ live' = [live EXCEPT !.held = FALSE]
              /\ Replace(j, {[Job("fresh", 0) EXCEPT !.lock = TRUE, !.caller = j.caller, !.watch = j.watch]})
              /\ UNCHANGED clis
       ELSE IF task.state \in Final
         THEN Replace(j, {}) /\ UNCHANGED <<live, clis>>
         ELSE Detach(j, "overClose") /\ UNCHANGED clis
    /\ UNCHANGED <<task, known, started, events>>

(* Once its files are written: paused meanwhile, with no message to act    *)
(* on, the fresh session starts on resume.                                 *)
HandedOver(j) ==
    /\ AtEnd(j, "overClose")
    /\ IF task.state \in Final
         THEN Replace(j, {}) /\ UNCHANGED live
       ELSE IF task.state = "Paused" /\ ~j.pending
         THEN live' = [live EXCEPT !.held = TRUE] /\ Replace(j, {})
         ELSE Onwards(j, "fresh") /\ UNCHANGED live
    /\ UNCHANGED <<task, known, clis, started, events>>

(* start_fresh *)
Fresh(j) ==
    /\ j.at = "fresh"
    /\ IF task.state \in Final
         THEN Replace(j, {}) /\ UNCHANGED live
         ELSE /\ live' = [live EXCEPT !.stopping = FALSE, !.busy = FALSE]
              /\ Become(j, "launch")
    /\ UNCHANGED <<task, known, clis, started, events>>

-----------------------------------------------------------------------------
(* The stall watchdog. *)

(* Mutant: a session that falls silent again is nudged and started afresh  *)
(* no more.                                                                *)
VerdictOnce(lockFree) ==
    IF task.state \notin {"Starting", "Running"} \/ task.wait \/ live.stopping THEN "none"
    ELSE IF ~Running THEN (IF task.state = "Running" /\ lockFree THEN "exited" ELSE "none")
    ELSE IF ~live.busy THEN "none"
    ELSE IF ~live.stallNudged THEN "nudge"
    ELSE IF live.stalls = 0 THEN "handOver"
    ELSE "none"

(* stall_verdict; lockFree: nothing else routes the task or hands it over. *)
Verdict(lockFree) ==
    IF task.state \notin {"Starting", "Running"} \/ task.wait \/ live.stopping THEN "none"
    ELSE IF ~Running THEN (IF task.state = "Running" /\ lockFree THEN "exited" ELSE "none")
    ELSE IF ~live.busy THEN "none"
    ELSE IF ~live.stallNudged THEN "nudge"
    ELSE IF live.stalls = 0 THEN "handOver"
    ELSE "replace"

(* A round of it: one action per worker at a time, decided under the locks *)
(* once more.  A silence is minutes long: the turn it is about has begun,  *)
(* and its end is not waiting to be read.                                  *)
Silent == /\ known /\ \A j \in jobs : ~j.watch
          /\ \A c \in CliOf(live.cli) : c.turn # "none" /\ c.ended = "none"

Nudge ==
    /\ Silent /\ Verdict(RerouteFree) = "nudge"
    /\ live' = [live EXCEPT !.stallNudged = TRUE]
    /\ UNCHANGED <<task, known, clis, started, jobs, events>>

(* take_stalled, under the reroute and the settle lock. *)
TakeStalled ==
    LET job == [Job("stall", live.generation) EXCEPT !.cli = live.cli, !.lock = TRUE, !.watch = TRUE]
    IN /\ Silent /\ RerouteFree /\ \A k \in jobs : k.at \notin Stopping
       /\ \/ /\ Verdict(TRUE) = "handOver"
             /\ live' = [Detached EXCEPT !.stalls = @ + 1]
             /\ jobs' = jobs \union {[job EXCEPT !.at = "stalledClose"]}
          \/ /\ Verdict(TRUE) \in {"exited", "replace"}
             /\ live' = [Detached EXCEPT !.cutoff = "none"]
             /\ jobs' = jobs \union {[job EXCEPT !.at = "replaceClose",
                             !.end = IF live.cutoff = "none" THEN "error" ELSE live.cutoff]}
       /\ UNCHANGED <<task, known, clis, started, events>>

-----------------------------------------------------------------------------
(* The orchestrator and the user. *)

Quiet == Patient => jobs = {} /\ \A c \in clis : c.ended = "none" /\ c.turn # "interrupted"

(* What message_worker does with a session: it steers the turn that runs,  *)
(* or begins one; a worker that is not at work goes back to work.          *)
AtWork == task.state \in {"Starting", "Running"}

Tell(c) ==
    /\ c.id = live.cli
    /\ task' = IF c.alive /\ ~(live.busy /\ AtWork) THEN [task EXCEPT !.state = "Running"] ELSE task
    /\ IF c.alive THEN Send(c) ELSE UNCHANGED clis
    /\ live' = [live EXCEPT !.busy = TRUE, !.stallNudged = @ /\ live.busy,
                            !.nudged = IF c.alive /\ ~(live.busy /\ AtWork) THEN FALSE ELSE @]

(* revive_worker: the session is resumed in a new one, or a full one is    *)
(* handed over with the message.                                           *)
Revived == IF live.full
             THEN [Job("handOver", live.generation) EXCEPT !.pending = TRUE, !.caller = "call"]
             ELSE [Job("launch", 0) EXCEPT !.new = FALSE, !.caller = "call"]

(* message_worker: without a session one is revived, and one between turns *)
(* whose context is full is ended first.                                   *)
Message ==
    /\ known /\ Quiet
    /\ task.state \notin Final /\ ~task.wait
    /\ Patient => (AtWork => live.cli # 0)
    /\ Event
    /\ \/ /\ live.cli = 0
          /\ jobs' = jobs \union {Revived}
          /\ UNCHANGED <<task, live, clis>>
       \/ /\ live.cli # 0 /\ ~live.busy /\ live.full
          /\ live' = Detached
          /\ jobs' = jobs \union {[Job("messageClose", 0) EXCEPT !.cli = live.cli, !.caller = "call"]}
          /\ UNCHANGED <<task, clis>>
       \/ /\ live.busy \/ ~live.full
          /\ \E c \in clis : Tell(c)
          /\ UNCHANGED jobs
    /\ UNCHANGED <<known, started>>

MessageClosed(j) ==
    /\ AtEnd(j, "messageClose")
    /\ IF live.cli = 0
         THEN Replace(j, {Revived}) /\ UNCHANGED <<task, live, clis>>
         ELSE Replace(j, {}) /\ \E c \in clis : Tell(c)
    /\ UNCHANGED <<known, started, events>>

(* pause_task: the turn is interrupted, then the pause recorded. *)
Pause ==
    /\ known
    /\ task.state \in {"Starting", "Running"}
    /\ Event
    /\ jobs' = jobs \union {Job("pause", 0)}
    /\ IF \E c \in CliOf(live.cli) : c.turn = "running"
         THEN \E c \in CliOf(live.cli) : With(c, [c EXCEPT !.turn = "interrupted"])
         ELSE UNCHANGED clis
    /\ UNCHANGED <<task, live, known, started>>

PauseRecorded(j) ==
    /\ j.at = "pause"
    /\ task' = [task EXCEPT !.state = "Paused"]
    /\ Replace(j, {})
    /\ UNCHANGED <<live, known, clis, started, events>>

(* resume_task *)
Resume ==
    /\ known /\ task.state = "Paused" /\ Quiet
    /\ IF task.wait
         THEN /\ jobs' = jobs \union {Job("continue", 0)}
              /\ UNCHANGED <<task, live, clis>>
       ELSE IF live.cutoff # "none"
         THEN /\ task' = [task EXCEPT !.state = "Running"]
              /\ live' = [live EXCEPT !.cutoff = "none"]
              /\ jobs' = jobs \union {[Job("handOff", live.generation) EXCEPT !.end = live.cutoff]}
              /\ UNCHANGED clis
       ELSE IF live.held
         THEN /\ RerouteFree
              /\ live' = [live EXCEPT !.held = FALSE]
              /\ jobs' = jobs \union {[Job("fresh", 0) EXCEPT !.lock = TRUE, !.caller = "call"]}
              /\ UNCHANGED <<task, clis>>
         ELSE \/ /\ RerouteFree /\ live.cli # 0   \* the models it may use changed
                 /\ live' = Detached
                 /\ jobs' = jobs \union {[Job("restartClose", 0) EXCEPT
                                !.cli = live.cli, !.lock = TRUE, !.caller = "call"]}
                 /\ UNCHANGED <<task, clis>>
              \/ /\ live' = [live EXCEPT !.busy = TRUE, !.nudged = FALSE, !.stallNudged = FALSE]
                 /\ task' = IF live.cli = 0 THEN task ELSE [task EXCEPT !.state = "Running"]
                 /\ IF \E c \in CliOf(live.cli) : c.alive
                      THEN \E c \in CliOf(live.cli) : Send(c) ELSE UNCHANGED clis
                 /\ UNCHANGED jobs
    /\ UNCHANGED <<known, started, events>>

Restarted(j) ==
    /\ AtEnd(j, "restartClose")
    /\ Replace(j, {[j EXCEPT !.at = "launch", !.cli = 0, !.new = FALSE]})
    /\ UNCHANGED <<task, live, known, clis, started, events>>

(* stop_task *)
Stop ==
    /\ known /\ task.state \notin Final
    /\ \A j \in jobs : j.at \notin Stopping
    /\ Event
    /\ live' = Detached
    /\ jobs' = jobs \union {[Job("stopClose", 0) EXCEPT !.cli = live.cli]}
    /\ UNCHANGED <<task, known, clis, started>>

(* worker_failed. *)
Fail(j) ==
    /\ j.at = "fail"
    /\ Detach(j, "failClose")
    /\ UNCHANGED <<task, known, clis, started, events>>

(* dispose_task: a session that was started meanwhile is closed too, the   *)
(* end is recorded, then what the task created goes: its processes, its    *)
(* worktree and its TaskLive.                                              *)
Dispose(j) ==
    /\ \/ AtEnd(j, "stopClose") /\ Detach(j, "stopEnd")
       \/ AtEnd(j, "failClose") /\ Detach(j, "failEnd")
    /\ UNCHANGED <<task, known, clis, started, events>>

EndRecorded(j) ==
    /\ AtEnd(j, "stopEnd") \/ AtEnd(j, "failEnd")
    /\ task' = [task EXCEPT !.state = IF j.at = "stopEnd" THEN "Stopped" ELSE "Failed",
                            !.open = FALSE, !.wait = FALSE]
    /\ Onwards(j, IF j.at = "stopEnd" THEN "stopSweep" ELSE "failSweep")
    /\ UNCHANGED <<live, known, clis, started, events>>

Sweep(j) ==
    /\ j.at \in {"stopSweep", "failSweep"}
    /\ known' = FALSE
    /\ clis' = {[c EXCEPT !.alive = FALSE, !.turn = "none"] : c \in clis}
    /\ Replace(j, {})
    /\ UNCHANGED <<task, live, started, events>>

-----------------------------------------------------------------------------
JobStep(j) ==
    \/ Exited(j) \/ HandOff(j) \/ EndAttempt(j) \/ Continue(j) \/ Routed(j)
    \/ Launch(j) \/ Install(j) \/ Mark(j) \/ SendFirst(j)
    \/ HandOver(j) \/ HandedOver(j) \/ Fresh(j)
    \/ MessageClosed(j) \/ PauseRecorded(j) \/ Restarted(j) \/ Fail(j) \/ Dispose(j) \/ EndRecorded(j) \/ Sweep(j)
    \/ EndCli(j)

(* What Brigadier does by itself. *)
Daemon ==
    \/ \E j \in jobs : JobStep(j)
    \/ \E c \in clis : TurnCompleted(c) \/ TurnDecided(c) \/ PumpEnds(c)
    \/ Nudge \/ TakeStalled

Next ==
    \/ Daemon
    \/ \E c \in clis : \/ Speaks(c) \/ ContextFull(c) \/ Report(c) \/ TurnEnds(c) \/ Exits(c)
                       \/ \E end \in {"limit", "error"} : CutOff(c, end)
    \/ RetryWaiting \/ Message \/ Pause \/ Resume \/ Stop

(* A CLI may stay silent for good and nobody has to call; the daemon's own *)
(* tasks run on, and its watchdog ticks.                                   *)
Spec == Init /\ [][Next]_vars /\ WF_vars(Daemon)

-----------------------------------------------------------------------------
(* Types, and two bounds of an attempt: it fails the task before its       *)
(* ERROR_HANDOFFS-th error is handed on, and a stalled worker gets one     *)
(* fresh session before another model takes over.                          *)
TypeOK ==
    /\ task \in [state : Final \union {"Starting", "Running", "Reported", "Paused"},
                 open : BOOLEAN, errors : 0 .. ErrorHandoffs - 1, wait : BOOLEAN, report : BOOLEAN]
    /\ live \in [cli : 0 .. started, busy : BOOLEAN, stopping : BOOLEAN, nudged : BOOLEAN,
                 cutoff : {"none", "limit", "error"}, asked : BOOLEAN, held : BOOLEAN,
                 generation : 0 .. started, stalls : 0 .. 1, stallNudged : BOOLEAN, full : BOOLEAN]
    /\ clis \subseteq [id : 1 .. started, alive : BOOLEAN, turn : {"none", "running", "interrupted"},
                       ended : {"none", "completed", "interrupted"}, decides : BOOLEAN,
                       nudge : BOOLEAN, asked : BOOLEAN, from : 0 .. started]

(* The sessions that run and that nobody closes. *)
Working == {c \in clis : c.alive /\ \A j \in jobs : ~(j.at \in Closing /\ j.cli = c.id)}

(* A stop or a failure of the task is under way: what still runs is about  *)
(* to be ended with what the task created.                                 *)
Ending == \E j \in jobs : j.at \in Stopping \union {"failClose", "failEnd", "failSweep"}

(* Two CLI sessions never work on one task: whatever ends a turn, stalls,  *)
(* waits for quota, is paused or resumed, each new session starts after    *)
(* the one before it was closed, until the task's end is under way.        *)
OneSession == ~Ending => Cardinality(Working) <= 1

(* A hand-off or a hand-over decided for one session never closes the next *)
(* one: the fresh session that another started meanwhile is left to work.  *)
FreshKept == \A j \in jobs : j.at \in {"handOffClose", "overClose"} => j.cli \in {0, j.from}

(* A task that waits for quota has no model: its attempt ended and its CLI *)
(* is closed, so that the quota's return starts the only one; or the task's*)
(* end is under way, and what still runs goes with it.                     *)
WaitsAlone == task.wait => ~task.open /\ (Ending \/ Working = {})

(* A task at work does not stay so for good with a CLI that fell silent,   *)
(* exited or never answered: it reports, is paused or ends, as the stalls  *)
(* and errors that start it over run out; or it was removed.               *)
Settles ==
    task.state \in {"Starting", "Running"} /\ known
        ~> ~known \/ task.state \notin {"Starting", "Running"}
=============================================================================

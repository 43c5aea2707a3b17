---------------------------- MODULE ChangeLanding ----------------------------
(***************************************************************************)
(* One write task's change, from its worker's report to the target branch. *)
(* The orchestrator accepts the report; Brigadier builds a commit in the   *)
(* task's worktree, opens a round of checks (a reviewer and a verifier) on *)
(* it, sends the worker back with what they find, asks the user, lands the *)
(* commit by compare-and-swap, and replays it when the target moved.  Each *)
(* of these is an async job that read the task some awaits ago, beside the *)
(* worker, the checkers, the user's stop and the daemon's restart.         *)
(*                                                                         *)
(* Source: src/crates/core/src/manager/{landing,gates,workers,lifecycle}.rs*)
(* and src/crates/git/src/{repo,worktree}.rs.                              *)
(***************************************************************************)
EXTENDS Integers

CONSTANTS
    MaxRounds,    \* MAX_ROUNDS
    FixRounds,    \* FIX_ROUNDS
    Patient,      \* the orchestrator leaves a change Brigadier has in hand alone
    MaxWork,      \* bound: versions of the worktree's content
    MaxTip,       \* bound: commits of the target branch
    MaxReports,   \* bound: reports the worker submits
    MaxAccepts,   \* bound: calls of accept_task that start a landing
    MaxSendBacks, \* bound: messages of the orchestrator to the worker
    MaxFaults     \* bound: stops by the user or the orchestrator, and restarts of the daemon

ASSUME LandingAssumption ==
    /\ {MaxRounds, FixRounds, MaxWork, MaxTip, MaxReports, MaxAccepts} \subseteq Nat \ {0}
    /\ {MaxSendBacks, MaxFaults} \subseteq Nat
    /\ Patient \in BOOLEAN

VARIABLES
    task,       \* the task's record on the board
    work,       \* the version of the worktree's content
    head,       \* the commit at the worktree's HEAD
    worktree,   \* the worktree exists: no dispose_task has removed it
    tip,        \* the target branch: how many commits it has
    overlaps,   \* the commits of the target that touch the change's files
    carried,    \* the version of the change the target has, 0 for none
    jobs,       \* the tasks Brigadier spawned for the change
    relays,     \* reports whose fix lands by itself once the turn is over
    gates,      \* who holds the gates lock: an opening round, or nobody
    members,    \* the checkers at work: their round, role and commit
    stop,       \* a stop_task: none, or recorded and about to close the gate
    override,   \* a call of accept_task with override under way: its candidate
    ask,        \* the session is under "Ask for approval"
    used,       \* how many accepts, send-backs, stops and restarts there were
    reviewed,   \* history: commits a reviewer approved
    verified,   \* history: commits a verifier passed
    allowed,    \* history: commits the user let land on a card
    overruled,  \* history: commits the user had land despite their checks
    landings    \* history: what landed, and as which commit of the target

inputs  == <<ask, used>>
tree    == <<work, head, worktree>>
target  == <<tip, overlaps, carried, landings>>
history == <<reviewed, verified, allowed, overruled>>
vars == <<task, inputs, tree, target, jobs, relays, gates, members, stop, override, history>>

Roles == {"review", "verify"}
Results == {"passed", "failed", "unverified", "noResult"}

(* A commit is the content it was built from and the tip it was built on. *)
NoCommit == [work |-> 0, onto |-> 0]
CommitOrNone == [work : 0 .. MaxWork, onto : Nat]

(* A round: who has yet to report, and its outcome; while it is open, the  *)
(* worst result so far.                                                    *)
NoGate == [round |-> 0, commit |-> NoCommit, left |-> {}, outcome |-> "none", worst |-> "none",
           relanding |-> FALSE, retry |-> FALSE, overridden |-> FALSE]

Final == {"Done", "Landed", "Stopped"}

Job(at, gate, commit, arg) == [at |-> at, gate |-> gate, commit |-> commit, arg |-> arg]
Replace(j, new) == jobs' = (jobs \ {j}) \union new
Become(j, at) == Replace(j, {[j EXCEPT !.at = at]})
Problem(j, to) == [j EXCEPT !.at = "problem", !.arg = to]

Init ==
    /\ task = [state |-> "Running", report |-> 0, candidate |-> NoCommit, gate |-> NoGate,
               landing |-> FALSE, fixes |-> 0, escalated |-> [round |-> 0, commit |-> NoCommit]]
    /\ ask \in BOOLEAN
    /\ used = [accepts |-> 0, sendBacks |-> 0, stops |-> 0, restarts |-> 0]
    /\ work = 1 /\ head = NoCommit /\ worktree = TRUE
    /\ tip = 0 /\ overlaps = {} /\ carried = 0 /\ landings = {}
    /\ jobs = {} /\ relays = {} /\ members = {}
    /\ gates = "free" /\ stop = "none" /\ override = NoCommit
    /\ reviewed = {} /\ verified = {} /\ allowed = {} /\ overruled = {}

-----------------------------------------------------------------------------
(* The worker. *)

(* It edits its worktree during its turns, the one it reported in not over *)
(* with its report.                                                        *)
WorkerEdits ==
    /\ worktree /\ work < MaxWork
    /\ work' = work + 1
    /\ UNCHANGED <<task, inputs, head, worktree, target, jobs, relays, gates, members, stop, override, history>>

(* submit_report: taken only from a task at work.  A fix Brigadier asked   *)
(* for keeps the landing, unless only the user can unblock it.             *)
WorkerReports(needsUser) ==
    /\ task.state = "Running"
    /\ task.report < MaxReports
    /\ LET relanding == task.landing /\ ~needsUser IN
         /\ task' = [task EXCEPT !.state = "Reported", !.report = @ + 1, !.landing = relanding]
         /\ relays' = IF relanding THEN relays \union {task.report + 1} ELSE relays
    /\ UNCHANGED <<inputs, tree, target, jobs, gates, members, stop, override, history>>

-----------------------------------------------------------------------------
(* The orchestrator and the user. *)

(* Whether Brigadier has the change in hand (workers.rs, brigadier_lands). *)
InHand == \/ task.landing
          \/ task.gate.outcome = "open" /\ task.state \in {"Reviewing", "AwaitingApproval"}

CandidatePassed(t) ==
    /\ t.gate.outcome = "passed" \/ (t.gate.overridden /\ t.gate.outcome = "failed")
    /\ t.candidate # NoCommit /\ t.gate.commit = t.candidate

(* begin_landing's update and the job it spawns: a change that passed its  *)
(* checks and could not land then lands, any other is built again.         *)
BeginLanding(fresh) ==
    LET retry == task.state = "ReadyToLand" /\ CandidatePassed(task)
        begun == [task EXCEPT !.state = "Reviewing", !.landing = TRUE,
                              !.fixes = IF fresh THEN 0 ELSE @,
                              !.candidate = IF retry THEN @ ELSE NoCommit]
    IN /\ task' = begun
       /\ jobs' = jobs \union {IF retry THEN Job("land", begun.gate, NoCommit, "none")
                                        ELSE Job("build", NoGate, NoCommit, "none")}

(* accept_task.  Nothing of what it decides on may have changed since it   *)
(* read the task, or it changes nothing: it is one step.                   *)
Accept ==
    /\ \/ task.state = "Reported" /\ task.report > 0
       \/ task.state = "ReadyToLand" /\ task.candidate # NoCommit
    /\ Patient => ~InHand
    /\ override = NoCommit /\ used.accepts < MaxAccepts
    /\ BeginLanding(TRUE)
    /\ used' = [used EXCEPT !.accepts = @ + 1]
    /\ UNCHANGED <<ask, tree, target, relays, gates, members, stop, override, history>>

(* accept_task with override, first half: the checks that failed are about *)
(* these files, and the user wrote after the orchestrator was handed them. *)
OverrideRead ==
    /\ override = NoCommit /\ task.state = "Reported" /\ used.accepts < MaxAccepts
    /\ task.gate.outcome = "failed" /\ task.candidate # NoCommit
    /\ task.gate.commit = task.candidate
    /\ task.escalated = [round |-> task.gate.round, commit |-> task.candidate]
    /\ Patient => ~InHand
    /\ override' = task.candidate
    /\ used' = [used EXCEPT !.accepts = @ + 1]
    /\ UNCHANGED <<task, ask, tree, target, jobs, relays, gates, members, stop, history>>

(* Second half: the task is updated whatever it is by now. *)
OverrideStart ==
    /\ override # NoCommit
    /\ task' = [task EXCEPT !.state = "Reviewing", !.landing = TRUE,
                            !.gate.overridden = TRUE, !.gate.commit = override]
    /\ jobs' = jobs \union {Job("approve", task'.gate, override, "none")}
    /\ overruled' = overruled \union {override}
    /\ override' = NoCommit
    /\ UNCHANGED <<inputs, tree, target, relays, gates, members, stop,
                   reviewed, verified, allowed>>

(* dispose_task: the CLI and the worktree go and the end is recorded,      *)
(* whatever the task is by now.                                            *)
Dispose(state) ==
    /\ task' = [task EXCEPT !.state = state, !.landing = FALSE]
    /\ worktree' = FALSE

Reopened == [task EXCEPT !.state = "Running", !.candidate = NoCommit]

(* message_worker to a task that is not at work, whoever's it is. *)
SendBack ==
    /\ task.state \in {"Reported", "ReadyToLand", "Reviewing", "AwaitingApproval"}
    /\ Patient => ~InHand
    /\ override = NoCommit
    /\ worktree /\ used.sendBacks < MaxSendBacks
    /\ task' = Reopened
    /\ used' = [used EXCEPT !.sendBacks = @ + 1]
    /\ UNCHANGED <<ask, tree, target, jobs, relays, gates, members, stop, override, history>>

(* stop_task: marks the task as being stopped and disposes of it.  What a  *)
(* job does between the mark and the record, the record overwrites: they   *)
(* are one step.                                                           *)
Stop ==
    /\ stop = "none" /\ task.state \notin Final /\ used.stops + used.restarts < MaxFaults
    /\ stop' = "recorded"
    /\ used' = [used EXCEPT !.stops = @ + 1]
    /\ Dispose("Stopped")
    /\ UNCHANGED <<ask, work, head, target, jobs, relays, gates, members, override, history>>

(* Mutant: they run on. *)
StopCheckersNever(round) == UNCHANGED members

(* Checkers of a round that will not count are stopped. *)
StopCheckers(round) == members' = {m \in members : m.round # round}

(* close_gate, under the gates lock: an open round is superseded and its   *)
(* checkers are stopped.                                                   *)
StopCloseGate ==
    /\ stop = "recorded" /\ gates = "free"
    /\ stop' = "none"
    /\ IF task.gate.outcome = "open"
         THEN /\ task' = [task EXCEPT !.gate.outcome = "superseded"]
              /\ StopCheckers(task.gate.round)
         ELSE UNCHANGED <<task, members>>
    /\ UNCHANGED <<inputs, tree, target, jobs, relays, gates, override, history>>

(* Others commit to the target branch. *)
TargetMoves(overlapping) ==
    /\ tip < MaxTip /\ worktree
    /\ tip' = tip + 1
    /\ overlaps' = IF overlapping THEN overlaps \union {tip + 1} ELSE overlaps
    /\ UNCHANGED <<task, inputs, tree, carried, landings, jobs, relays, gates, members, stop,
                   override, history>>

-----------------------------------------------------------------------------
(* Brigadier's jobs.  Each action is what a job does between two awaits. *)

(* round_current: the round that was decided is the task's, still landing. *)
Current(gate) ==
    /\ task.gate.round = gate.round /\ task.gate.commit = gate.commit
    /\ task.state \in {"Reviewing", "AwaitingApproval"}

(* Mutant: git commits an empty change too. *)
NothingNewForgotten == FALSE

(* commit_candidate finds the target has all of it. *)
NothingNew == work = carried

(* build_and_review: the worktree's content on the target's tip.  It may   *)
(* conflict, the hooks may refuse it, git may fail, and what the target    *)
(* already has is nothing to commit: then the task is done.                *)
Build(j) ==
    /\ j.at = "build"
    /\ \/ /\ worktree /\ ~NothingNew
          /\ head' = [work |-> work, onto |-> tip]
          /\ Replace(j, {[j EXCEPT !.at = "built", !.commit = head']})
          /\ UNCHANGED <<task, worktree>>
       \/ /\ worktree /\ NothingNew
          /\ head' = NoCommit
          /\ Dispose("Done")
          /\ Replace(j, {})
       \/ /\ head' \in {head, NoCommit}
          /\ Replace(j, {Problem(j, "Reported")})
          /\ UNCHANGED <<task, worktree>>
    /\ UNCHANGED <<inputs, work, target, relays, gates, members, stop, override, history>>

Record(j) ==
    /\ j.at = "built"
    /\ task' = [task EXCEPT !.candidate = j.commit]
    /\ Replace(j, {[j EXCEPT !.at = "open", !.arg = "build"]})
    /\ UNCHANGED <<inputs, tree, target, relays, gates, members, stop, override, history>>

(* Mutant: a replay over the target's changes is not reviewed again. *)
CheckersReviewOnce(arg) == IF arg = "build" THEN Roles ELSE {"verify"}

(* Who checks: a verifier only when the same change was reviewed before.   *)
Checkers(arg) == IF arg \in {"build", "overlap"} THEN Roles ELSE {"verify"}

(* Mutant: any round without a reviewer lands by itself. *)
RelandingUnasked(arg) == arg \in {"replay", "retry"}

(* round_relanding: a clean replay lands as soon as it is verified, and a  *)
(* retry of its verification too.                                          *)
Relanding(arg) == arg = "replay" \/ (arg = "retry" /\ task.gate.relanding)

(* A failed round on the same files would end the same way. *)
Unchanged == /\ task.gate.outcome = "failed"
             /\ task.gate.commit # NoCommit /\ task.gate.commit = task.candidate

(* Mutant: a build whose round did not open just ends. *)
NotOpenedQuietly(j) == IF j.arg = "retry" THEN {Problem(j, "ReadyToLand")} ELSE {}

(* Then a build hands the decision to the orchestrator, a retry leaves the *)
(* task ready to land, and a replay ends.                                  *)
NotOpened(j) == CASE j.arg = "build" -> {[j EXCEPT !.at = "escalate"]}
                  [] j.arg = "retry" -> {Problem(j, "ReadyToLand")}
                  [] OTHER -> {}

RoundsUsed == task.gate.round >= MaxRounds

(* open_gate under the gates lock, until its members are started: it reads *)
(* the task again.                                                         *)
Open(j) ==
    /\ j.at = "open" /\ gates = "free"
    /\ IF task.candidate = NoCommit \/ RoundsUsed
         THEN Replace(j, {Problem(j, "Reported")}) /\ UNCHANGED <<gates, members>>
       ELSE IF Unchanged
         THEN /\ Replace(j, NotOpened(j))
              /\ UNCHANGED <<gates, members>>
       ELSE LET round == [NoGate EXCEPT
                    !.round = task.gate.round + 1, !.commit = task.candidate, !.outcome = "open",
                    !.left = Checkers(j.arg), !.worst = "passed",
                    !.relanding = Relanding(j.arg), !.retry = j.arg = "retry"]
            IN \/ /\ gates' = "held"
                  /\ members' = members \union
                       {[round |-> round.round, role |-> r, commit |-> round.commit] :
                            r \in Checkers(j.arg)}
                  /\ Replace(j, {Job("install", round, round.commit, "none")})
               \/ /\ Replace(j, {Problem(j, "Reported")})   \* a checker could not start
                  /\ UNCHANGED <<gates, members>>
    /\ UNCHANGED <<task, inputs, tree, target, relays, stop, override, history>>

(* still_checks: the round is the task's unless it ended or has another    *)
(* candidate by now; then its checkers are stopped.                        *)
Install(j) ==
    /\ j.at = "install"
    /\ gates' = "free"
    /\ IF task.state \notin Final /\ task.candidate = j.commit
         THEN /\ task' = [task EXCEPT !.gate = j.gate, !.state = "Reviewing"]
              /\ UNCHANGED members
         ELSE /\ StopCheckers(j.gate.round)
              /\ UNCHANGED task
    /\ Replace(j, {})
    /\ UNCHANGED <<inputs, tree, target, relays, stop, override, history>>

(* Mutant: a verifier that could not check everything is no reason to wait. *)
WorseTrusting(a, b) == IF "noResult" \in {a, b} THEN "noResult"
                       ELSE IF "failed" \in {a, b} THEN "failed"
                       ELSE "passed"

(* outcome_of: a round is as good as its worst result. *)
Worse(a, b) == IF "noResult" \in {a, b} THEN "noResult"
               ELSE IF "failed" \in {a, b} THEN "failed"
               ELSE IF "unverified" \in {a, b} THEN "unverified"
               ELSE "passed"

(* record_gate_result, under the gates lock: a result counts only for the  *)
(* open round of a task under review; the last one decides the round.      *)
MemberReports(m, result) ==
    /\ gates = "free"
    /\ result = "unverified" => m.role = "verify"
    /\ members' = members \ {m}
    /\ reviewed' = IF m.role = "review" /\ result = "passed" THEN reviewed \union {m.commit} ELSE reviewed
    /\ verified' = IF m.role = "verify" /\ result = "passed" THEN verified \union {m.commit} ELSE verified
    /\ IF task.gate.round = m.round /\ task.gate.outcome = "open" /\ task.state = "Reviewing"
         THEN LET worst == Worse(task.gate.worst, result)
                  all   == task.gate.left = {m.role}
                  gate  == [task.gate EXCEPT !.left = @ \ {m.role},
                                             !.worst = IF all THEN "none" ELSE worst,
                                             !.outcome = IF all THEN worst ELSE @]
                  again == task.landing /\ task.fixes < FixRounds
              IN /\ task' = [task EXCEPT !.gate = gate]
                 /\ jobs' = IF all THEN jobs \union {Job("act", gate, NoCommit,
                                                       IF again THEN "again" ELSE "decide")}
                                   ELSE jobs
         ELSE UNCHANGED <<task, jobs>>
    /\ UNCHANGED <<inputs, tree, target, relays, gates, stop, override, allowed, overruled>>

(* act_on_gate: nothing when the task moved on meanwhile. *)
Act(j) ==
    /\ j.at = "act"
    /\ Replace(j,
         IF ~Current(j.gate) \/ task.gate # j.gate THEN {}
         ELSE CASE j.gate.outcome = "passed" ->
                     {[j EXCEPT !.at = IF j.gate.relanding THEN "land" ELSE "approve"]}
                [] j.gate.outcome = "failed" -> {[j EXCEPT !.at = "sendBack"]}
                [] j.gate.outcome = "unverified" ->
                     {IF j.gate.retry THEN Problem(j, "ReadyToLand")
                                      ELSE [j EXCEPT !.at = "open", !.arg = "retry"]}
                [] OTHER -> {Problem(j, "Reported")})                  \* "noResult"
    /\ UNCHANGED <<task, inputs, tree, target, relays, gates, members, stop, override, history>>

(* send_back_or_escalate: another fix round, while Brigadier has the       *)
(* change and rounds are left; a task that has ended gets no message.      *)
StartFix(j) ==
    /\ j.at = "sendBack"
    /\ IF j.arg = "again"
         THEN /\ task' = [task EXCEPT !.fixes = @ + 1]
              /\ Become(j, IF task.state \in Final THEN "escalate" ELSE "fix")
         ELSE /\ Become(j, "escalate")
              /\ UNCHANGED task
    /\ UNCHANGED <<inputs, tree, target, relays, gates, members, stop, override, history>>

(* message_worker: the worker's session, or a revived one, is sent back to *)
(* work; when it cannot be, the orchestrator decides.                      *)
Fix(j) ==
    /\ j.at = "fix"
    /\ \/ /\ worktree
          /\ task' = Reopened
          /\ Replace(j, {})
       \/ /\ Become(j, "escalate")
          /\ UNCHANGED task
    /\ UNCHANGED <<inputs, tree, target, relays, gates, members, stop, override, history>>

(* The orchestrator decides: reported, whatever the task is by now. *)
Escalate(j) ==
    /\ j.at = "escalate"
    /\ task' = [task EXCEPT !.state = "Reported", !.landing = FALSE]
    /\ Replace(j, {[j EXCEPT !.at = "escalated", !.gate = task.gate, !.commit = task.candidate]})
    /\ UNCHANGED <<inputs, tree, target, relays, gates, members, stop, override, history>>

(* After the findings are delivered: only the user can land it from now on. *)
Escalated(j) ==
    /\ j.at = "escalated"
    /\ IF j.gate.round > 0 /\ j.commit # NoCommit
         THEN /\ task' = [task EXCEPT !.escalated = [round |-> j.gate.round, commit |-> j.commit]]
         ELSE UNCHANGED task
    /\ Replace(j, {})
    /\ UNCHANGED <<inputs, tree, target, relays, gates, members, stop, override, history>>

(* approve_and_land: under "Ask for approval" a card asks the user. *)
Approve(j) ==
    /\ j.at = "approve"
    /\ IF ask THEN task' = [task EXCEPT !.state = "AwaitingApproval"] /\ Become(j, "card")
              ELSE Become(j, "land") /\ UNCHANGED task
    /\ UNCHANGED <<inputs, tree, target, relays, gates, members, stop, override, history>>

(* The user answers the card, or it is withdrawn. *)
Answer(j, answer) ==
    /\ j.at = "card"
    /\ Replace(j, {[j EXCEPT !.at = "answered", !.arg = answer]})
    /\ allowed' = IF answer = "allow" THEN allowed \union {j.gate.commit} ELSE allowed
    /\ UNCHANGED <<task, inputs, tree, target, relays, gates, members, stop, override,
                   reviewed, verified, overruled>>

(* The answer is about the round's commit: once the task moved on, nothing. *)
Answered(j) ==
    /\ j.at = "answered"
    /\ Replace(j, IF ~Current(j.gate) THEN {}
                  ELSE IF j.arg = "allow" THEN {[j EXCEPT !.at = "land"]}
                  ELSE {Problem(j, "Reported")})
    /\ UNCHANGED <<task, inputs, tree, target, relays, gates, members, stop, override, history>>

(* land_task: the round must be the task's, and its commit must have passed. *)
Land(j) ==
    /\ j.at = "land"
    /\ Replace(j, IF ~Current(j.gate) THEN {}
                  ELSE IF ~CandidatePassed(task) THEN {Problem(j, "Reported")}
                  ELSE {[j EXCEPT !.at = "git", !.commit = task.candidate]})
    /\ UNCHANGED <<task, inputs, tree, target, relays, gates, members, stop, override, history>>

(* Repo::land: a compare-and-swap of the branch from the commit's parent;  *)
(* an unsafe checkout blocks it.                                           *)
GitLands(j) ==
    /\ j.at = "git"
    /\ \/ /\ tip = j.commit.onto
          /\ tip' = tip + 1
          /\ carried' = j.commit.work
          /\ landings' = landings \union {[commit |-> j.commit, nr |-> tip + 1]}
          /\ Become(j, "landed")
       \/ /\ Replace(j, {Problem(j, "ReadyToLand")})
          /\ UNCHANGED <<tip, carried, landings>>
    /\ UNCHANGED <<task, inputs, tree, overlaps, relays, gates, members, stop, override, history>>

(* Whether the target's commits between the two tips leave the change's    *)
(* files alone: rebase_candidate's clean_fast.                             *)
Clean(from, to) == \A k \in from + 1 .. to : k \notin overlaps

(* The tip moved: the commit, still the worktree's HEAD, is replayed. *)
Replay(j) ==
    /\ j.at = "git" /\ tip # j.commit.onto
    /\ \/ /\ worktree /\ head = j.commit
          /\ head' = [j.commit EXCEPT !.onto = tip]
          /\ Replace(j, {[j EXCEPT !.at = "replayed", !.commit = head',
                                   !.arg = IF Clean(j.commit.onto, tip) THEN "replay" ELSE "overlap"]})
       \/ /\ Replace(j, {Problem(j, "Reported")})            \* conflicts, or git fails
          /\ UNCHANGED head
    /\ UNCHANGED <<task, inputs, work, worktree, target, relays, gates, members, stop, override, history>>

(* The replayed commit becomes the candidate.  One the user had land       *)
(* despite its checks lands as it is; any other is checked again.          *)
Replayed(j) ==
    /\ j.at = "replayed"
    /\ LET despite  == j.arg = "replay" /\ task.gate.overridden
           replaced == [task EXCEPT !.candidate = IF @ = NoCommit THEN @ ELSE j.commit]
       IN IF despite
            THEN /\ task' = [replaced EXCEPT !.gate.commit = j.commit]
                 /\ Replace(j, {[j EXCEPT !.at = "land", !.gate = task'.gate]})
            ELSE /\ task' = replaced
                 /\ Become(j, "open")
    /\ UNCHANGED <<inputs, tree, target, relays, gates, members, stop, override, history>>

(* landed: the task's end is recorded. *)
Landed(j) ==
    /\ j.at = "landed"
    /\ Dispose("Landed")
    /\ Replace(j, {})
    /\ UNCHANGED <<inputs, work, head, target, relays, gates, members, stop, override, history>>

(* landing_problem and hand_back: the orchestrator decides next, unless    *)
(* the task ended or is being stopped.                                     *)
HandBack(j) ==
    /\ j.at = "problem"
    /\ task' = IF task.state \in Final \/ stop # "none" THEN task
               ELSE [task EXCEPT !.state = j.arg, !.landing = FALSE]
    /\ Replace(j, {})
    /\ UNCHANGED <<inputs, tree, target, relays, gates, members, stop, override, history>>

(* A fix lands by itself once its turn is over (or its end is waited for   *)
(* no longer), if it still is the task's report and Brigadier's to land.   *)
Relay(r) ==
    /\ relays' = relays \ {r}
    /\ IF task.state = "Reported" /\ task.landing /\ task.report = r
         THEN BeginLanding(FALSE) ELSE UNCHANGED <<task, jobs>>
    /\ UNCHANGED <<inputs, tree, target, gates, members, stop, override, history>>

-----------------------------------------------------------------------------
(* The daemon restarts: nothing runs any more, and recover settles the     *)
(* task by the state it was in.                                            *)
Restart ==
    /\ used.stops + used.restarts < MaxFaults
    /\ used' = [used EXCEPT !.restarts = @ + 1]
    /\ jobs' = {} /\ relays' = {} /\ members' = {}
    /\ gates' = "free" /\ stop' = "none" /\ override' = NoCommit
    /\ LET interrupted == task.landing /\ task.state \in {"Reported", "Running"}
           checked     == task.state \in {"Reviewing", "AwaitingApproval"}
       IN CASE interrupted ->
                 task' = [task EXCEPT !.state = "Reported", !.landing = FALSE] /\ UNCHANGED worktree
            [] checked ->
                 /\ task' = [task EXCEPT !.state = "Reported", !.landing = FALSE,
                        !.candidate = NoCommit,
                        !.gate.outcome = IF @ = "open" THEN "superseded" ELSE @]
                 /\ UNCHANGED worktree
            [] ~interrupted /\ task.state = "Running" ->
                 task' = [task EXCEPT !.state = "Stopped"] /\ worktree' = FALSE
            [] OTHER -> UNCHANGED <<task, worktree>>
    /\ UNCHANGED <<ask, work, head, target, history>>

JobSteps(j) ==
    \/ Build(j) \/ Record(j) \/ Open(j) \/ Install(j) \/ Act(j) \/ StartFix(j) \/ Fix(j)
    \/ Escalate(j) \/ Escalated(j) \/ Approve(j) \/ Answered(j) \/ Land(j) \/ GitLands(j)
    \/ Replay(j) \/ Replayed(j) \/ Landed(j) \/ HandBack(j)

Next ==
    \/ WorkerEdits \/ \E n \in BOOLEAN : WorkerReports(n)
    \/ Accept \/ OverrideRead \/ OverrideStart \/ SendBack
    \/ Stop \/ StopCloseGate
    \/ \E o \in BOOLEAN : TargetMoves(o)
    \/ \E j \in jobs : JobSteps(j) \/ \E a \in {"allow", "deny", "withdrawn"} : Answer(j, a)
    \/ \E m \in members, r \in Results : MemberReports(m, r)
    \/ \E r \in relays : Relay(r)
    \/ Restart

Spec == Init /\ [][Next]_vars

-----------------------------------------------------------------------------
(* Every variable has its type, and rounds are numbered up to MAX_ROUNDS. *)
Gate == [round : 0 .. MaxRounds, commit : CommitOrNone, left : SUBSET Roles,
         outcome : Results \union {"none", "open", "superseded"}, worst : Results \union {"none"},
         relanding : BOOLEAN, retry : BOOLEAN, overridden : BOOLEAN]

Task == [state : Final \union {"Running", "Reported", "Reviewing", "AwaitingApproval", "ReadyToLand"},
         report : Nat, candidate : CommitOrNone, gate : Gate, landing : BOOLEAN, fixes : Nat,
         escalated : [round : 0 .. MaxRounds, commit : CommitOrNone]]

Steps == {"build", "built", "open", "install", "act", "sendBack", "fix", "escalate", "escalated",
          "approve", "card", "answered", "land", "git", "replayed", "landed", "problem"}
Args == {"none", "build", "retry", "replay", "overlap",           \* what is opened
         "again", "decide", "allow", "deny", "withdrawn", "Reported", "ReadyToLand"}

TypeOK ==
    /\ task \in Task /\ ask \in BOOLEAN
    /\ used \in [accepts : Nat, sendBacks : Nat, stops : Nat, restarts : Nat]
    /\ work \in 1 .. MaxWork /\ head \in CommitOrNone /\ worktree \in BOOLEAN
    /\ tip \in Nat /\ overlaps \subseteq 1 .. tip /\ carried \in 0 .. MaxWork
    /\ landings \subseteq [commit : CommitOrNone, nr : Nat]
    /\ jobs \subseteq [at : Steps, gate : Gate, commit : CommitOrNone, arg : Args]
    /\ relays \subseteq Nat
    /\ members \subseteq [round : 1 .. MaxRounds, role : Roles, commit : CommitOrNone]
    /\ gates \in {"free", "held"} /\ stop \in {"none", "recorded"} /\ override \in CommitOrNone
    /\ UNION {reviewed, verified, allowed, overruled} \subseteq CommitOrNone

(* Whether c is the change d was, replayed onto a target that left its     *)
(* files alone: who judged d judged c.                                     *)
SameChange(d, c) == d.work = c.work /\ d.onto <= c.onto /\ Clean(d.onto, c.onto)

Landings == {l.commit : l \in landings}

(* Only a candidate whose checks all passed lands (gates.rs, landing.rs):  *)
(* a verifier passed that very commit and a reviewer approved it, or the   *)
(* change it is a clean replay of; or the user had that change land        *)
(* despite its checks.  Not an older round's commit, not one rebuilt,      *)
(* fixed or replayed since.                                                *)
NothingUnchecked ==
    \A c \in Landings :
        \/ c \in verified /\ \E d \in reviewed : SameChange(d, c)
        \/ \E d \in overruled : SameChange(d, c)

(* What holds whatever the orchestrator does, a change it sends back while *)
(* Brigadier has it in hand included: every change that lands was passed   *)
(* by a verifier, or landed by the user despite its checks, as that commit *)
(* or one it is a clean replay of.                                         *)
NothingUnverified ==
    \A c \in Landings : \E d \in verified \union overruled : SameChange(d, c)

(* Under "Ask for approval" a change lands only once the user allowed it,  *)
(* that commit or the one it is a clean replay of: an answer to an old     *)
(* card never lands newer work.                                            *)
UserDecides == ask => \A c \in Landings : \E d \in allowed : SameChange(d, c)

(* A version of the change lands at most once, a restart between git's     *)
(* landing and its record included.                                        *)
LandsOnce == \A a, b \in landings : a.commit.work = b.commit.work => a = b

(* No checker works on a task that has ended: a round that was opening     *)
(* while the task was stopped, and one that opened since, are closed.      *)
NoOrphans == task.state \in Final /\ stop = "none" /\ gates = "free" => members = {}

(* A change Brigadier has in hand moves on: something that will hand it    *)
(* back, land it or send its worker to work is under way, as long as the   *)
(* task was not disposed of.                                               *)
NothingStranded ==
    worktree =>
    /\ task.state \in {"Reviewing", "AwaitingApproval"} =>
          \/ jobs # {} \/ stop # "none"
          \/ task.gate.outcome = "open" /\ \E m \in members : m.round = task.gate.round
    /\ task.state = "Reported" /\ task.landing => task.report \in relays \/ stop # "none"
=============================================================================

---------------------------- MODULE OvernightRun ----------------------------
(***************************************************************************)
(* One overnight run: the conductor takes it through its phases, each led  *)
(* by the orchestrator and then checked as a whole, until it ends and its  *)
(* report is written (src/crates/core/src/manager/overnight/).             *)
(*                                                                         *)
(* The run's record changes one step at a time, under a lock; what decides *)
(* a step often reads the record and the branch before it takes the lock.  *)
(* What the manager spawned and has yet to do is a job here, so a stop,    *)
(* the deadline, a landing or a restart comes between any two steps.       *)
(* Commits of the run's branch are numbered: the newest is its tip.  The   *)
(* orchestrator's turns are not told apart: reports, reminders and the     *)
(* user start one at any time, so what it does in one it may do any time.  *)
(***************************************************************************)
EXTENDS Integers, Sequences, FiniteSetsExt

CONSTANTS Phases,       \* the plan's phases, in its order: 1 .. n
          DependsOn,    \* the phases each one builds on
          MaxRounds,    \* MAX_ROUNDS: rounds of checks of one phase
          FixRounds,    \* FIX_ROUNDS: times one is sent back to its lead
          MaxCommits,   \* bound: commits that land
          MaxMishaps,   \* bound: how many Mishaps happen
          Allowed       \* which of Mishaps may happen

Mishaps == {"restart", "nobranch", "nochecks", "noreport", "steer"}

ASSUME OvernightAssumption ==
    /\ Phases \subseteq Nat \ {0} /\ IsFiniteSet(Phases)
    /\ DependsOn \in [Phases -> SUBSET Phases]
    /\ MaxRounds \in Nat \ {0} /\ FixRounds \in Nat
    /\ MaxCommits \in Nat /\ MaxMishaps \in Nat
    /\ Allowed \subseteq Mishaps

VARIABLES run,          \* the run's record: state, branch made, merge point
          phase,        \* its record of each phase
          author,       \* the branch: the phase whose work each commit is
          open,         \* the phases with an open write task
          checkers,     \* the members of rounds of checks that are at work
          jobs,         \* what the manager spawned and has yet to do
          ending,       \* how far end_run came
          posted,       \* reports in the conversation
          held,         \* history: no run that was ending was taken back
          mishaps       \* how many happened

memory == <<checkers, jobs, ending>>
world  == <<author, open, posted>>
vars   == <<run, phase, memory, world, held, mishaps>>

tip   == Len(author)
Roles == {"verify", "review", "judge"}

NoGate == [round |-> 0, commit |-> 0, retry |-> FALSE, closed |-> FALSE,
           verify |-> "absent", review |-> "absent", judge |-> "absent",
           evidence |-> {}]     \* who approved, and which commit they looked at

Active      == run.state \notin {"proposed", "superseded", "finished"}
WindingDown == run.state \in {"windingDown", "reporting"}
InState(s)  == {p \in Phases : phase[p].state \in s}
TheFirst(S) == IF S = {} THEN {} ELSE {Min(S)}

Job(do, p)  == [do |-> do, phase |-> p, commit |-> 0, flag |-> FALSE]
Open(p, commit, retry) == [Job("open", p) EXCEPT !.commit = commit, !.flag = retry]
Decide(p, winding)     == [Job("decide", p) EXCEPT !.flag = winding]
Judge(p, winding)      == [Job("judge", p) EXCEPT !.flag = winding]
Advance     == Job("advance", 0)
Done(p)     == [Job("done", p) EXCEPT !.commit = tip]

Mishap(m) == m \in Allowed /\ mishaps < MaxMishaps /\ mishaps' = mishaps + 1

Init ==
    /\ run = [state |-> "proposed", branch |-> FALSE, merge |-> 0]
    /\ phase = [p \in Phases |->
                   [state |-> "pending", begun |-> "no", gate |-> NoGate,
                    fixes |-> 0, verified |-> 0]]
    /\ author = <<>> /\ open = {}
    /\ checkers = {} /\ jobs = {} /\ ending = "no"
    /\ posted = 0
    /\ held = TRUE /\ mishaps = 0

-----------------------------------------------------------------------------
(***************************************************************************)
(* The user: Start, Stop, a changed selection of phases.                   *)
(***************************************************************************)
Start ==
    /\ run.state = "proposed"
    /\ run' = [run EXCEPT !.state = "preparing"]
    /\ jobs' = jobs \cup {Job("prepare", 0)}
    /\ UNCHANGED <<phase, checkers, ending, world, mishaps, held>>

\* A run is ended once at a time, whoever asks.
EndsOnce == ending' = IF ending = "no" THEN "waiting" ELSE ending

\* The run is to end, and end_run, which the conductor is called for, is started
\* in the same step: it changes nothing of the run until it settles.  Stopping
\* again changes nothing, and is left out, except that an ending that was lost
\* is taken up again.  The deadline does the same, once (deadline_reached).
Stop ==
    /\ run.state \notin {"superseded", "reporting", "finished"}
    /\ run.state = "windingDown" => ending = "no"
    /\ run' = [run EXCEPT !.state = IF @ = "proposed" THEN "superseded" ELSE "windingDown"]
    /\ IF Active THEN EndsOnce ELSE UNCHANGED ending
    /\ UNCHANGED <<phase, checkers, jobs, world, mishaps, held>>

\* Skip a phase that did not start, or take it back in.
Steer(p) ==
    /\ Active /\ run.state # "reporting"
    /\ \/ /\ phase[p].state = "pending"
          /\ phase' = [phase EXCEPT ![p].state = "skipped"]
       \/ /\ phase[p].state = "skipped" /\ phase[p].begun # "yes"
          /\ phase' = [phase EXCEPT ![p].state = "pending"]
    /\ Mishap("steer")
    /\ jobs' = jobs \cup {Advance}
    /\ UNCHANGED <<run, checkers, ending, world, held>>

-----------------------------------------------------------------------------
(***************************************************************************)
(* The conductor.                                                          *)
(***************************************************************************)
\* The branch and worktree are made, or the run ends before any work starts.
Prepare ==
    /\ Job("prepare", 0) \in jobs
    /\ \/ /\ run.state # "preparing"
          /\ jobs' = jobs \ {Job("prepare", 0)} /\ UNCHANGED <<run, mishaps>>
       \/ /\ run.state = "preparing"
          /\ run' = [run EXCEPT !.branch = TRUE]
          /\ jobs' = (jobs \ {Job("prepare", 0)}) \cup {Advance} /\ UNCHANGED mishaps
       \/ /\ run.state = "preparing" /\ Mishap("nobranch")
          /\ run' = [run EXCEPT !.state = "finished"]
          /\ jobs' = (jobs \ {Job("prepare", 0)}) \cup {Advance}
    /\ UNCHANGED <<phase, checkers, ending, world, held>>

\* What pick_next may start: the first pending phase, if what it needs is verified.
Startable ==
    {p \in TheFirst(InState({"pending"})) : DependsOn[p] \subseteq InState({"verified"})}

Advances ==
    /\ Advance \in jobs
    /\ LET steps == run.state = "running" \/ (run.state = "preparing" /\ run.branch)
           idle  == InState({"running", "checking"}) = {}
       IN  \/ /\ steps /\ idle
              /\ \E p \in Startable :
                    phase' = [phase EXCEPT ![p].state = "running", ![p].begun = "chosen"]
              /\ jobs' = jobs \ {Advance}
              /\ run' = [run EXCEPT !.state = "running"]
              /\ UNCHANGED ending
           \/ /\ steps /\ idle /\ Startable = {}
              /\ run' = [run EXCEPT !.state = "windingDown"]
              /\ jobs' = jobs \ {Advance} /\ EndsOnce
              /\ UNCHANGED phase
           \/ /\ run.state = "windingDown"
              /\ jobs' = jobs \ {Advance} /\ EndsOnce
              /\ UNCHANGED <<run, phase>>
           \/ /\ ~(steps /\ idle) /\ run.state # "windingDown"
              /\ jobs' = jobs \ {Advance}
              /\ UNCHANGED <<run, phase, ending>>
    /\ UNCHANGED <<checkers, world, mishaps, held>>

\* The chosen phase's start commit is noted, once, and its lead is called.
Leads(p) ==
    /\ Active /\ phase[p].state = "running" /\ phase[p].begun = "chosen"
    /\ phase' = [phase EXCEPT ![p].begun = "yes"]
    /\ UNCHANGED <<run, checkers, jobs, ending, world, mishaps, held>>

\* One at a time: it is a tool call of a turn, and a reminder waits for the turn's end.
Declared == \E job \in jobs : job.do = "done"

PhaseDone ==
    /\ Active /\ ~Declared
    /\ \E p \in TheFirst(InState({"running"})) :
          /\ p \notin open
          /\ jobs' = jobs \cup {Done(p)}
    /\ UNCHANGED <<run, phase, checkers, ending, world, mishaps, held>>

DoneRecorded(job) ==
    /\ job \in jobs /\ job.do = "done"
    /\ LET p == job.phase
       IN  IF Active /\ phase[p].state = "running"
           THEN /\ phase' = [phase EXCEPT ![p].state = "checking"]
                /\ run' = [run EXCEPT !.state = "phaseGate"]
                /\ held' = (held /\ ~WindingDown)
                /\ jobs' = (jobs \ {job}) \cup {Open(p, job.commit, FALSE)}
           ELSE jobs' = jobs \ {job} /\ UNCHANGED <<run, phase, held>>
    /\ UNCHANGED <<checkers, ending, world, mishaps>>

\* A lead that went on to end its turns with its phase open was reminded, and
\* its phase is checked as it is, with what was reported and not accepted yet.
CheckedAsIs ==
    /\ run.state = "running" /\ ~Declared
    /\ \E p \in TheFirst(InState({"running"})) : jobs' = jobs \cup {Done(p)}
    /\ UNCHANGED <<run, phase, checkers, ending, world, mishaps, held>>

-----------------------------------------------------------------------------
(***************************************************************************)
(* The phase's write task, delegated to it while it is the current phase.  *)
(* How it is checked and lands is the module ChangeLanding's.              *)
(***************************************************************************)
Delegate(p) ==
    /\ Active /\ ~WindingDown /\ tip < MaxCommits
    /\ p \in TheFirst(InState({"running", "checking"})) \ open
    /\ open' = open \cup {p}
    /\ UNCHANGED <<run, phase, memory, author, posted, mishaps, held>>

\* What the lead accepted lands, or the task ends without.
TaskEnds(p) ==
    /\ p \in open /\ open' = open \ {p}
    /\ author' \in {author} \cup (IF tip < MaxCommits THEN {Append(author, p)} ELSE {})
    /\ UNCHANGED <<run, phase, memory, posted, mishaps, held>>

-----------------------------------------------------------------------------
(***************************************************************************)
(* The whole-phase checks.                                                 *)
(***************************************************************************)
Slot(role, g) ==
    CASE role = "verify" -> g.verify [] role = "review" -> g.review [] OTHER -> g.judge

Filled(g, role, result) ==
    CASE role = "verify" -> [g EXCEPT !.verify = result]
      [] role = "review" -> [g EXCEPT !.review = result]
      [] OTHER           -> [g EXCEPT !.judge = result]

\* What follows a result: the verdict after the judge's, the judge after the others',
\* each with the run as it is now.
Follows(p, g) ==
    LET winding == run.state \notin {"running", "phaseGate"}
    IN  IF g.judge \notin {"absent", "none"} THEN {Decide(p, winding)}
        ELSE IF g.judge = "absent" /\ g.verify # "none" /\ g.review # "none"
             THEN {Judge(p, winding)} ELSE {}

\* A round opens on a candidate: a verifier and a reviewer, unless one cannot
\* start; a reviewer of the authors' own vendor counts for nothing.
Opens(job) ==
    /\ job \in jobs /\ job.do = "open"
    /\ LET p == job.phase
           g == [NoGate EXCEPT !.round = phase[p].gate.round + 1,
                               !.commit = job.commit, !.retry = job.flag]
           member(role) == [phase |-> p, round |-> g.round, role |-> role, commit |-> job.commit]
       IN  \/ /\ ~Active \/ phase[p].state # "checking"
              /\ jobs' = jobs \ {job} /\ UNCHANGED <<run, phase, checkers, held, mishaps>>
           \/ /\ Active /\ phase[p].state = "checking"
              /\ run' = [run EXCEPT !.state = "phaseGate"]
              /\ held' = (held /\ ~WindingDown)
              /\ \/ /\ \E review \in {"none", "same"} :
                          /\ phase' = [phase EXCEPT ![p].gate =
                                         [g EXCEPT !.verify = "none", !.review = review]]
                          /\ checkers' = checkers \cup {member("verify")}
                                \cup (IF review = "none" THEN {member("review")} ELSE {})
                    /\ jobs' = jobs \ {job} /\ UNCHANGED mishaps
                 \/ /\ Mishap("nochecks")
                    /\ phase' = [phase EXCEPT ![p].gate = g]
                    /\ jobs' = (jobs \ {job}) \cup {Decide(p, FALSE)}
                    /\ UNCHANGED checkers
    /\ UNCHANGED <<ending, author, open, posted>>

\* "failed" stands for findings and for no result: see userOnly.
Results(role) == {"passed", "failed"} \cup (IF role = "verify" THEN {"unverified"} ELSE {})

Taken(g, c, result) ==
    [Filled(g, c.role, result) EXCEPT !.evidence =
        @ \cup (IF result = "passed" THEN {<<c.role, c.commit>>} ELSE {})]

\* A member's result counts for the round it was started in while it is open.
MemberReports(c) ==
    /\ c \in checkers /\ checkers' = checkers \ {c}
    /\ LET p == c.phase
           g == phase[p].gate
       IN  \E result \in Results(c.role) :
              /\ IF Active /\ g.round = c.round /\ ~g.closed /\ Slot(c.role, g) = "none"
                 THEN /\ phase' = [phase EXCEPT ![p].gate = Taken(g, c, result)]
                      /\ jobs' = jobs \cup Follows(p, Taken(g, c, result))
                 ELSE UNCHANGED <<phase, jobs>>
    /\ UNCHANGED <<run, ending, author, open, posted, mishaps, held>>

\* The others have results: a judge starts, unless the branch moved or none can.
JudgeStarts(job) ==
    /\ job \in jobs /\ job.do = "judge"
    /\ LET p == job.phase
           g == phase[p].gate
           rest == jobs \ {job}
       IN  \/ /\ tip # g.commit
              /\ jobs' = rest \cup {Decide(p, job.flag)}
              /\ UNCHANGED <<phase, checkers, mishaps>>
           \/ /\ tip = g.commit
              /\ \/ ~Active \/ g.closed
              /\ jobs' = rest /\ UNCHANGED <<phase, checkers, mishaps>>
           \/ /\ tip = g.commit /\ Active /\ ~g.closed
              /\ phase' = [phase EXCEPT ![p].gate.judge = "none"]
              /\ checkers' = checkers \cup
                    {[phase |-> p, round |-> g.round, role |-> "judge", commit |-> g.commit]}
              /\ jobs' = rest /\ UNCHANGED mishaps
           \/ /\ tip = g.commit /\ Active /\ Mishap("nochecks")
              /\ phase' = [phase EXCEPT ![p].gate.judge = "failed"]
              /\ jobs' = rest \cup Follows(p, [g EXCEPT !.judge = "failed"])
              /\ UNCHANGED checkers
    /\ UNCHANGED <<run, ending, world, held>>

\* Mutant: a phase goes back to its lead as often as its checks find something.
Verdict_Endless(p, winding, userOnly) ==
    LET g == phase[p].gate
    IN  IF tip # g.commit /\ ~winding THEN "recheck"
        ELSE IF {g.verify, g.review, g.judge} = {"passed"} THEN "verified"
        ELSE IF ~winding THEN "fix" ELSE "settle"

\* Mutant: the judge's word is enough.
Verdict_JudgeAlone(p, winding, userOnly) ==
    LET g == phase[p].gate
    IN  IF tip # g.commit /\ ~winding /\ g.round < MaxRounds THEN "recheck"
        ELSE IF g.judge = "passed" /\ ~winding /\ tip = g.commit THEN "verified" ELSE "settle"

\* verdict_of: what a decided round comes to.  userOnly: what is left is not a
\* worker's to fix, it waits on the user or is a missing result.
Verdict(p, winding, userOnly) ==
    LET g     == phase[p].gate
        stale == tip # g.commit
        again == ~winding /\ g.round < MaxRounds
        said  == {g.verify, g.review, g.judge}
    IN  IF stale /\ again THEN "recheck"
        ELSE IF said = {"passed"} /\ ~winding /\ ~stale THEN "verified"
        ELSE IF /\ "failed" \in said /\ g.review # "same" /\ ~userOnly
                /\ again /\ phase[p].fixes < FixRounds THEN "fix"
        ELSE IF g.verify = "unverified" /\ ~g.retry /\ again /\ ~stale THEN "retry"
        ELSE "settle"

\* Of a closed round only its number is read again; of a settled phase its
\* state alone, and a verified one's evidence is kept.
Closed(g) == [NoGate EXCEPT !.round = g.round, !.closed = TRUE]
Settled(p, state) ==
    [phase[p] EXCEPT !.state = state, !.gate = [NoGate EXCEPT !.closed = TRUE], !.fixes = 0]

\* Mutant: a verified phase moves it, whatever is unfinished before it.
MergePoint_Always(p) == phase[p].gate.commit

\* The merge point moves only while every other phase that began is verified.
MergePoint(p) ==
    IF \A q \in Phases \ {p} : phase[q].begun = "yes" => phase[q].state = "verified"
    THEN phase[p].gate.commit ELSE run.merge

\* Each verdict is recorded if the round is still open; a run in its checks runs on.
Decides(job) ==
    /\ job \in jobs /\ job.do = "decide"
    /\ LET p      == job.phase
           g      == phase[p].gate
           rest   == jobs \ {job}
           onward == IF run.state = "phaseGate" THEN "running" ELSE run.state
       IN  \/ /\ ~Active \/ g.closed
              /\ jobs' = rest /\ UNCHANGED <<run, phase>>
           \/ /\ Active /\ ~g.closed
              /\ \E userOnly \in BOOLEAN :
                    LET verdict == Verdict(p, job.flag, userOnly) IN
                    \/ /\ verdict \in {"recheck", "retry"}
                       /\ phase' = [phase EXCEPT ![p].gate = Closed(@)]
                       /\ jobs' = rest \cup {IF verdict = "retry" THEN Open(p, g.commit, TRUE)
                                             ELSE Open(p, tip, FALSE)}
                       /\ UNCHANGED run
                    \/ /\ verdict = "verified"
                       /\ phase' = [phase EXCEPT ![p] =
                             [Settled(p, "verified") EXCEPT !.verified = g.commit,
                                                            !.gate.evidence = g.evidence]]
                       /\ run' = [run EXCEPT !.state = onward, !.merge = MergePoint(p)]
                       /\ jobs' = rest \cup {Advance}
                    \/ /\ verdict = "fix"
                       /\ phase' = [phase EXCEPT ![p] =
                             [phase[p] EXCEPT !.gate = Closed(g), !.state = "running", !.fixes = @ + 1]]
                       /\ run' = [run EXCEPT !.state = onward]
                       /\ jobs' = rest
                    \/ /\ verdict = "settle"
                       /\ phase' = [phase EXCEPT ![p] = Settled(p, "partial")]
                       /\ run' = [run EXCEPT !.state = onward]
                       /\ jobs' = rest \cup {Advance}
    /\ UNCHANGED <<checkers, ending, world, mishaps, held>>

-----------------------------------------------------------------------------
(***************************************************************************)
(* The clean ending.                                                       *)
(***************************************************************************)
\* A result the stop of a checker leaves: none.
Stopped(p) ==
    LET g == phase[p].gate
        cut(role) == /\ Slot(role, g) = "none" /\ ~g.closed
                     /\ \E c \in checkers : c.phase = p /\ c.role = role /\ c.round = g.round
        after(role) == IF cut(role) THEN "failed" ELSE Slot(role, g)
    IN  [g EXCEPT !.verify = after("verify"), !.review = after("review"), !.judge = after("judge")]

\* Nothing is at work any more or the cutoff came: what is left stops, and
\* phases that were not checked settle as what they are.
EndSettles ==
    /\ ending = "waiting"
    /\ open' = {} /\ checkers' = {}
    /\ jobs' = jobs \cup (IF Active THEN UNION {Follows(p, Stopped(p)) :
                           p \in {q \in Phases : Stopped(q) # phase[q].gate}} ELSE {})
    /\ phase' = IF Active
                THEN [p \in Phases |->
                        [phase[p] EXCEPT !.gate = Stopped(p),
                             !.state = IF run.state = "windingDown" /\ @ \in {"running", "checking"}
                                       THEN "partial" ELSE @]]
                ELSE phase
    /\ run' = IF run.state = "windingDown" THEN [run EXCEPT !.state = "reporting"] ELSE run
    /\ ending' = IF WindingDown THEN "settled" ELSE "no"
    /\ UNCHANGED <<author, posted, mishaps, held>>

\* Mutant: an earlier try's report is not looked for.
EndPosts_Again ==
    /\ ending = "settled"
    /\ posted' = posted + 1
    /\ ending' = "posted"
    /\ UNCHANGED <<run, phase, checkers, jobs, author, open, mishaps, held>>

\* The report is posted, unless an earlier try did.
EndPosts ==
    /\ ending = "settled"
    /\ posted' = IF posted > 0 THEN posted ELSE posted + 1
    /\ ending' = "posted"
    /\ UNCHANGED <<run, phase, checkers, jobs, author, open, mishaps, held>>

\* It is noted on the run and the run is finished, or noting it fails and the
\* clock comes back to it.
EndFinishes ==
    /\ ending = "posted" /\ ending' = "no"
    /\ \/ /\ run' = IF run.state = "reporting" THEN [run EXCEPT !.state = "finished"] ELSE run
          /\ UNCHANGED mishaps
       \/ Mishap("noreport") /\ UNCHANGED run
    /\ UNCHANGED <<phase, checkers, jobs, world, held>>

\* The clock comes back to a run that is still reporting.
ClockResumes ==
    /\ run.state = "reporting" /\ ending = "no"
    /\ ending' = "waiting"
    /\ UNCHANGED <<run, phase, checkers, jobs, world, mishaps, held>>

-----------------------------------------------------------------------------
(***************************************************************************)
(* The daemon is killed and starts again: what was at work is over, and    *)
(* the run picks up where it was.  One past its deadline is stopped, as    *)
(* Stop does.                                                              *)
(***************************************************************************)
\* The phases whose checks start again, and on what.
Reopened == {p \in InState({"checking"}) : ~phase[p].gate.closed}
Candidate(p) == IF phase[p].gate.round = 0 THEN tip ELSE phase[p].gate.commit

\* Who was to note the start of a chosen phase is gone with the daemon.
Lost(p) == [phase[p] EXCEPT !.begun = IF @ = "chosen" THEN "no" ELSE @]

\* Mutant: a run in its checks or at work is picked up, one that was ending is not.
Restart_Drops ==
    /\ Active /\ Mishap("restart")
    /\ checkers' = {} /\ open' \in SUBSET open
    /\ ending' = "no"
    /\ phase' = [p \in Phases |-> Lost(p)]
    /\ jobs' = IF run.state = "running" /\ InState({"running"}) = {} THEN {Advance} ELSE {}
    /\ UNCHANGED <<run, author, posted, held>>

Restart ==
    /\ Active /\ Mishap("restart")
    /\ checkers' = {}
    /\ open' \in SUBSET open
    /\ ending' = IF WindingDown THEN "waiting" ELSE "no"
    /\ \/ /\ run.state = "phaseGate"
          /\ phase' = [p \in Phases |->
                         IF p \in Reopened /\ phase[p].gate.round > 0
                         THEN [Lost(p) EXCEPT !.gate = Closed(@)] ELSE Lost(p)]
          /\ jobs' = {Open(p, Candidate(p), FALSE) : p \in Reopened}
       \/ /\ run.state # "phaseGate"
          /\ phase' = [p \in Phases |-> Lost(p)]
          /\ jobs' = CASE run.state = "preparing" -> {Job("prepare", 0)}
                       [] run.state = "running" /\ InState({"running"}) = {} -> {Advance}
                       [] OTHER -> {}
    /\ UNCHANGED <<run, author, posted, held>>

-----------------------------------------------------------------------------
\* Over: the run ended and nothing of it is left to do.
Over ==
    /\ ~Active /\ run.state # "proposed" /\ jobs = {} /\ checkers = {}
    /\ UNCHANGED vars

User == Start \/ Stop \/ \E p \in Phases : Steer(p)

Conductor ==
    \/ Prepare \/ Advances
    \/ \E p \in Phases : Leads(p)
    \/ \E job \in jobs : DoneRecorded(job) \/ Opens(job) \/ JudgeStarts(job) \/ Decides(job)

Agents ==
    \/ PhaseDone \/ CheckedAsIs
    \/ \E p \in Phases : Delegate(p) \/ TaskEnds(p)
    \/ \E c \in checkers : MemberReports(c)

Ends == EndSettles \/ EndPosts \/ EndFinishes

Next ==
    \/ User \/ Conductor \/ Agents \/ Ends
    \/ ClockResumes \/ Restart \/ Over

(***************************************************************************)
(* The manager's own tasks go on while the daemon runs, and its clock      *)
(* looks at a run that is reporting again and again; nothing is assumed of *)
(* the agents, the user or the deadline.                                   *)
(***************************************************************************)
Spec ==
    /\ Init /\ [][Next]_vars
    /\ WF_vars(Advances) /\ WF_vars(Ends)
    /\ WF_vars(ClockResumes)

-----------------------------------------------------------------------------
PhaseStates == {"pending", "running", "checking", "verified", "partial", "skipped"}
RunStates   == {"proposed", "superseded", "preparing", "running", "phaseGate",
                "windingDown", "reporting", "finished"}
Work        == {"prepare", "advance", "done", "open", "judge", "decide"}
Answers     == {"absent", "none", "passed", "failed", "unverified", "same"}
Commits     == 0 .. MaxCommits
Gates       == [round : 0 .. MaxRounds + MaxMishaps, commit : Commits, retry : BOOLEAN,
                closed : BOOLEAN, verify : Answers, review : Answers, judge : Answers,
                evidence : SUBSET (Roles \X Commits)]

\* The kinds of every value, with the rounds and fix rounds within their
\* limits: a round beyond MAX_ROUNDS only restarts an interrupted one.
TypeOK ==
    /\ run \in [state : RunStates, branch : BOOLEAN, merge : Commits]
    /\ phase \in [Phases -> [state : PhaseStates, begun : {"no", "chosen", "yes"}, gate : Gates,
                             fixes : 0 .. FixRounds, verified : Commits]]
    /\ author \in Seq(Phases) /\ Len(author) <= MaxCommits
    /\ open \subseteq Phases
    /\ checkers \subseteq [phase : Phases, round : 1 .. MaxRounds + MaxMishaps,
                           role : Roles, commit : Commits]
    /\ posted \in Nat
    /\ jobs \subseteq [do : Work, phase : Phases \cup {0}, commit : Commits, flag : BOOLEAN]
    /\ ending \in {"no", "waiting", "settled", "posted"}
    /\ held \in BOOLEAN
    /\ mishaps \in 0 .. MaxMishaps

\* A verified phase was approved by a verifier, a reviewer and a judge, all
\* three on the very commit it is verified at, whatever landed, was checked
\* again or restarted in between (phase_member_result, verdict_of).
CheckedAsVerified ==
    \A p \in InState({"verified"}) : \A role \in Roles :
        <<role, phase[p].verified>> \in phase[p].gate.evidence

\* Up to the commit the user may merge there is no work of a phase that began
\* and was not verified (decide_phase: the merge point moves only while
\* everything before it is verified).
WorkCovered ==
    \A c \in 1 .. run.merge :
        phase[author[c]].begun = "yes" => phase[author[c]].state = "verified"

\* However often the ending is cut off, fails to note its report or is taken
\* up again, one report is posted, and a run one of whose phases was begun does
\* not finish without it (write_run_report, end_run).
OneReport ==
    /\ posted <= 1
    /\ run.state = "finished" =>
          posted = 1 \/ \A p \in Phases : phase[p].state \in {"pending", "skipped"}

\* A run that is ending ends, through restarts and failed reports, unless a
\* phase_done or a round of checks takes it back: FenceHolds (end_run,
\* resume_run, check_deadlines).
RunEnds == WindingDown /\ held ~> run.state = "finished" \/ ~held

\* wind_down.rs:3: "The fence comes first and is durable (the run is
\* `WindingDown`): no new phase, task, fix or retry starts."
FenceHolds ==
    [][WindingDown => run'.state \in {"windingDown", "reporting", "finished"}]_run
=============================================================================

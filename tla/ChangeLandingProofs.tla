-------------------------- MODULE ChangeLandingProofs --------------------------
(***************************************************************************)
(* Proofs about ChangeLanding: its types, and that whatever the            *)
(* orchestrator, the user, the worker and the daemon's restarts do, only   *)
(* a verified change lands, or one the user had land despite its checks.   *)
(*                                                                         *)
(* Then what holds while the orchestrator leaves a change Brigadier has in *)
(* hand alone (Patient): one job at a time works on it, and so what lands  *)
(* was judged, reviewed and allowed as it lands, lands once, leaves no     *)
(* checker behind, and is never left with nobody to move it on.            *)
(***************************************************************************)
EXTENDS ChangeLanding, TLAPS

(* A commit somebody answers for: a verifier passed it, or the user had it *)
(* land, or it is a clean replay of such a one.                            *)
VouchedBy(c, verdicts, touched) ==
    \E d \in verdicts : /\ d.work = c.work /\ d.onto <= c.onto
                        /\ \A k \in d.onto + 1 .. c.onto : k \notin touched

Vouched(c) == VouchedBy(c, verified \union overruled, overlaps)

(* What a job hands back is a state a task can be left in. *)
ProblemsTyped == \A j \in jobs : j.at = "problem" => j.arg \in {"Reported", "ReadyToLand"}

(* No commit was built on a tip the target does not have yet. *)
OntoTip ==
    /\ head.onto <= tip /\ task.candidate.onto <= tip /\ task.gate.commit.onto <= tip
    /\ override.onto <= tip
    /\ \A j \in jobs : j.commit.onto <= tip /\ j.gate.commit.onto <= tip
    /\ \A m \in members : m.commit.onto <= tip
    /\ \A d \in verified \union overruled : d.onto <= tip
    /\ \A c \in Landings : c.onto <= tip

(* A round that passed, or that the user overrode, is about a vouched      *)
(* commit; while it is open its checkers work on its commit, and once the  *)
(* verifier has reported, well so far means vouched.                       *)
RoundVouched ==
    LET gate == task.gate IN
    /\ gate.outcome = "passed" \/ gate.overridden => Vouched(gate.commit)
    /\ gate.outcome = "open" /\ ~gate.overridden =>
          /\ gate.worst # "none"
          /\ \A m \in members : m.round = gate.round => m.commit = gate.commit
          /\ gate.worst = "passed" => "verify" \in gate.left \/ Vouched(gate.commit)

(* While the gates lock is free no checker is ahead of the task's round;   *)
(* while it is held only those of the next round are.                      *)
RoundsInOrder ==
    \A m \in members : m.round <= task.gate.round + (IF gates = "held" THEN 1 ELSE 0)

(* The round that is opening is the next one, alone, and its checkers have *)
(* its commit and their reports ahead.                                     *)
Opening ==
    \A j \in jobs : j.at = "install" =>
        /\ gates = "held"
        /\ j.gate.round = task.gate.round + 1
        /\ j.gate.outcome = "open" /\ ~j.gate.overridden /\ j.gate.worst = "passed"
        /\ "verify" \in j.gate.left
        /\ \A m \in members : m.round = j.gate.round => m.commit = j.gate.commit
        /\ \A i \in jobs : i.at = "install" => i = j

(* What git is asked to land, and a clean replay of it, is vouched for. *)
JobsVouched ==
    \A j \in jobs : (j.at = "git" \/ (j.at = "replayed" /\ j.arg = "replay")) => Vouched(j.commit)

LandedVouched == \A c \in Landings : Vouched(c)

Inductive ==
    /\ TypeOK /\ ProblemsTyped /\ OntoTip
    /\ RoundVouched /\ RoundsInOrder /\ Opening /\ JobsVouched /\ LandedVouched

-----------------------------------------------------------------------------
(* Types.  What the model keeps in the task's record and in jobs stays in  *)
(* range, and a job that hands back names a state a task can be left in.   *)

Typed == TypeOK /\ ProblemsTyped

LEMMA NoneTyped == NoCommit \in CommitOrNone /\ NoGate \in Gate
  BY LandingAssumption, SMT DEF NoCommit, CommitOrNone, NoGate, Gate, Roles, Results

LEMMA TypedInit == Init => Typed
  <1> SUFFICES ASSUME Init PROVE Typed
    OBVIOUS
  <1> USE LandingAssumption, NoneTyped
  <1>1. task \in Task
    BY DEF Init, Task, Gate, CommitOrNone, NoCommit, Final
  <1>2. TypeOK
    BY <1>1 DEF Init, TypeOK
  <1>3. QED
    BY <1>2 DEF Init, Typed, ProblemsTyped

Used == [accepts : Nat, sendBacks : Nat, stops : Nat, restarts : Nat]
JobType == [at : Steps, gate : Gate, commit : CommitOrNone, arg : Args]

States == Final \union {"Running", "Reported", "Reviewing", "AwaitingApproval", "ReadyToLand"}

(* A task's record stays one, whichever field changes within its type. *)
LEMMA TaskTyped ==
  ASSUME NEW t \in Task
  PROVE  /\ t.gate \in Gate /\ t.candidate \in CommitOrNone /\ t.state \in States
         /\ t.report \in Nat /\ t.fixes \in Nat /\ t.landing \in BOOLEAN
         /\ t.escalated \in [round : 0 .. MaxRounds, commit : CommitOrNone]
         /\ \A s \in States : [t EXCEPT !.state = s] \in Task
         /\ \A n \in Nat : [t EXCEPT !.report = n] \in Task /\ [t EXCEPT !.fixes = n] \in Task
         /\ \A b \in BOOLEAN : [t EXCEPT !.landing = b] \in Task
         /\ \A c \in CommitOrNone : [t EXCEPT !.candidate = c] \in Task
         /\ \A g \in Gate : [t EXCEPT !.gate = g] \in Task
  BY DEF Task, States

LEMMA GateTyped ==
  ASSUME NEW g \in Gate
  PROVE  /\ g.round \in 0 .. MaxRounds /\ g.commit \in CommitOrNone /\ g.left \subseteq Roles
         /\ g.overridden \in BOOLEAN /\ g.relanding \in BOOLEAN
         /\ \A o \in Results \union {"none", "open", "superseded"} : [g EXCEPT !.outcome = o] \in Gate
         /\ \A c \in CommitOrNone : [g EXCEPT !.commit = c] \in Gate
         /\ \A b \in BOOLEAN : [g EXCEPT !.overridden = b] \in Gate
  BY DEF Gate

LEMMA TaskUpdated ==
  ASSUME NEW t \in Task, NEW s \in States
  PROVE  /\ [t EXCEPT !.state = s, !.landing = FALSE] \in Task
         /\ \A c \in CommitOrNone, n \in Nat :
               [t EXCEPT !.state = s, !.landing = TRUE, !.fixes = n, !.candidate = c] \in Task
         /\ \A c \in CommitOrNone : [t EXCEPT !.state = s, !.candidate = c] \in Task
         /\ \A g \in Gate : [t EXCEPT !.gate = g, !.state = s] \in Task
         /\ \A c \in CommitOrNone, g \in Gate : [t EXCEPT !.candidate = c, !.gate = g] \in Task
         /\ \A g \in Gate : [t EXCEPT !.state = s, !.landing = TRUE, !.gate = g] \in Task
         /\ \A c \in CommitOrNone, g \in Gate :
               [t EXCEPT !.state = s, !.landing = FALSE, !.candidate = c, !.gate = g] \in Task
  BY DEF Task, States

(* A job that replaces another is well typed when its parts are. *)
LEMMA JobTyped ==
  ASSUME NEW at \in Steps, NEW g \in Gate, NEW c \in CommitOrNone, NEW arg \in Args
  PROVE  Job(at, g, c, arg) \in JobType
  BY DEF Job, JobType

LEMMA JobUpdated ==
  ASSUME NEW j \in JobType, NEW at \in Steps, NEW c \in CommitOrNone, NEW arg \in Args, NEW g \in Gate
  PROVE  /\ j.gate \in Gate /\ j.commit \in CommitOrNone /\ j.at \in Steps /\ j.arg \in Args
         /\ LET k == [j EXCEPT !.at = at] IN k \in JobType /\ k.at = at
         /\ LET k == [j EXCEPT !.at = at, !.commit = c] IN k \in JobType /\ k.at = at
         /\ LET k == [j EXCEPT !.at = at, !.arg = arg] IN k \in JobType /\ k.at = at /\ k.arg = arg
         /\ LET k == [j EXCEPT !.at = at, !.gate = g] IN k \in JobType /\ k.at = at
         /\ LET k == [j EXCEPT !.at = at, !.gate = g, !.commit = c] IN k \in JobType /\ k.at = at
         /\ LET k == [j EXCEPT !.at = at, !.commit = c, !.arg = arg]
            IN k \in JobType /\ k.at = at /\ k.arg = arg
  BY DEF JobType

(* The types, taken apart. *)
LEMMA TypedParts ==
  Typed <=>
    /\ task \in Task /\ used \in Used /\ ask \in BOOLEAN
    /\ jobs \subseteq JobType /\ ProblemsTyped
    /\ work \in 1 .. MaxWork /\ head \in CommitOrNone /\ worktree \in BOOLEAN
    /\ tip \in Nat /\ overlaps \subseteq 1 .. tip /\ carried \in 0 .. MaxWork
    /\ landings \subseteq [commit : CommitOrNone, nr : Nat]
    /\ relays \subseteq Nat
    /\ members \subseteq [round : 1 .. MaxRounds, role : Roles, commit : CommitOrNone]
    /\ gates \in {"free", "held"} /\ stop \in {"none", "recorded"} /\ override \in CommitOrNone
    /\ UNION {reviewed, verified, allowed, overruled} \subseteq CommitOrNone
  BY Zenon DEF Typed, TypeOK, Used, JobType

(* One job more, or in place of another, keeps the jobs' types. *)
LEMMA JobsAdded ==
  ASSUME Typed, NEW new \in JobType, jobs' \subseteq jobs \union {new},
         new.at = "problem" => new.arg \in {"Reported", "ReadyToLand"}
  PROVE  jobs' \subseteq JobType /\ ProblemsTyped'
  BY TypedParts DEF ProblemsTyped

LEMMA JobsDropped ==
  ASSUME Typed, jobs' \subseteq jobs PROVE jobs' \subseteq JobType /\ ProblemsTyped'
  BY TypedParts DEF ProblemsTyped

LEMMA ProblemTyped ==
  ASSUME NEW j \in JobType, NEW to \in {"Reported", "ReadyToLand"}
  PROVE  Problem(j, to) \in JobType /\ Problem(j, to).at = "problem" /\ Problem(j, to).arg = to
  BY DEF JobType, Problem, Steps, Args

LEMMA TypedNext ==
  ASSUME task' \in Task, used' \in Used, ask' \in BOOLEAN,
         jobs' \subseteq JobType, ProblemsTyped',
         work' \in 1 .. MaxWork, head' \in CommitOrNone, worktree' \in BOOLEAN,
         tip' \in Nat, overlaps' \subseteq 1 .. tip', carried' \in 0 .. MaxWork,
         landings' \subseteq [commit : CommitOrNone, nr : Nat],
         relays' \subseteq Nat,
         members' \subseteq [round : 1 .. MaxRounds, role : Roles, commit : CommitOrNone],
         gates' \in {"free", "held"}, stop' \in {"none", "recorded"}, override' \in CommitOrNone,
         UNION {reviewed', verified', allowed', overruled'} \subseteq CommitOrNone
  PROVE  Typed'
  BY Zenon DEF Typed, TypeOK, Used, JobType

(* The steps of the worker, the orchestrator and the user keep the types. *)
LEMMA TypedEdits == ASSUME Typed, WorkerEdits PROVE Typed'
  BY LandingAssumption DEF Typed, TypeOK, WorkerEdits, ProblemsTyped, inputs, target, history

LEMMA TypedReports ==
  ASSUME Typed, NEW n \in BOOLEAN, WorkerReports(n) PROVE Typed'
  <1> DEFINE relanding == task.landing /\ ~n
  <1>1. relanding \in BOOLEAN /\ "Reported" \in States
    BY DEF States
  <1>2. task' = [task EXCEPT !.state = "Reported", !.report = @ + 1, !.landing = relanding]
    BY DEF WorkerReports
  <1>3. task' \in Task
    <2> DEFINE t == [task EXCEPT !.state = "Reported"]
               u == [t EXCEPT !.report = task.report + 1]
    <2> HIDE DEF relanding
    <2>1. t \in Task /\ task.report + 1 \in Nat
      BY <1>1, TypedParts, TaskTyped
    <2>2. u \in Task
      <3> HIDE DEF t
      <3> QED BY <2>1, TaskTyped
    <2>3. [u EXCEPT !.landing = relanding] \in Task
      <3> HIDE DEF u
      <3> QED BY <1>1, <2>2, TaskTyped
    <2> QED
      BY <1>2, <2>3
  <1>4. relays' \subseteq Nat
    BY TypedParts, TaskTyped DEF WorkerReports
  <1>5. UNCHANGED <<inputs, tree, target, jobs, gates, members, stop, override, history>>
    BY DEF WorkerReports
  <1> QED
    BY <1>3, <1>4, <1>5, TypedParts, TypedNext DEF ProblemsTyped, inputs, tree, target, history

LEMMA TypedAccept ==
  ASSUME Typed, Accept PROVE Typed'
  <1> USE LandingAssumption, NoneTyped
  <1>1. PICK s \in States, n \in Nat, c \in CommitOrNone :
           task' = [task EXCEPT !.state = s, !.landing = TRUE, !.fixes = n, !.candidate = c]
    BY TypedParts, TaskTyped DEF Accept, BeginLanding, States
  <1>2. task' \in Task
    BY <1>1, TypedParts, TaskUpdated
  <1>3. \/ jobs' = jobs \union {Job("land", task'.gate, NoCommit, "none")}
        \/ jobs' = jobs \union {Job("build", NoGate, NoCommit, "none")}
    BY DEF Accept, BeginLanding
  <1>4. jobs' \subseteq JobType /\ ProblemsTyped'
    <2>1. task'.gate \in Gate
      BY <1>2, TaskTyped
    <2>2. PICK new \in JobType : new.at # "problem" /\ jobs' = jobs \union {new}
      BY <1>3, <2>1 DEF JobType, Job, Steps, Args
    <2> QED
      BY <2>2, JobsAdded
  <1>5. used' \in Used
    BY TypedParts DEF Accept, Used
  <1>6. UNCHANGED <<ask, tree, target, relays, gates, members, stop, override, history>>
    BY DEF Accept
  <1> QED
    BY <1>2, <1>4, <1>5, <1>6, TypedParts, TypedNext DEF tree, target, history

LEMMA TypedOverrideRead ==
  ASSUME Typed, OverrideRead PROVE Typed'
  <1>1. used' \in Used /\ override' \in CommitOrNone
    BY TypedParts, TaskTyped DEF OverrideRead, Used
  <1>2. UNCHANGED <<task, ask, tree, target, jobs, relays, gates, members, stop, history>>
    BY DEF OverrideRead
  <1> QED
    BY <1>1, <1>2, TypedParts, TypedNext DEF ProblemsTyped, tree, target, history

LEMMA TypedOverrideStart ==
  ASSUME Typed, OverrideStart PROVE Typed'
  <1>1. [task.gate EXCEPT !.overridden = TRUE] \in Gate /\ override \in CommitOrNone
    BY TypedParts, TaskTyped, GateTyped
  <1>2. [task.gate EXCEPT !.overridden = TRUE, !.commit = override] \in Gate
    BY <1>1, GateTyped
  <1>3. task' = [task EXCEPT !.state = "Reviewing", !.landing = TRUE,
                   !.gate = [task.gate EXCEPT !.overridden = TRUE, !.commit = override]]
    BY TypedParts DEF OverrideStart, Task
  <1>4. task' \in Task
    BY <1>2, <1>3, TypedParts, TaskUpdated DEF States
  <1>5. jobs' = jobs \union {Job("approve", task'.gate, override, "none")}
    BY DEF OverrideStart
  <1>6. jobs' \subseteq JobType /\ ProblemsTyped'
    <2>1. task'.gate \in Gate
      BY <1>4, TaskTyped
    <2>2. PICK new \in JobType : new.at # "problem" /\ jobs' = jobs \union {new}
      BY <1>1, <1>5, <2>1 DEF JobType, Job, Steps, Args
    <2> QED
      BY <2>2, JobsAdded
  <1>7. override' \in CommitOrNone /\ overruled' \subseteq CommitOrNone
    BY <1>1, TypedParts, NoneTyped DEF OverrideStart
  <1>8. UNCHANGED <<inputs, tree, target, relays, gates, members, stop, reviewed, verified, allowed>>
    BY DEF OverrideStart
  <1> QED
    BY <1>4, <1>6, <1>7, <1>8, TypedParts, TypedNext DEF inputs, tree, target

LEMMA ReopenedTyped == Typed => Reopened \in Task
  BY TypedParts, TaskUpdated, NoneTyped DEF Reopened, States

LEMMA TypedSendBack ==
  ASSUME Typed, SendBack PROVE Typed'
  <1>1. task' \in Task /\ used' \in Used
    BY TypedParts, ReopenedTyped DEF SendBack, Used
  <1>2. UNCHANGED <<ask, tree, target, jobs, relays, gates, members, stop, override, history>>
    BY DEF SendBack
  <1> QED
    BY <1>1, <1>2, TypedParts, TypedNext DEF ProblemsTyped, tree, target, history

LEMMA DisposeTyped ==
  ASSUME Typed, NEW s \in Final, Dispose(s) PROVE task' \in Task /\ worktree' \in BOOLEAN
  <1>1. s \in States /\ task' = [task EXCEPT !.state = s, !.landing = FALSE] /\ worktree' = FALSE
    BY DEF Dispose, States
  <1> QED
    BY <1>1, TypedParts, TaskUpdated

LEMMA TypedStop ==
  ASSUME Typed, Stop PROVE Typed'
  <1>1. task' \in Task /\ worktree' \in BOOLEAN
    BY DisposeTyped DEF Stop, Final
  <1>2. used' \in Used /\ stop' = "recorded"
    BY TypedParts DEF Stop, Used
  <1>3. UNCHANGED <<ask, work, head, target, jobs, relays, gates, members, override, history>>
    BY DEF Stop
  <1> QED
    BY <1>1, <1>2, <1>3, TypedParts, TypedNext DEF ProblemsTyped, target, history

LEMMA TypedStopCloseGate ==
  ASSUME Typed, StopCloseGate PROVE Typed'
  <1>1. [task.gate EXCEPT !.outcome = "superseded"] \in Gate
    BY TypedParts, TaskTyped, GateTyped
  <1>2. task' \in Task
    BY <1>1, TypedParts, TaskTyped DEF StopCloseGate
  <1>3. members' \subseteq members /\ stop' = "none"
    BY DEF StopCloseGate, StopCheckers
  <1>4. UNCHANGED <<inputs, tree, target, jobs, relays, gates, override, history>>
    BY DEF StopCloseGate
  <1> QED
    BY <1>2, <1>3, <1>4, TypedParts, TypedNext DEF ProblemsTyped, inputs, tree, target, history

LEMMA TypedTargetMoves ==
  ASSUME Typed, NEW o \in BOOLEAN, TargetMoves(o) PROVE Typed'
  <1>1. tip' \in Nat /\ overlaps' \subseteq 1 .. tip'
    BY TypedParts DEF TargetMoves
  <1>2. UNCHANGED <<task, inputs, tree, carried, landings, jobs, relays, gates, members, stop,
                    override, history>>
    BY DEF TargetMoves
  <1> QED
    BY <1>1, <1>2, TypedParts, TypedNext DEF ProblemsTyped, inputs, tree, history

-----------------------------------------------------------------------------
(* Brigadier's jobs keep the types. *)

LEMMA TypedBuild ==
  ASSUME Typed, NEW j \in jobs, Build(j) PROVE Typed'
  <1> USE NoneTyped
  <1>1. j \in JobType
    BY TypedParts
  <1>2. [work |-> work, onto |-> tip] \in CommitOrNone
    BY TypedParts, LandingAssumption DEF CommitOrNone
  <1>3. head' \in CommitOrNone
    BY <1>2, TypedParts DEF Build
  <1>4. task' \in Task /\ worktree' \in BOOLEAN
    <2>1. CASE Dispose("Done")
      BY <2>1, DisposeTyped DEF Final
    <2> QED
      BY <2>1, TypedParts DEF Build
  <1>5. jobs' \subseteq JobType /\ ProblemsTyped'
    <2> DEFINE new == [j EXCEPT !.at = "built", !.commit = head']
    <2>1. new \in JobType /\ new.at = "built"
      BY <1>1, <1>3 DEF JobType, Steps
    <2>2. \/ Replace(j, {new}) \/ Replace(j, {}) \/ Replace(j, {Problem(j, "Reported")})
      BY DEF Build
    <2> HIDE DEF new
    <2> QED
      BY <1>1, <2>1, <2>2, ProblemTyped, JobsAdded, JobsDropped DEF Replace
  <1>6. UNCHANGED <<inputs, work, target, relays, gates, members, stop, override, history>>
    BY DEF Build
  <1> QED
    BY <1>3, <1>4, <1>5, <1>6, TypedParts, TypedNext DEF inputs, target, history

LEMMA TypedRecord ==
  ASSUME Typed, NEW j \in jobs, Record(j) PROVE Typed'
  <1>1. j \in JobType
    BY TypedParts
  <1>2. task' \in Task
    BY <1>1, TypedParts, TaskTyped DEF Record, JobType
  <1>3. jobs' \subseteq JobType /\ ProblemsTyped'
    <2> DEFINE new == [j EXCEPT !.at = "open", !.arg = "build"]
    <2>1. new \in JobType /\ new.at = "open" /\ Replace(j, {new})
      BY <1>1 DEF JobType, Steps, Args, Record
    <2> HIDE DEF new
    <2> QED
      BY <2>1, JobsAdded DEF Replace
  <1>4. UNCHANGED <<inputs, tree, target, relays, gates, members, stop, override, history>>
    BY DEF Record
  <1> QED
    BY <1>2, <1>3, <1>4, TypedParts, TypedNext DEF inputs, tree, target, history

LEMMA TypedOpen ==
  ASSUME Typed, NEW j \in jobs, Open(j) PROVE Typed'
  <1> DEFINE round == [NoGate EXCEPT
                    !.round = task.gate.round + 1, !.commit = task.candidate, !.outcome = "open",
                    !.left = Checkers(j.arg), !.worst = "passed",
                    !.relanding = Relanding(j.arg), !.retry = j.arg = "retry"]
             new == Job("install", round, round.commit, "none")
             started == {[round |-> round.round, role |-> r, commit |-> round.commit] :
                            r \in Checkers(j.arg)}
  <1>1. j \in JobType /\ Checkers(j.arg) \subseteq Roles
    BY TypedParts DEF Checkers, Roles
  <1>2. CASE ~(task.candidate = NoCommit \/ RoundsUsed \/ Unchanged)
    <2>1. task.gate.round + 1 \in 1 .. MaxRounds /\ task.candidate \in CommitOrNone
      BY <1>2, TypedParts, TaskTyped, GateTyped, LandingAssumption DEF RoundsUsed
    <2>2. Relanding(j.arg) \in BOOLEAN /\ (j.arg = "retry") \in BOOLEAN
      <3>1. task.gate.relanding \in BOOLEAN
        BY TypedParts, TaskTyped, GateTyped
      <3> QED
        BY <3>1, Zenon DEF Relanding
    <2>3. round \in Gate
      <3> DEFINE relanding == Relanding(j.arg)
                 retry == j.arg = "retry"
                 nr == task.gate.round + 1
                 left == Checkers(j.arg)
      <3>1. round = [NoGate EXCEPT
                    !.round = nr, !.commit = task.candidate, !.outcome = "open",
                    !.left = left, !.worst = "passed", !.relanding = relanding, !.retry = retry]
        OBVIOUS
      <3>2. relanding \in BOOLEAN /\ retry \in BOOLEAN
        BY <2>2
      <3>3. nr \in 0 .. MaxRounds /\ left \in SUBSET Roles
        BY <1>1, <2>1, LandingAssumption
      <3> HIDE DEF relanding, retry, round, nr, left
      <3> QED
        BY <2>1, <3>1, <3>2, <3>3, NoneTyped DEF Gate, Results
    <2>4. new \in JobType /\ new.at = "install"
      <3>1. round.commit = task.candidate
        BY DEF NoGate
      <3> HIDE DEF round
      <3> QED
        BY <2>1, <2>3, <3>1 DEF Job, JobType, Steps, Args
    <2>5. started \subseteq [round : 1 .. MaxRounds, role : Roles, commit : CommitOrNone]
      BY <1>1, <2>1 DEF NoGate
    <2>6. \/ gates' = "held" /\ members' = members \union started /\ Replace(j, {new})
          \/ Replace(j, {Problem(j, "Reported")}) /\ UNCHANGED <<gates, members>>
      BY <1>2 DEF Open
    <2>7. jobs' \subseteq JobType /\ ProblemsTyped'
      <3> HIDE DEF new, started
      <3> QED
        BY <1>1, <2>4, <2>6, ProblemTyped, JobsAdded DEF Replace
    <2>8. gates' \in {"free", "held"}
          /\ members' \subseteq [round : 1 .. MaxRounds, role : Roles, commit : CommitOrNone]
      <3> HIDE DEF new, started
      <3> QED
        BY <2>5, <2>6, TypedParts
    <2>9. UNCHANGED <<task, inputs, tree, target, relays, stop, override, history>>
      BY DEF Open
    <2> QED
      BY <2>7, <2>8, <2>9, TypedParts, TypedNext DEF inputs, tree, target, history
  <1>3. CASE task.candidate = NoCommit \/ RoundsUsed \/ Unchanged
    <2> DEFINE quiet == [j EXCEPT !.at = "escalate"]
    <2>1. quiet \in JobType /\ quiet.at = "escalate"
      BY <1>1 DEF JobType, Steps
    <2>2. \/ Replace(j, {Problem(j, "Reported")}) \/ Replace(j, {quiet})
          \/ Replace(j, {Problem(j, "ReadyToLand")}) \/ Replace(j, {})
      BY <1>3 DEF Open, NotOpened
    <2>3. jobs' \subseteq JobType /\ ProblemsTyped'
      <3> HIDE DEF quiet
      <3> QED
        BY <1>1, <2>1, <2>2, ProblemTyped, JobsAdded, JobsDropped DEF Replace
    <2>4. UNCHANGED <<task, inputs, tree, target, relays, gates, members, stop, override, history>>
      BY <1>3 DEF Open
    <2> QED
      BY <2>3, <2>4, TypedParts, TypedNext DEF inputs, tree, target, history
  <1> QED
    BY <1>2, <1>3

LEMMA TypedInstall ==
  ASSUME Typed, NEW j \in jobs, Install(j) PROVE Typed'
  <1>1. j \in JobType /\ j.gate \in Gate
    BY TypedParts DEF JobType
  <1>2. task' \in Task
    <2>1. [task EXCEPT !.gate = j.gate, !.state = "Reviewing"] \in Task
      BY <1>1, TypedParts, TaskUpdated DEF States
    <2> QED
      BY <2>1, TypedParts DEF Install
  <1>3. members' \subseteq members /\ gates' = "free" /\ jobs' \subseteq jobs
    BY DEF Install, StopCheckers, Replace
  <1>4. UNCHANGED <<inputs, tree, target, relays, stop, override, history>>
    BY DEF Install
  <1> QED
    BY <1>2, <1>3, <1>4, JobsDropped, TypedParts, TypedNext DEF inputs, tree, target, history

(* Steps that only move a job on: what it becomes is well typed. *)
LEMMA JobsMoved ==
  ASSUME Typed, NEW j \in jobs, NEW at \in Steps \ {"problem"}, Become(j, at)
  PROVE  jobs' \subseteq JobType /\ ProblemsTyped'
  <1> DEFINE new == [j EXCEPT !.at = at]
  <1>1. new \in JobType /\ new.at = at /\ Replace(j, {new})
    BY TypedParts DEF JobType, Become
  <1> HIDE DEF new
  <1> QED
    BY <1>1, JobsAdded DEF Replace

LEMMA TypedAct ==
  ASSUME Typed, NEW j \in jobs, Act(j) PROVE Typed'
  <1>1. j \in JobType
    BY TypedParts
  <1> DEFINE retried == [j EXCEPT !.at = "open", !.arg = "retry"]
  <1>2. retried \in JobType /\ retried.at = "open"
    BY <1>1 DEF JobType, Steps, Args
  <1>3. \/ Replace(j, {}) \/ Become(j, "land") \/ Become(j, "approve") \/ Become(j, "sendBack")
        \/ Replace(j, {retried})
        \/ Replace(j, {Problem(j, "ReadyToLand")}) \/ Replace(j, {Problem(j, "Reported")})
    BY DEF Act, Become
  <1>4. jobs' \subseteq JobType /\ ProblemsTyped'
    <2> HIDE DEF retried
    <2>1. CASE \E at \in {"land", "approve", "sendBack"} : Become(j, at)
      BY <2>1, JobsMoved DEF Steps
    <2>2. CASE Replace(j, {}) \/ Replace(j, {retried})
      BY <1>2, <2>2, JobsAdded, JobsDropped DEF Replace
    <2>3. CASE Replace(j, {Problem(j, "ReadyToLand")}) \/ Replace(j, {Problem(j, "Reported")})
      BY <1>1, <2>3, ProblemTyped, JobsAdded DEF Replace
    <2> QED
      BY <1>3, <2>1, <2>2, <2>3
  <1>5. UNCHANGED <<task, inputs, tree, target, relays, gates, members, stop, override, history>>
    BY DEF Act
  <1> QED
    BY <1>4, <1>5, TypedParts, TypedNext DEF inputs, tree, target, history

LEMMA TypedStartFix ==
  ASSUME Typed, NEW j \in jobs, StartFix(j) PROVE Typed'
  <1>1. task' \in Task
    <2>1. task.fixes + 1 \in Nat
      BY TypedParts, TaskTyped
    <2>2. [task EXCEPT !.fixes = task.fixes + 1] \in Task
      BY <2>1, TypedParts, TaskTyped
    <2> QED
      BY <2>2, TypedParts DEF StartFix
  <1>2. Become(j, "escalate") \/ Become(j, "fix")
    BY DEF StartFix
  <1>3. jobs' \subseteq JobType /\ ProblemsTyped'
    BY <1>2, JobsMoved DEF Steps
  <1>4. UNCHANGED <<inputs, tree, target, relays, gates, members, stop, override, history>>
    BY DEF StartFix
  <1> QED
    BY <1>1, <1>3, <1>4, TypedParts, TypedNext DEF inputs, tree, target, history

LEMMA TypedFix ==
  ASSUME Typed, NEW j \in jobs, Fix(j) PROVE Typed'
  <1>1. task' \in Task
    BY TypedParts, ReopenedTyped DEF Fix
  <1>2. Become(j, "escalate") \/ Replace(j, {})
    BY DEF Fix
  <1>3. jobs' \subseteq JobType /\ ProblemsTyped'
    BY <1>2, JobsMoved, JobsDropped DEF Steps, Replace
  <1>4. UNCHANGED <<inputs, tree, target, relays, gates, members, stop, override, history>>
    BY DEF Fix
  <1> QED
    BY <1>1, <1>3, <1>4, TypedParts, TypedNext DEF inputs, tree, target, history

LEMMA TypedEscalate ==
  ASSUME Typed, NEW j \in jobs, Escalate(j) PROVE Typed'
  <1>1. task' \in Task
    BY TypedParts, TaskUpdated DEF Escalate, States
  <1>2. jobs' \subseteq JobType /\ ProblemsTyped'
    <2> DEFINE new == [j EXCEPT !.at = "escalated", !.gate = task.gate, !.commit = task.candidate]
    <2>1. new \in JobType /\ new.at = "escalated" /\ Replace(j, {new})
      BY TypedParts, TaskTyped DEF JobType, Steps, Escalate
    <2> HIDE DEF new
    <2> QED
      BY <2>1, JobsAdded DEF Replace
  <1>3. UNCHANGED <<inputs, tree, target, relays, gates, members, stop, override, history>>
    BY DEF Escalate
  <1> QED
    BY <1>1, <1>2, <1>3, TypedParts, TypedNext DEF inputs, tree, target, history

LEMMA TypedEscalated ==
  ASSUME Typed, NEW j \in jobs, Escalated(j) PROVE Typed'
  <1>1. [round |-> j.gate.round, commit |-> j.commit] \in [round : 0 .. MaxRounds, commit : CommitOrNone]
    BY TypedParts, GateTyped DEF JobType
  <1>2. task' \in Task
    BY <1>1, TypedParts DEF Escalated, Task
  <1>3. jobs' \subseteq jobs
    BY DEF Escalated, Replace
  <1>4. UNCHANGED <<inputs, tree, target, relays, gates, members, stop, override, history>>
    BY DEF Escalated
  <1> QED
    BY <1>2, <1>3, <1>4, JobsDropped, TypedParts, TypedNext DEF inputs, tree, target, history

LEMMA TypedApprove ==
  ASSUME Typed, NEW j \in jobs, Approve(j) PROVE Typed'
  <1>1. task' \in Task
    BY TypedParts, TaskTyped DEF Approve, States
  <1>2. Become(j, "card") \/ Become(j, "land")
    BY DEF Approve
  <1>3. jobs' \subseteq JobType /\ ProblemsTyped'
    BY <1>2, JobsMoved DEF Steps
  <1>4. UNCHANGED <<inputs, tree, target, relays, gates, members, stop, override, history>>
    BY DEF Approve
  <1> QED
    BY <1>1, <1>3, <1>4, TypedParts, TypedNext DEF inputs, tree, target, history

LEMMA TypedAnswer ==
  ASSUME Typed, NEW j \in jobs, NEW answer \in {"allow", "deny", "withdrawn"}, Answer(j, answer)
  PROVE  Typed'
  <1>1. jobs' \subseteq JobType /\ ProblemsTyped'
    <2> DEFINE new == [j EXCEPT !.at = "answered", !.arg = answer]
    <2>1. new \in JobType /\ new.at = "answered" /\ Replace(j, {new})
      BY TypedParts DEF JobType, Steps, Args, Answer
    <2> HIDE DEF new
    <2> QED
      BY <2>1, JobsAdded DEF Replace
  <1>2. allowed' \subseteq CommitOrNone
    BY TypedParts, GateTyped DEF Answer, JobType
  <1>3. UNCHANGED <<task, inputs, tree, target, relays, gates, members, stop, override,
                    reviewed, verified, overruled>>
    BY DEF Answer
  <1> QED
    BY <1>1, <1>2, <1>3, TypedParts, TypedNext DEF inputs, tree, target

LEMMA TypedAnswered ==
  ASSUME Typed, NEW j \in jobs, Answered(j) PROVE Typed'
  <1>1. Replace(j, {}) \/ Become(j, "land") \/ Replace(j, {Problem(j, "Reported")})
    BY DEF Answered, Become
  <1>2. jobs' \subseteq JobType /\ ProblemsTyped'
    BY <1>1, TypedParts, JobsMoved, ProblemTyped, JobsAdded, JobsDropped DEF Steps, Replace
  <1>3. UNCHANGED <<task, inputs, tree, target, relays, gates, members, stop, override, history>>
    BY DEF Answered
  <1> QED
    BY <1>2, <1>3, TypedParts, TypedNext DEF inputs, tree, target, history

LEMMA TypedLand ==
  ASSUME Typed, NEW j \in jobs, Land(j) PROVE Typed'
  <1> DEFINE new == [j EXCEPT !.at = "git", !.commit = task.candidate]
  <1>1. new \in JobType /\ new.at = "git"
    BY TypedParts, TaskTyped DEF JobType, Steps
  <1>2. Replace(j, {}) \/ Replace(j, {new}) \/ Replace(j, {Problem(j, "Reported")})
    BY DEF Land
  <1>3. jobs' \subseteq JobType /\ ProblemsTyped'
    <2> HIDE DEF new
    <2> QED
      BY <1>1, <1>2, TypedParts, ProblemTyped, JobsAdded, JobsDropped DEF Replace
  <1>4. UNCHANGED <<task, inputs, tree, target, relays, gates, members, stop, override, history>>
    BY DEF Land
  <1> QED
    BY <1>3, <1>4, TypedParts, TypedNext DEF inputs, tree, target, history

LEMMA TypedGitLands ==
  ASSUME Typed, NEW j \in jobs, GitLands(j) PROVE Typed'
  <1>1. j.commit \in CommitOrNone /\ j.commit.work \in 0 .. MaxWork
    BY TypedParts DEF JobType, CommitOrNone
  <1>2. tip' \in Nat /\ overlaps' \subseteq 1 .. tip' /\ carried' \in 0 .. MaxWork
    BY <1>1, TypedParts DEF GitLands
  <1>3. landings' \subseteq [commit : CommitOrNone, nr : Nat]
    <2>1. [commit |-> j.commit, nr |-> tip + 1] \in [commit : CommitOrNone, nr : Nat]
      BY <1>1, TypedParts
    <2> QED
      BY <2>1, TypedParts DEF GitLands
  <1>4. Become(j, "landed") \/ Replace(j, {Problem(j, "ReadyToLand")})
    BY DEF GitLands
  <1>5. jobs' \subseteq JobType /\ ProblemsTyped'
    BY <1>4, TypedParts, JobsMoved, ProblemTyped, JobsAdded DEF Steps, Replace
  <1>6. UNCHANGED <<task, inputs, tree, relays, gates, members, stop, override, history>>
    BY DEF GitLands
  <1> QED
    BY <1>2, <1>3, <1>5, <1>6, TypedParts, TypedNext DEF inputs, tree, history

LEMMA TypedReplay ==
  ASSUME Typed, NEW j \in jobs, Replay(j) PROVE Typed'
  <1> DEFINE onto == [j.commit EXCEPT !.onto = tip]
             arg == IF Clean(j.commit.onto, tip) THEN "replay" ELSE "overlap"
             new == [j EXCEPT !.at = "replayed", !.commit = onto, !.arg = arg]
  <1>1. onto \in CommitOrNone /\ arg \in Args
    BY TypedParts DEF JobType, CommitOrNone, Args
  <1>2. new \in JobType /\ new.at = "replayed"
    <2> HIDE DEF onto, arg
    <2> QED
      BY <1>1, TypedParts DEF JobType, Steps
  <1>3. \/ head' = onto /\ Replace(j, {new})
        \/ UNCHANGED head /\ Replace(j, {Problem(j, "Reported")})
    BY DEF Replay
  <1>4. head' \in CommitOrNone /\ jobs' \subseteq JobType /\ ProblemsTyped'
    <2> HIDE DEF new, onto
    <2> QED
      BY <1>1, <1>2, <1>3, TypedParts, ProblemTyped, JobsAdded DEF Replace
  <1>5. UNCHANGED <<task, inputs, work, worktree, target, relays, gates, members, stop, override, history>>
    BY DEF Replay
  <1> QED
    BY <1>4, <1>5, TypedParts, TypedNext DEF inputs, target, history

LEMMA TypedReplayed ==
  ASSUME Typed, NEW j \in jobs, Replayed(j) PROVE Typed'
  <1> DEFINE cand == IF task.candidate = NoCommit THEN task.candidate ELSE j.commit
             replaced == [task EXCEPT !.candidate = cand]
             gate == [task.gate EXCEPT !.commit = j.commit]
  <1>1. j \in JobType /\ j.commit \in CommitOrNone /\ cand \in CommitOrNone /\ gate \in Gate
    BY TypedParts, TaskTyped, GateTyped DEF JobType
  <1>2. replaced \in Task /\ [replaced EXCEPT !.gate = gate] \in Task
    <2>1. replaced \in Task
      BY <1>1, TypedParts, TaskTyped
    <2> HIDE DEF replaced, gate
    <2> QED
      BY <1>1, <2>1, TaskTyped
  <1>3. \/ task' = [replaced EXCEPT !.gate = gate] /\ Replace(j, {[j EXCEPT !.at = "land", !.gate = task'.gate]})
        \/ task' = replaced /\ Become(j, "open")
    <2>1. replaced.gate = task.gate
      BY TypedParts DEF Task
    <2> QED
      BY <2>1 DEF Replayed
  <1>4. task' \in Task
    BY <1>2, <1>3
  <1> DEFINE new == [j EXCEPT !.at = "land", !.gate = task'.gate]
  <1>5. new \in JobType /\ new.at = "land"
    BY <1>1, <1>4, TaskTyped DEF JobType, Steps
  <1>6. jobs' \subseteq JobType /\ ProblemsTyped'
    <2>1. Replace(j, {new}) \/ Become(j, "open")
      BY <1>3
    <2> HIDE DEF new
    <2> QED
      BY <1>5, <2>1, JobsMoved, JobsAdded DEF Steps, Replace
  <1>7. UNCHANGED <<inputs, tree, target, relays, gates, members, stop, override, history>>
    BY DEF Replayed
  <1> QED
    BY <1>4, <1>6, <1>7, TypedParts, TypedNext DEF inputs, tree, target, history

LEMMA TypedLanded ==
  ASSUME Typed, NEW j \in jobs, Landed(j) PROVE Typed'
  <1>1. task' \in Task /\ worktree' \in BOOLEAN
    BY DisposeTyped DEF Landed, Final
  <1>2. jobs' \subseteq jobs
    BY DEF Landed, Replace
  <1>3. UNCHANGED <<inputs, work, head, target, relays, gates, members, stop, override, history>>
    BY DEF Landed
  <1> QED
    BY <1>1, <1>2, <1>3, JobsDropped, TypedParts, TypedNext DEF inputs, target, history

LEMMA TypedHandBack ==
  ASSUME Typed, NEW j \in jobs, HandBack(j) PROVE Typed'
  <1>1. j.arg \in States
    BY TypedParts DEF HandBack, ProblemsTyped, States
  <1>2. task' \in Task
    BY <1>1, TypedParts, TaskUpdated DEF HandBack
  <1>3. jobs' \subseteq jobs
    BY DEF HandBack, Replace
  <1>4. UNCHANGED <<inputs, tree, target, relays, gates, members, stop, override, history>>
    BY DEF HandBack
  <1> QED
    BY <1>2, <1>3, <1>4, JobsDropped, TypedParts, TypedNext DEF inputs, tree, target, history

-----------------------------------------------------------------------------
(* The checkers, the fixes that land by themselves and the restart.        *)

LEMMA WorseTyped ==
  ASSUME NEW a \in Results \union {"none"}, NEW b \in Results
  PROVE  Worse(a, b) \in Results
         /\ (Worse(a, b) = "passed" => a \in {"passed", "none"} /\ b = "passed")
  BY DEF Worse, Results

LEMMA TypedMemberReports ==
  ASSUME Typed, NEW m \in members, NEW result \in Results, MemberReports(m, result) PROVE Typed'
  <1> DEFINE worst == Worse(task.gate.worst, result)
             all   == task.gate.left = {m.role}
             gate  == [task.gate EXCEPT !.left = @ \ {m.role},
                                        !.worst = IF all THEN "none" ELSE worst,
                                        !.outcome = IF all THEN worst ELSE @]
             again == IF task.landing /\ task.fixes < FixRounds THEN "again" ELSE "decide"
             new == Job("act", gate, NoCommit, again)
  <1>1. task.gate \in Gate /\ task.gate.worst \in Results \union {"none"}
    BY TypedParts, TaskTyped DEF Gate
  <1>2. worst \in Results
    BY <1>1, WorseTyped
  <1>3. gate \in Gate
    <2> HIDE DEF worst, all
    <2> QED
      BY <1>1, <1>2 DEF Gate
  <1>4. new \in JobType /\ new.at = "act"
    <2>1. again \in Args
      BY DEF Args
    <2> HIDE DEF again, gate
    <2> QED
      BY <1>3, <2>1, NoneTyped DEF Job, JobType, Steps
  <1>5. \/ task' = [task EXCEPT !.gate = gate] /\ jobs' \subseteq jobs \union {new}
        \/ UNCHANGED <<task, jobs>>
    BY DEF MemberReports
  <1>6. task' \in Task
    <2> HIDE DEF gate, new
    <2> QED
      BY <1>3, <1>5, TypedParts, TaskTyped
  <1>7. jobs' \subseteq JobType /\ ProblemsTyped'
    <2> HIDE DEF gate, new
    <2> QED
      BY <1>4, <1>5, JobsAdded, JobsDropped
  <1>8. members' \subseteq members
        /\ UNION {reviewed', verified', allowed', overruled'} \subseteq CommitOrNone
    <2>1. m.commit \in CommitOrNone
      BY TypedParts
    <2> QED
      BY <2>1, TypedParts DEF MemberReports
  <1>9. UNCHANGED <<inputs, tree, target, relays, gates, stop, override>>
    BY DEF MemberReports
  <1> QED
    BY <1>6, <1>7, <1>8, <1>9, TypedParts, TypedNext DEF inputs, tree, target

LEMMA TypedRelay ==
  ASSUME Typed, NEW r \in relays, Relay(r) PROVE Typed'
  <1>1. ASSUME BeginLanding(FALSE)
        PROVE  task' \in Task /\ jobs' \subseteq JobType /\ ProblemsTyped'
    <2>1. PICK c \in CommitOrNone :
             task' = [task EXCEPT !.state = "Reviewing", !.landing = TRUE, !.fixes = @, !.candidate = c]
      BY <1>1, TypedParts, TaskTyped, NoneTyped DEF BeginLanding
    <2>2. task' \in Task
      BY <2>1, TypedParts, TaskTyped, TaskUpdated DEF States
    <2>3. \/ jobs' = jobs \union {Job("land", task'.gate, NoCommit, "none")}
          \/ jobs' = jobs \union {Job("build", NoGate, NoCommit, "none")}
      BY <1>1 DEF BeginLanding
    <2>4. PICK new \in JobType : new.at # "problem" /\ jobs' = jobs \union {new}
      BY <2>2, <2>3, TaskTyped, NoneTyped DEF JobType, Job, Steps, Args
    <2> QED
      BY <2>2, <2>4, JobsAdded
  <1>2. task' \in Task /\ jobs' \subseteq JobType /\ ProblemsTyped'
    BY <1>1, TypedParts, JobsDropped DEF Relay
  <1>3. relays' \subseteq relays
    BY DEF Relay
  <1>4. UNCHANGED <<inputs, tree, target, gates, members, stop, override, history>>
    BY DEF Relay
  <1> QED
    BY <1>2, <1>3, <1>4, TypedParts, TypedNext DEF inputs, tree, target, history

LEMMA TypedRestart ==
  ASSUME Typed, Restart PROVE Typed'
  <1> DEFINE gate == [task.gate EXCEPT !.outcome = IF @ = "open" THEN "superseded" ELSE @]
  <1>1. gate \in Gate
    BY TypedParts, TaskTyped DEF Gate
  <1>2. \/ task' = [task EXCEPT !.state = "Reported", !.landing = FALSE]
        \/ task' = [task EXCEPT !.state = "Reported", !.landing = FALSE, !.candidate = NoCommit, !.gate = gate]
        \/ task' = [task EXCEPT !.state = "Stopped"]
        \/ task' = task
    BY DEF Restart
  <1>3. task' \in Task
    <2> HIDE DEF gate
    <2>1. "Reported" \in States /\ "Stopped" \in States
      BY DEF States, Final
    <2>2. /\ [task EXCEPT !.state = "Reported", !.landing = FALSE] \in Task
          /\ [task EXCEPT !.state = "Reported", !.landing = FALSE, !.candidate = NoCommit, !.gate = gate] \in Task
          /\ [task EXCEPT !.state = "Stopped"] \in Task
      BY <1>1, <2>1, TypedParts, TaskTyped, TaskUpdated, NoneTyped
    <2> QED
      BY <1>2, <2>2, TypedParts
  <1>4. used' \in Used /\ worktree' \in BOOLEAN
    <2>1. used' = [used EXCEPT !.restarts = @ + 1]
      BY DEF Restart
    <2>2. worktree' = worktree \/ worktree' = FALSE
      BY DEF Restart
    <2>3. used' \in Used
      BY <2>1, TypedParts DEF Used
    <2>4. worktree' \in BOOLEAN
      BY <2>2, TypedParts
    <2> QED
      BY <2>3, <2>4
  <1>5. /\ jobs' = {} /\ relays' = {} /\ members' = {}
        /\ gates' = "free" /\ stop' = "none" /\ override' = NoCommit
        /\ UNCHANGED <<ask, work, head, target, history>>
    BY DEF Restart
  <1> QED
    BY <1>3, <1>4, <1>5, NoneTyped, JobsDropped, TypedParts, TypedNext DEF target, history

(* Every step keeps the types. *)
LEMMA TypedStep == Typed /\ [Next]_vars => Typed'
  <1> SUFFICES ASSUME Typed, [Next]_vars PROVE Typed'
    OBVIOUS
  <1>1. CASE UNCHANGED vars
    BY <1>1 DEF Typed, TypeOK, ProblemsTyped, vars, inputs, tree, target, history
  <1>2. CASE \E j \in jobs : JobSteps(j) \/ \E a \in {"allow", "deny", "withdrawn"} : Answer(j, a)
    BY <1>2, TypedBuild, TypedRecord, TypedOpen, TypedInstall, TypedAct, TypedStartFix, TypedFix,
       TypedEscalate, TypedEscalated, TypedApprove, TypedAnswer, TypedAnswered, TypedLand,
       TypedGitLands, TypedReplay, TypedReplayed, TypedLanded, TypedHandBack, Zenon DEF JobSteps
  <1>3. CASE \E m \in members, r \in Results : MemberReports(m, r)
    BY <1>3, TypedMemberReports
  <1>4. CASE \E r \in relays : Relay(r)
    BY <1>4, TypedRelay
  <1> QED
    BY <1>1, <1>2, <1>3, <1>4, TypedEdits, TypedReports, TypedAccept, TypedOverrideRead,
       TypedOverrideStart, TypedSendBack, TypedStop, TypedStopCloseGate, TypedTargetMoves,
       TypedRestart, Zenon DEF Next

(* The task's record, the jobs and the rounds stay within their types, and *)
(* no task is checked more often than MAX_ROUNDS allows.                   *)
THEOREM TypesAreKept == Spec => []TypeOK
  <1>1. Typed => TypeOK
    BY DEF Typed
  <1> QED
    BY <1>1, TypedInit, TypedStep, PTL DEF Spec

-----------------------------------------------------------------------------
(* Only what is vouched for lands.  A step keeps what was vouched for:     *)
(* verdicts are only added, and the target's commits that touch the files  *)
(* only lie ahead.                                                         *)

VerdictsKept ==
    /\ verified \subseteq verified' /\ overruled \subseteq overruled'
    /\ overlaps' \subseteq overlaps \union {tip + 1}

LEMMA VouchedKept ==
  ASSUME Typed, VerdictsKept, NEW c \in CommitOrNone, c.onto <= tip, Vouched(c)
  PROVE  VouchedBy(c, verified' \union overruled', overlaps')
  <1>1. PICK d \in verified \union overruled :
           /\ d.work = c.work /\ d.onto <= c.onto
           /\ \A k \in d.onto + 1 .. c.onto : k \notin overlaps
    BY DEF Vouched, VouchedBy
  <1>2. d \in CommitOrNone /\ d.onto \in Nat /\ c.onto \in Nat /\ tip \in Nat
    BY TypedParts DEF CommitOrNone
  <1>3. \A k \in d.onto + 1 .. c.onto : k \notin overlaps'
    BY <1>1, <1>2 DEF VerdictsKept
  <1>4. d \in verified' \union overruled'
    BY DEF VerdictsKept
  <1> QED
    BY <1>1, <1>3, <1>4 DEF VouchedBy

(* A clean replay of what is vouched for is vouched for. *)
LEMMA CleanReplay ==
  ASSUME Typed, NEW c \in CommitOrNone, NEW to \in Nat, c.onto <= to, Clean(c.onto, to), Vouched(c)
  PROVE  Vouched([c EXCEPT !.onto = to])
  <1>1. PICK d \in verified \union overruled :
           /\ d.work = c.work /\ d.onto <= c.onto
           /\ \A k \in d.onto + 1 .. c.onto : k \notin overlaps
    BY DEF Vouched, VouchedBy
  <1>2. d \in CommitOrNone /\ d.onto \in Nat /\ c.onto \in Nat
    BY TypedParts DEF CommitOrNone
  <1>3. [c EXCEPT !.onto = to].onto = to /\ [c EXCEPT !.onto = to].work = c.work
    BY DEF CommitOrNone
  <1>4. \A k \in d.onto + 1 .. to : k \notin overlaps
    BY <1>1, <1>2 DEF Clean
  <1>5. d.onto <= to
    BY <1>1, <1>2
  <1> QED
    BY <1>1, <1>3, <1>4, <1>5 DEF Vouched, VouchedBy

LEMMA VouchedItself ==
  ASSUME NEW c \in CommitOrNone, NEW verdicts, c \in verdicts, NEW touched
  PROVE  VouchedBy(c, verdicts, touched)
  BY DEF VouchedBy, CommitOrNone

(* A round that does not change, or is superseded, stays vouched for.      *)
LEMMA SameRound ==
  ASSUME Typed, OntoTip, RoundVouched, VerdictsKept, members' \subseteq members,
         \/ task'.gate = task.gate
         \/ task'.gate = [task.gate EXCEPT !.outcome = "superseded"]
  PROVE  RoundVouched'
  <1> DEFINE gate == task.gate
             next == task'.gate
  <1>1. /\ next.commit = gate.commit /\ next.worst = gate.worst /\ next.left = gate.left
        /\ next.round = gate.round /\ next.overridden = gate.overridden
        /\ next.outcome = gate.outcome \/ next.outcome = "superseded"
    BY TypedParts, TaskTyped DEF Gate
  <1>2. gate.commit \in CommitOrNone /\ gate.commit.onto <= tip
    BY TypedParts, TaskTyped, GateTyped DEF OntoTip
  <1>3. Vouched(gate.commit) => VouchedBy(gate.commit, verified' \union overruled', overlaps')
    BY <1>2, VouchedKept
  <1>4. Vouched(gate.commit) => VouchedBy(next.commit, verified' \union overruled', overlaps')
    BY <1>1, <1>3
  <1> QED
    BY <1>1, <1>4 DEF RoundVouched, Vouched

LEMMA InductiveParts ==
  Inductive <=> /\ Typed /\ OntoTip /\ RoundVouched /\ RoundsInOrder
                /\ Opening /\ JobsVouched /\ LandedVouched
  BY Zenon DEF Inductive, Typed

(* The commits a step brings were built on the target's tip or before. *)
CommitsBehind ==
    /\ head'.onto <= tip' /\ task'.candidate.onto <= tip' /\ task'.gate.commit.onto <= tip'
    /\ override'.onto <= tip'
    /\ \A d \in verified' \union overruled' : d \in verified \union overruled \/ d.onto <= tip'

(* What a step makes of a job is no opening round, and what it hands to git *)
(* or replays is vouched for.                                              *)
JobsFollow ==
    \A k \in jobs' : k \in jobs \/
        /\ k.at # "install" /\ k.commit.onto <= tip' /\ k.gate.commit.onto <= tip'
        /\ (k.at = "git" \/ (k.at = "replayed" /\ k.arg = "replay")) =>
               k.commit.onto <= tip /\ Vouched(k.commit)

(* What a step lands is vouched for. *)
LandsVouched ==
    \A l \in landings' : l \in landings \/ (l.commit.onto <= tip /\ Vouched(l.commit))

(* A step that opens no round keeps the invariant, if it keeps the task's  *)
(* round vouched for, and brings and lands only what is.                   *)
LEMMA Framed ==
  ASSUME Inductive, Typed', VerdictsKept, tip <= tip', CommitsBehind, JobsFollow, LandsVouched,
         RoundVouched', task'.gate.round = task.gate.round, gates' = gates, members' \subseteq members
  PROVE  Inductive'
  <1>1. Typed /\ OntoTip /\ RoundsInOrder /\ Opening /\ JobsVouched /\ LandedVouched
    BY InductiveParts
  <1>2. tip \in Nat /\ tip' \in Nat
    BY <1>1, TypedParts DEF Typed, TypeOK
  <1>3. \A c \in CommitOrNone : c.onto \in Nat
    BY DEF CommitOrNone
  <1>4. \A c \in CommitOrNone : c.onto <= tip /\ Vouched(c)
                                 => VouchedBy(c, verified' \union overruled', overlaps')
    BY <1>1, VouchedKept
  <1>5. OntoTip'
    <2>1. \A j \in jobs' : j.commit.onto <= tip' /\ j.gate.commit.onto <= tip'
      <3> TAKE j \in jobs'
      <3>1. CASE j \in jobs
        <4>1. j.commit \in CommitOrNone /\ j.gate.commit \in CommitOrNone
          BY <1>1, <3>1, TypedParts, GateTyped DEF JobType
        <4> QED
          BY <1>1, <1>2, <1>3, <3>1, <4>1 DEF OntoTip
      <3>2. CASE j \notin jobs
        BY <3>2 DEF JobsFollow
      <3> QED
        BY <3>1, <3>2
    <2>2. \A m \in members' : m.commit.onto <= tip'
      <3> TAKE m \in members'
      <3>1. m.commit \in CommitOrNone /\ m \in members
        BY <1>1, TypedParts
      <3> QED
        BY <1>1, <1>2, <1>3, <3>1 DEF OntoTip
    <2>3. \A d \in verified' \union overruled' : d.onto <= tip'
      <3> TAKE d \in verified' \union overruled'
      <3>1. CASE d \in verified \union overruled
        <4>1. d \in CommitOrNone
          BY <1>1, <3>1, TypedParts
        <4> QED
          BY <1>1, <1>2, <1>3, <3>1, <4>1 DEF OntoTip
      <3> QED
        BY <3>1 DEF CommitsBehind
    <2>4. \A c \in Landings' : c.onto <= tip'
      <3> TAKE c \in Landings'
      <3>1. PICK l \in landings' : c = l.commit
        BY DEF Landings
      <3>2. l.commit \in CommitOrNone
        BY <3>1 DEF Typed, TypeOK
      <3>3. CASE l \in landings
        BY <1>1, <1>2, <1>3, <3>1, <3>2, <3>3 DEF OntoTip, Landings
      <3>4. CASE l \notin landings
        BY <1>2, <1>3, <3>1, <3>2, <3>4 DEF LandsVouched
      <3> QED
        BY <3>3, <3>4
    <2> QED
      BY <2>1, <2>2, <2>3, <2>4 DEF OntoTip, CommitsBehind
  <1>6. RoundsInOrder'
    BY <1>1 DEF RoundsInOrder
  <1>7. Opening'
    BY <1>1 DEF Opening, JobsFollow
  <1>8. JobsVouched'
    <2> SUFFICES ASSUME NEW j \in jobs', j.at = "git" \/ (j.at = "replayed" /\ j.arg = "replay")
                 PROVE  VouchedBy(j.commit, verified' \union overruled', overlaps')
      BY DEF JobsVouched, Vouched
    <2>1. j.commit \in CommitOrNone
      BY DEF Typed, TypeOK
    <2>2. j.commit.onto <= tip /\ Vouched(j.commit)
      BY <1>1 DEF JobsFollow, JobsVouched, OntoTip
    <2> QED
      BY <1>4, <2>1, <2>2
  <1>9. LandedVouched'
    <2> SUFFICES ASSUME NEW l \in landings'
                 PROVE  VouchedBy(l.commit, verified' \union overruled', overlaps')
      BY DEF LandedVouched, Landings, Vouched
    <2>1. l.commit \in CommitOrNone
      BY DEF Typed, TypeOK
    <2>2. l.commit.onto <= tip /\ Vouched(l.commit)
      BY <1>1 DEF LandsVouched, LandedVouched, OntoTip, Landings
    <2> QED
      BY <1>4, <2>1, <2>2
  <1>10. TypeOK' /\ ProblemsTyped'
    BY DEF Typed
  <1> QED
    BY <1>5, <1>6, <1>7, <1>8, <1>9, <1>10 DEF Inductive

Undisturbed == UNCHANGED <<tip, overlaps, landings, verified, overruled>>

(* The same for a step that leaves the target and the verdicts alone.      *)
LEMMA Quiet ==
  ASSUME Inductive, Typed', Undisturbed, gates' = gates, members' \subseteq members, JobsFollow,
         \/ task'.gate = task.gate
         \/ task'.gate = [task.gate EXCEPT !.outcome = "superseded"],
         head'.onto <= tip, task'.candidate.onto <= tip, override'.onto <= tip
  PROVE  Inductive'
  <1>1. Typed /\ OntoTip /\ RoundVouched
    BY InductiveParts
  <1>2. VerdictsKept /\ LandsVouched
    BY DEF Undisturbed, VerdictsKept, LandsVouched
  <1>3. tip' = tip /\ tip \in Nat
    BY <1>1, TypedParts DEF Undisturbed
  <1>4. RoundVouched'
    BY <1>1, <1>2, SameRound
  <1>5. task'.gate.round = task.gate.round /\ task'.gate.commit = task.gate.commit
    BY <1>1, TypedParts, TaskTyped DEF Gate
  <1>6. CommitsBehind
    BY <1>1, <1>3, <1>5 DEF CommitsBehind, OntoTip, Undisturbed
  <1> QED
    BY <1>2, <1>3, <1>4, <1>5, <1>6, Framed

LEMMA NoJobMore == ASSUME jobs' \subseteq jobs PROVE JobsFollow
  BY DEF JobsFollow

LEMMA PlainJob ==
  ASSUME NEW k, jobs' \subseteq jobs \union {k}, k.at \notin {"install", "git", "replayed"},
         k.commit.onto <= tip', k.gate.commit.onto <= tip'
  PROVE  JobsFollow
  BY DEF JobsFollow

(* A job that goes on with its own round and commit. *)
LEMMA JobGoesOn ==
  ASSUME Inductive, NEW j \in jobs, tip' = tip, NEW k, jobs' \subseteq jobs \union {k},
         k.at \notin {"install", "git", "replayed"}, k.commit = j.commit, k.gate = j.gate
  PROVE  JobsFollow
  BY InductiveParts, PlainJob DEF OntoTip

LEMMA BecomeGoesOn ==
  ASSUME Inductive, NEW j \in jobs, tip' = tip, NEW at \in Steps \ {"install", "git", "replayed"},
         Become(j, at)
  PROVE  JobsFollow
  <1> DEFINE k == [j EXCEPT !.at = at]
  <1>1. k.at = at /\ k.commit = j.commit /\ k.gate = j.gate /\ jobs' \subseteq jobs \union {k}
    BY InductiveParts, TypedParts DEF JobType, Become, Replace
  <1> HIDE DEF k
  <1> QED
    BY <1>1, JobGoesOn

LEMMA ProblemGoesOn ==
  ASSUME Inductive, NEW j \in jobs, tip' = tip, NEW to, Replace(j, {Problem(j, to)})
  PROVE  JobsFollow
  <1> DEFINE k == Problem(j, to)
  <1>1. k.at = "problem" /\ k.commit = j.commit /\ k.gate = j.gate /\ jobs' \subseteq jobs \union {k}
    BY InductiveParts, TypedParts DEF JobType, Problem, Replace
  <1> HIDE DEF k
  <1> QED
    BY <1>1, JobGoesOn

LEMMA Behind ==
  Inductive => /\ Typed /\ tip \in Nat /\ head.onto <= tip /\ task.candidate.onto <= tip
               /\ task.gate.commit.onto <= tip /\ override.onto <= tip
               /\ NoCommit.onto <= tip /\ NoGate.commit.onto <= tip
               /\ \A j \in jobs : j.commit.onto <= tip /\ j.gate.commit.onto <= tip
  BY InductiveParts, TypedParts DEF OntoTip, NoCommit, NoGate

(* Fields a step leaves alone. *)
LEMMA TaskFields ==
  ASSUME NEW t \in Task
  PROVE  /\ \A s : [t EXCEPT !.state = s].gate = t.gate /\ [t EXCEPT !.state = s].candidate = t.candidate
         /\ \A s, l : /\ [t EXCEPT !.state = s, !.landing = l].gate = t.gate
                      /\ [t EXCEPT !.state = s, !.landing = l].candidate = t.candidate
         /\ \A s, c : /\ [t EXCEPT !.state = s, !.candidate = c].gate = t.gate
                      /\ [t EXCEPT !.state = s, !.candidate = c].candidate = c
  BY DEF Task

LEMMA KeptEdits == ASSUME Inductive, WorkerEdits, Typed' PROVE Inductive'
  BY Behind, NoJobMore, Quiet DEF WorkerEdits, Undisturbed, target, history, inputs

LEMMA KeptReports ==
  ASSUME Inductive, NEW n \in BOOLEAN, WorkerReports(n), Typed' PROVE Inductive'
  <1>1. task'.gate = task.gate /\ task'.candidate = task.candidate
    BY Behind, TypedParts DEF WorkerReports, Task
  <1>2. UNCHANGED <<head, jobs, override, gates, members>> /\ Undisturbed
    BY DEF WorkerReports, Undisturbed, tree, target, history
  <1> QED
    BY <1>1, <1>2, Behind, NoJobMore, Quiet

LEMMA BeginLandingFollows ==
  ASSUME Inductive, NEW fresh \in BOOLEAN, BeginLanding(fresh), tip' = tip
  PROVE  JobsFollow /\ task'.gate = task.gate /\ task'.candidate.onto <= tip
  <1>1. task'.gate = task.gate /\ task'.candidate \in {task.candidate, NoCommit}
    BY Behind, TypedParts DEF BeginLanding, Task
  <1>2. PICK at \in {"land", "build"}, g \in {task.gate, NoGate} :
           jobs' = jobs \union {Job(at, g, NoCommit, "none")}
    BY <1>1 DEF BeginLanding
  <1> DEFINE k == Job(at, g, NoCommit, "none")
  <1>3. k.at = at /\ k.commit = NoCommit /\ k.gate = g /\ jobs' \subseteq jobs \union {k}
    BY <1>2 DEF Job
  <1>4. JobsFollow
    <2> HIDE DEF k
    <2> QED
      BY <1>2, <1>3, Behind, PlainJob
  <1> QED
    BY <1>1, <1>4, Behind

LEMMA KeptAccept == ASSUME Inductive, Accept, Typed' PROVE Inductive'
  <1>1. UNCHANGED <<head, override, gates, members>> /\ Undisturbed /\ BeginLanding(TRUE)
    BY DEF Accept, Undisturbed, tree, target, history
  <1> QED
    BY <1>1, Behind, BeginLandingFollows, Quiet DEF Undisturbed

LEMMA KeptRelay ==
  ASSUME Inductive, NEW r \in relays, Relay(r), Typed' PROVE Inductive'
  <1>1. UNCHANGED <<head, override, gates, members>> /\ Undisturbed
        /\ (BeginLanding(FALSE) \/ UNCHANGED <<task, jobs>>)
    BY DEF Relay, Undisturbed, tree, target, history
  <1> QED
    BY <1>1, Behind, BeginLandingFollows, NoJobMore, Quiet DEF Undisturbed

LEMMA KeptOverrideRead == ASSUME Inductive, OverrideRead, Typed' PROVE Inductive'
  <1>1. UNCHANGED <<task, head, jobs, gates, members>> /\ Undisturbed /\ override' = task.candidate
    BY DEF OverrideRead, Undisturbed, tree, target, history
  <1> QED
    BY <1>1, Behind, NoJobMore, Quiet

LEMMA KeptSendBack == ASSUME Inductive, SendBack, Typed' PROVE Inductive'
  <1>1. task'.gate = task.gate /\ task'.candidate = NoCommit
    BY Behind, TypedParts, TaskFields DEF SendBack, Reopened
  <1>2. UNCHANGED <<head, jobs, override, gates, members>> /\ Undisturbed
    BY DEF SendBack, Undisturbed, tree, target, history
  <1> QED
    BY <1>1, <1>2, Behind, NoJobMore, Quiet

LEMMA KeptStop == ASSUME Inductive, Stop, Typed' PROVE Inductive'
  <1>1. task'.gate = task.gate /\ task'.candidate = task.candidate
    BY Behind, TypedParts, TaskFields DEF Stop, Dispose
  <1>2. UNCHANGED <<head, jobs, override, gates, members>> /\ Undisturbed
    BY DEF Stop, Undisturbed, target, history
  <1> QED
    BY <1>1, <1>2, Behind, NoJobMore, Quiet

LEMMA KeptStopCloseGate == ASSUME Inductive, StopCloseGate, Typed' PROVE Inductive'
  <1>1. task'.gate \in {task.gate, [task.gate EXCEPT !.outcome = "superseded"]}
        /\ task'.candidate = task.candidate
    BY Behind, TypedParts DEF StopCloseGate, Task
  <1>2. UNCHANGED <<head, jobs, override, gates>> /\ Undisturbed /\ members' \subseteq members
    BY DEF StopCloseGate, StopCheckers, Undisturbed, tree, target, history
  <1> QED
    BY <1>1, <1>2, Behind, NoJobMore, Quiet

-----------------------------------------------------------------------------
(* Brigadier's jobs keep the invariant. *)

LEMMA KeptBuild == ASSUME Inductive, NEW j \in jobs, Build(j), Typed' PROVE Inductive'
  <1> DEFINE new == [j EXCEPT !.at = "built", !.commit = head']
  <1>1. task'.gate = task.gate /\ task'.candidate = task.candidate
    <2>1. task' = task \/ task' = [task EXCEPT !.state = "Done", !.landing = FALSE]
      BY DEF Build, Dispose
    <2> QED
      BY <2>1, Behind, TypedParts DEF Task
  <1>2. UNCHANGED <<override, gates, members>> /\ Undisturbed
    BY DEF Build, Undisturbed, target, history
  <1>3. head'.onto <= tip
    BY Behind DEF Build
  <1>4. new.at = "built" /\ new.commit = head' /\ new.gate = j.gate
    BY Behind, TypedParts DEF JobType
  <1>5. Replace(j, {new}) \/ Replace(j, {}) \/ Replace(j, {Problem(j, "Reported")})
    BY DEF Build
  <1>6. JobsFollow
    <2> HIDE DEF new
    <2>1. tip' = tip
      BY <1>2 DEF Undisturbed
    <2>2. CASE Replace(j, {new})
      BY <1>3, <1>4, <2>1, <2>2, Behind, PlainJob DEF Replace
    <2>3. CASE Replace(j, {})
      BY <2>3, NoJobMore DEF Replace
    <2> QED
      BY <1>5, <2>1, <2>2, <2>3, ProblemGoesOn
  <1> QED
    BY <1>1, <1>2, <1>3, <1>6, Behind, Quiet

LEMMA KeptRecord == ASSUME Inductive, NEW j \in jobs, Record(j), Typed' PROVE Inductive'
  <1> DEFINE new == [j EXCEPT !.at = "open", !.arg = "build"]
  <1>1. task'.gate = task.gate /\ task'.candidate = j.commit
    BY Behind, TypedParts DEF Record, Task
  <1>2. UNCHANGED <<head, override, gates, members>> /\ Undisturbed
    BY DEF Record, Undisturbed, tree, target, history
  <1>3. new.at = "open" /\ new.commit = j.commit /\ new.gate = j.gate /\ jobs' \subseteq jobs \union {new}
    BY Behind, TypedParts DEF JobType, Record, Replace
  <1>4. JobsFollow
    <2> HIDE DEF new
    <2> QED
      BY <1>2, <1>3, JobGoesOn DEF Undisturbed
  <1> QED
    BY <1>1, <1>2, <1>4, Behind, Quiet

LEMMA KeptAct == ASSUME Inductive, NEW j \in jobs, Act(j), Typed' PROVE Inductive'
  <1> DEFINE retried == [j EXCEPT !.at = "open", !.arg = "retry"]
  <1>1. UNCHANGED <<task, head, override, gates, members>> /\ Undisturbed
    BY DEF Act, Undisturbed, tree, target, history
  <1>2. retried.at = "open" /\ retried.commit = j.commit /\ retried.gate = j.gate
    BY Behind, TypedParts DEF JobType
  <1>3. \/ Replace(j, {}) \/ Become(j, "land") \/ Become(j, "approve") \/ Become(j, "sendBack")
        \/ Replace(j, {retried})
        \/ Replace(j, {Problem(j, "ReadyToLand")}) \/ Replace(j, {Problem(j, "Reported")})
    BY DEF Act, Become
  <1>4. JobsFollow
    <2> HIDE DEF retried
    <2>1. tip' = tip
      BY <1>1 DEF Undisturbed
    <2>2. CASE Replace(j, {}) \/ Replace(j, {retried})
      BY <1>2, <2>1, <2>2, NoJobMore, JobGoesOn DEF Replace
    <2>3. CASE \E at \in {"land", "approve", "sendBack"} : Become(j, at)
      BY <2>1, <2>3, BecomeGoesOn DEF Steps
    <2> QED
      BY <1>3, <2>1, <2>2, <2>3, ProblemGoesOn
  <1> QED
    BY <1>1, <1>4, Behind, Quiet

LEMMA KeptStartFix == ASSUME Inductive, NEW j \in jobs, StartFix(j), Typed' PROVE Inductive'
  <1>1. task'.gate = task.gate /\ task'.candidate = task.candidate
    BY Behind, TypedParts DEF StartFix, Task
  <1>2. UNCHANGED <<head, override, gates, members>> /\ Undisturbed
    BY DEF StartFix, Undisturbed, tree, target, history
  <1>3. JobsFollow
    BY <1>2, BecomeGoesOn DEF StartFix, Steps, Undisturbed
  <1> QED
    BY <1>1, <1>2, <1>3, Behind, Quiet

LEMMA KeptFix == ASSUME Inductive, NEW j \in jobs, Fix(j), Typed' PROVE Inductive'
  <1>1. task'.gate = task.gate /\ task'.candidate \in {task.candidate, NoCommit}
    <2>1. task' = task \/ task' = [task EXCEPT !.state = "Running", !.candidate = NoCommit]
      BY DEF Fix, Reopened
    <2> QED
      BY <2>1, Behind, TypedParts DEF Task
  <1>2. UNCHANGED <<head, override, gates, members>> /\ Undisturbed
    BY DEF Fix, Undisturbed, tree, target, history
  <1>3. JobsFollow
    BY <1>2, BecomeGoesOn, NoJobMore DEF Fix, Steps, Undisturbed, Replace
  <1> QED
    BY <1>1, <1>2, <1>3, Behind, Quiet

LEMMA KeptEscalate == ASSUME Inductive, NEW j \in jobs, Escalate(j), Typed' PROVE Inductive'
  <1> DEFINE new == [j EXCEPT !.at = "escalated", !.gate = task.gate, !.commit = task.candidate]
  <1>1. task'.gate = task.gate /\ task'.candidate = task.candidate
    BY Behind, TypedParts, TaskFields DEF Escalate
  <1>2. UNCHANGED <<head, override, gates, members>> /\ Undisturbed
    BY DEF Escalate, Undisturbed, tree, target, history
  <1>3. /\ new.at = "escalated" /\ new.commit = task.candidate /\ new.gate = task.gate
        /\ jobs' \subseteq jobs \union {new}
    BY Behind, TypedParts DEF JobType, Escalate, Replace
  <1>4. JobsFollow
    <2> HIDE DEF new
    <2> QED
      BY <1>2, <1>3, Behind, PlainJob DEF Undisturbed
  <1> QED
    BY <1>1, <1>2, <1>4, Behind, Quiet

LEMMA KeptEscalated == ASSUME Inductive, NEW j \in jobs, Escalated(j), Typed' PROVE Inductive'
  <1>1. task'.gate = task.gate /\ task'.candidate = task.candidate
    BY Behind, TypedParts DEF Escalated, Task
  <1>2. UNCHANGED <<head, override, gates, members>> /\ Undisturbed /\ jobs' \subseteq jobs
    BY DEF Escalated, Replace, Undisturbed, tree, target, history
  <1> QED
    BY <1>1, <1>2, NoJobMore, Behind, Quiet

LEMMA KeptApprove == ASSUME Inductive, NEW j \in jobs, Approve(j), Typed' PROVE Inductive'
  <1>1. task'.gate = task.gate /\ task'.candidate = task.candidate
    <2>1. task' = task \/ task' = [task EXCEPT !.state = "AwaitingApproval"]
      BY DEF Approve
    <2> QED
      BY <2>1, Behind, TypedParts DEF Task
  <1>2. UNCHANGED <<head, override, gates, members>> /\ Undisturbed
    BY DEF Approve, Undisturbed, tree, target, history
  <1>3. JobsFollow
    BY <1>2, BecomeGoesOn DEF Approve, Steps, Undisturbed
  <1> QED
    BY <1>1, <1>2, <1>3, Behind, Quiet

LEMMA KeptAnswer ==
  ASSUME Inductive, NEW j \in jobs, NEW answer, Answer(j, answer), Typed' PROVE Inductive'
  <1> DEFINE new == [j EXCEPT !.at = "answered", !.arg = answer]
  <1>1. UNCHANGED <<task, head, override, gates, members>> /\ Undisturbed
    BY DEF Answer, Undisturbed, tree, target
  <1>2. new.at = "answered" /\ new.commit = j.commit /\ new.gate = j.gate /\ jobs' \subseteq jobs \union {new}
    BY Behind, TypedParts DEF JobType, Answer, Replace
  <1>3. JobsFollow
    <2> HIDE DEF new
    <2> QED
      BY <1>1, <1>2, JobGoesOn DEF Undisturbed
  <1> QED
    BY <1>1, <1>3, Behind, Quiet

LEMMA KeptAnswered == ASSUME Inductive, NEW j \in jobs, Answered(j), Typed' PROVE Inductive'
  <1>1. UNCHANGED <<task, head, override, gates, members>> /\ Undisturbed
    BY DEF Answered, Undisturbed, tree, target, history
  <1>2. Replace(j, {}) \/ Become(j, "land") \/ Replace(j, {Problem(j, "Reported")})
    BY DEF Answered, Become
  <1>3. JobsFollow
    <2>1. tip' = tip
      BY <1>1 DEF Undisturbed
    <2>2. CASE Replace(j, {})
      BY <2>2, NoJobMore DEF Replace
    <2> QED
      BY <1>2, <2>1, <2>2, BecomeGoesOn, ProblemGoesOn DEF Steps
  <1> QED
    BY <1>1, <1>3, Behind, Quiet

LEMMA KeptLanded == ASSUME Inductive, NEW j \in jobs, Landed(j), Typed' PROVE Inductive'
  <1>1. task'.gate = task.gate /\ task'.candidate = task.candidate
    BY Behind, TypedParts, TaskFields DEF Landed, Dispose
  <1>2. UNCHANGED <<head, override, gates, members>> /\ Undisturbed /\ jobs' \subseteq jobs
    BY DEF Landed, Replace, Undisturbed, target, history
  <1> QED
    BY <1>1, <1>2, NoJobMore, Behind, Quiet

LEMMA KeptHandBack == ASSUME Inductive, NEW j \in jobs, HandBack(j), Typed' PROVE Inductive'
  <1>1. task'.gate = task.gate /\ task'.candidate = task.candidate
    BY Behind, TypedParts, TaskFields DEF HandBack
  <1>2. UNCHANGED <<head, override, gates, members>> /\ Undisturbed /\ jobs' \subseteq jobs
    BY DEF HandBack, Replace, Undisturbed, tree, target, history
  <1> QED
    BY <1>1, <1>2, NoJobMore, Behind, Quiet

(* land_task hands git the candidate of a round that passed, or that the   *)
(* user overrode: one that is vouched for.                                 *)
LEMMA KeptLand == ASSUME Inductive, NEW j \in jobs, Land(j), Typed' PROVE Inductive'
  <1> DEFINE new == [j EXCEPT !.at = "git", !.commit = task.candidate]
  <1>1. UNCHANGED <<task, head, override, gates, members>> /\ Undisturbed
    BY DEF Land, Undisturbed, tree, target, history
  <1>2. new.at = "git" /\ new.commit = task.candidate /\ new.gate = j.gate
    BY Behind, TypedParts DEF JobType
  <1>3. CASE Replace(j, {new}) /\ CandidatePassed(task)
    <2>1. Vouched(task.candidate)
      <3>1. RoundVouched
        BY InductiveParts
      <3> QED
        BY <1>3, <3>1 DEF CandidatePassed, RoundVouched
    <2>2. tip' = tip /\ j.gate.commit.onto <= tip /\ task.candidate.onto <= tip
      BY <1>1, Behind DEF Undisturbed
    <2>3. JobsFollow
      <3> HIDE DEF new
      <3> QED
        BY <1>2, <1>3, <2>1, <2>2 DEF JobsFollow, Replace
    <2> QED
      BY <1>1, <2>3, Behind, Quiet
  <1>4. CASE Replace(j, {}) \/ Replace(j, {Problem(j, "Reported")})
    <2>1. JobsFollow
      BY <1>1, <1>4, NoJobMore, ProblemGoesOn DEF Undisturbed, Replace
    <2> QED
      BY <1>1, <2>1, Behind, Quiet
  <1>5. \/ Replace(j, {new}) /\ CandidatePassed(task)
        \/ Replace(j, {}) \/ Replace(j, {Problem(j, "Reported")})
    BY DEF Land
  <1> QED
    BY <1>3, <1>4, <1>5

(* A replay over commits that leave the files alone keeps what was vouched *)
(* for; any other is checked from the start.                               *)
LEMMA KeptReplay == ASSUME Inductive, NEW j \in jobs, Replay(j), Typed' PROVE Inductive'
  <1> DEFINE onto == [j.commit EXCEPT !.onto = tip]
             arg == IF Clean(j.commit.onto, tip) THEN "replay" ELSE "overlap"
             new == [j EXCEPT !.at = "replayed", !.commit = onto, !.arg = arg]
  <1>1. UNCHANGED <<task, override, gates, members>> /\ Undisturbed /\ tip' = tip
    BY DEF Replay, Undisturbed, target, history
  <1>2. j.commit \in CommitOrNone /\ onto.onto = tip /\ j.commit.onto <= tip /\ tip \in Nat
    BY Behind, TypedParts DEF JobType, CommitOrNone
  <1>3. new.at = "replayed" /\ new.commit = onto /\ new.gate = j.gate /\ new.arg = arg
    BY Behind, TypedParts DEF JobType
  <1>4. CASE head' = onto /\ Replace(j, {new})
    <2>1. arg = "replay" => Vouched(onto)
      <3> SUFFICES ASSUME arg = "replay" PROVE Vouched(onto)
        OBVIOUS
      <3>1. Clean(j.commit.onto, tip)
        OBVIOUS
      <3>2. Vouched(j.commit)
        BY InductiveParts DEF JobsVouched, Replay
      <3> QED
        BY <1>2, <3>1, <3>2, Behind, CleanReplay
    <2>2. JobsFollow
      <3> HIDE DEF new, onto, arg
      <3>1. j.gate.commit.onto <= tip /\ tip <= tip
        BY <1>2, Behind
      <3> QED
        BY <1>1, <1>2, <1>3, <1>4, <2>1, <3>1 DEF JobsFollow, Replace
    <2>3. head'.onto <= tip
      <3> HIDE DEF onto
      <3> QED
        BY <1>2, <1>4
    <2> QED
      BY <1>1, <2>2, <2>3, Behind, Quiet
  <1>5. CASE UNCHANGED head /\ Replace(j, {Problem(j, "Reported")})
    <2>1. JobsFollow
      BY <1>1, <1>5, ProblemGoesOn
    <2> QED
      BY <1>1, <1>5, <2>1, Behind, Quiet
  <1> QED
    BY <1>4, <1>5 DEF Replay

(* What the compare-and-swap puts on the target is what git was handed.    *)
LEMMA KeptGitLands == ASSUME Inductive, NEW j \in jobs, GitLands(j), Typed' PROVE Inductive'
  <1>1. UNCHANGED <<task, head, override, gates, members, overlaps, verified, overruled>>
    BY DEF GitLands, tree, history
  <1>2. CASE Replace(j, {Problem(j, "ReadyToLand")}) /\ UNCHANGED <<tip, landings>>
    <2>1. Undisturbed /\ JobsFollow
      BY <1>1, <1>2, ProblemGoesOn DEF Undisturbed
    <2> QED
      BY <1>1, <2>1, Behind, Quiet
  <1>3. CASE /\ tip' = tip + 1 /\ Become(j, "landed")
             /\ landings' = landings \union {[commit |-> j.commit, nr |-> tip + 1]}
    <2>1. Vouched(j.commit) /\ j.commit.onto <= tip /\ j.gate.commit.onto <= tip
      BY Behind, InductiveParts DEF JobsVouched, GitLands
    <2>2. LandsVouched
      BY <1>3, <2>1 DEF LandsVouched
    <2>3. VerdictsKept /\ tip <= tip'
      BY <1>1, <1>3, Behind DEF VerdictsKept
    <2>4. CommitsBehind
      <3>1. \A c \in CommitOrNone : c.onto <= tip => c.onto <= tip'
        BY <1>3, Behind DEF CommitOrNone
      <3>2. head \in CommitOrNone /\ task.candidate \in CommitOrNone
            /\ task.gate.commit \in CommitOrNone /\ override \in CommitOrNone
        BY Behind, TypedParts, TaskTyped, GateTyped
      <3> QED
        BY <1>1, <3>1, <3>2, Behind DEF CommitsBehind
    <2>5. JobsFollow
      <3> DEFINE new == [j EXCEPT !.at = "landed"]
      <3>1. new.at = "landed" /\ new.commit = j.commit /\ new.gate = j.gate /\ Replace(j, {new})
        BY <1>3, Behind, TypedParts DEF JobType, Become
      <3>2. j.commit.onto <= tip' /\ j.gate.commit.onto <= tip'
        <4>1. j.commit.onto \in Nat /\ j.gate.commit.onto \in Nat
          BY Behind, TypedParts, GateTyped DEF JobType, CommitOrNone
        <4> QED
          BY <1>3, <2>1, <4>1, Behind
      <3> HIDE DEF new
      <3> QED
        BY <3>1, <3>2, PlainJob DEF Replace
    <2>6. RoundVouched'
      BY <1>1, <2>3, SameRound, InductiveParts
    <2> QED
      BY <1>1, <2>2, <2>3, <2>4, <2>5, <2>6, Framed
  <1> QED
    BY <1>2, <1>3 DEF GitLands

-----------------------------------------------------------------------------
(* The steps that change the target, the verdicts or the round. *)

LEMMA KeptTargetMoves ==
  ASSUME Inductive, NEW o \in BOOLEAN, TargetMoves(o), Typed' PROVE Inductive'
  <1>1. UNCHANGED <<task, head, jobs, override, gates, members, verified, overruled, landings>>
        /\ tip' = tip + 1 /\ overlaps' \subseteq overlaps \union {tip + 1}
    BY DEF TargetMoves, inputs, tree, history
  <1>2. VerdictsKept /\ tip <= tip' /\ LandsVouched /\ JobsFollow
    BY <1>1, Behind, NoJobMore DEF VerdictsKept, LandsVouched
  <1>3. CommitsBehind
    <2>1. \A c \in CommitOrNone : c.onto <= tip => c.onto <= tip'
      BY <1>1, Behind DEF CommitOrNone
    <2>2. head \in CommitOrNone /\ task.candidate \in CommitOrNone
          /\ task.gate.commit \in CommitOrNone /\ override \in CommitOrNone
      BY Behind, TypedParts, TaskTyped, GateTyped
    <2> QED
      BY <1>1, <2>1, <2>2, Behind DEF CommitsBehind
  <1>4. RoundVouched'
    BY <1>1, <1>2, SameRound, InductiveParts
  <1> QED
    BY <1>1, <1>2, <1>3, <1>4, Framed

(* The user's override vouches for the commit the round is then about. *)
LEMMA KeptOverrideStart == ASSUME Inductive, OverrideStart, Typed' PROVE Inductive'
  <1> DEFINE gate == [task.gate EXCEPT !.overridden = TRUE, !.commit = override]
  <1>1. task.gate \in Gate /\ override \in CommitOrNone
    BY Behind, TypedParts, TaskTyped
  <1>2. task'.gate = gate /\ task'.candidate = task.candidate
    BY Behind, TypedParts DEF OverrideStart, Task
  <1>3. gate.overridden = TRUE /\ gate.commit = override /\ gate.round = task.gate.round
    BY <1>1 DEF Gate
  <1>4. UNCHANGED <<head, gates, members, tip, overlaps, landings, verified>>
        /\ overruled' = overruled \union {override} /\ override' = NoCommit
        /\ jobs' = jobs \union {Job("approve", task'.gate, override, "none")}
    BY DEF OverrideStart, tree, target
  <1>5. VerdictsKept /\ tip <= tip' /\ LandsVouched
    BY <1>4, Behind DEF VerdictsKept, LandsVouched
  <1>6. CommitsBehind
    <2> HIDE DEF gate
    <2> QED
      BY <1>2, <1>3, <1>4, Behind DEF CommitsBehind
  <1>7. JobsFollow
    <2> DEFINE new == Job("approve", task'.gate, override, "none")
    <2>1. new.at = "approve" /\ new.commit = override /\ new.gate = task'.gate
      BY DEF Job
    <2>2. jobs' \subseteq jobs \union {new}
      BY <1>4
    <2> HIDE DEF new, gate
    <2> QED
      BY <1>2, <1>3, <1>4, <2>1, <2>2, Behind, PlainJob
  <1>8. RoundVouched'
    <2>1. VouchedBy(override, verified' \union overruled', overlaps')
      BY <1>1, <1>4, VouchedItself
    <2> HIDE DEF gate
    <2>2. VouchedBy(task'.gate.commit, verified' \union overruled', overlaps')
          /\ task'.gate.overridden = TRUE
      BY <1>2, <1>3, <2>1
    <2> QED
      BY <2>2 DEF RoundVouched, Vouched
  <1>9. task'.gate.round = task.gate.round
    <2> HIDE DEF gate
    <2> QED
      BY <1>2, <1>3
  <1> QED
    BY <1>4, <1>5, <1>6, <1>7, <1>8, <1>9, Framed

(* A clean replay of an overridden commit becomes the round's commit. *)
LEMMA KeptReplayed == ASSUME Inductive, NEW j \in jobs, Replayed(j), Typed' PROVE Inductive'
  <1>1. j.commit \in CommitOrNone /\ j.commit.onto <= tip
    BY Behind, TypedParts DEF JobType
  <1>2. UNCHANGED <<head, override, gates, members>> /\ Undisturbed
    BY DEF Replayed, Undisturbed, tree, target, history
  <1>3. task'.candidate \in {task.candidate, j.commit}
    BY Behind, TypedParts DEF Replayed, Task
  <1>4. task'.candidate.onto <= tip
    BY <1>1, <1>3, Behind
  <1>5. CASE j.arg = "replay" /\ task.gate.overridden
    <2> DEFINE new == [j EXCEPT !.at = "land", !.gate = task'.gate]
    <2>1. task'.gate = [task.gate EXCEPT !.commit = j.commit] /\ Replace(j, {new})
      BY <1>5, Behind, TypedParts DEF Replayed, Task
    <2>2. task'.gate.commit = j.commit /\ task'.gate.round = task.gate.round
          /\ task'.gate.overridden = task.gate.overridden
      BY <2>1, Behind, TypedParts, TaskTyped DEF Gate
    <2>3. VerdictsKept /\ LandsVouched /\ tip' = tip
      BY <1>2 DEF VerdictsKept, LandsVouched, Undisturbed
    <2>4. Vouched(j.commit)
      BY <1>5, InductiveParts DEF JobsVouched, Replayed
    <2>5. VouchedBy(task'.gate.commit, verified' \union overruled', overlaps')
      <3>1. VouchedBy(j.commit, verified' \union overruled', overlaps')
        BY <1>1, <2>3, <2>4, Behind, VouchedKept
      <3> QED
        BY <2>2, <3>1
    <2>6. RoundVouched'
      BY <1>5, <2>2, <2>5 DEF RoundVouched, Vouched
    <2>7. new.at = "land" /\ new.commit = j.commit /\ new.gate = task'.gate
      BY Behind, TypedParts DEF JobType
    <2>8. JobsFollow
      <3> HIDE DEF new
      <3> QED
        BY <1>1, <2>1, <2>2, <2>3, <2>7, PlainJob DEF Replace
    <2>9. CommitsBehind /\ tip <= tip'
      BY <1>1, <1>2, <1>4, <2>2, <2>3, Behind DEF CommitsBehind, Undisturbed
    <2> QED
      BY <1>2, <2>2, <2>3, <2>6, <2>8, <2>9, Framed
  <1>6. CASE ~(j.arg = "replay" /\ task.gate.overridden)
    <2>1. task'.gate = task.gate /\ Become(j, "open")
      BY <1>6, Behind, TypedParts DEF Replayed, Task
    <2>2. JobsFollow
      BY <1>2, <2>1, BecomeGoesOn DEF Steps, Undisturbed
    <2> QED
      BY <1>2, <1>4, <2>1, <2>2, Behind, Quiet
  <1> QED
    BY <1>5, <1>6

(* A round opens: its checkers are the only ones ahead of the task's round. *)
LEMMA KeptOpen == ASSUME Inductive, NEW j \in jobs, Open(j), Typed' PROVE Inductive'
  <1>1. UNCHANGED <<task, head, override, tip, overlaps, landings, verified, overruled>>
    BY DEF Open, tree, target, history
  <1>2. Undisturbed
    BY <1>1 DEF Undisturbed
  <1>3. CASE ~(task.candidate = NoCommit \/ RoundsUsed \/ Unchanged) /\ gates' = "held"
    <2> DEFINE round == [NoGate EXCEPT
                    !.round = task.gate.round + 1, !.commit = task.candidate, !.outcome = "open",
                    !.left = Checkers(j.arg), !.worst = "passed",
                    !.relanding = Relanding(j.arg), !.retry = j.arg = "retry"]
               new == Job("install", round, round.commit, "none")
               started == {[round |-> round.round, role |-> r, commit |-> round.commit] :
                              r \in Checkers(j.arg)}
    <2>1. /\ round.round = task.gate.round + 1 /\ round.commit = task.candidate
          /\ round.outcome = "open" /\ round.overridden = FALSE /\ round.worst = "passed"
          /\ "verify" \in round.left
      BY DEF NoGate, Checkers, Roles
    <2>2. members' = members \union started /\ Replace(j, {new}) /\ gates = "free"
      BY <1>3 DEF Open
    <2>3. new.at = "install" /\ new.gate = round /\ new.commit = task.candidate
      BY <2>1 DEF Job
    <2>4. \A m \in started : m.round = task.gate.round + 1 /\ m.commit = task.candidate
      <3> HIDE DEF round
      <3> QED
        BY <2>1
    <2> HIDE DEF new, started, round
    <2>5. task.gate.round \in Nat
      BY Behind, TypedParts, TaskTyped, GateTyped
    <2>6. \A m \in members : m.round <= task.gate.round /\ m.round \in Nat
      <3>1. \A m \in members : m.round <= task.gate.round + 0
        BY <2>2, InductiveParts DEF RoundsInOrder
      <3>2. \A m \in members : m.round \in 1 .. MaxRounds
        BY Behind, TypedParts
      <3> QED
        BY <2>5, <3>1, <3>2
    <2>7. \A k \in jobs' : k = new \/ (k \in jobs /\ k.at # "install")
      BY <2>2, InductiveParts DEF Replace, Opening
    <2>8. OntoTip'
      BY <1>1, <2>1, <2>2, <2>3, <2>4, <2>7, Behind, InductiveParts DEF OntoTip, Landings
    <2>9. RoundVouched'
      <3>1. RoundVouched
        BY InductiveParts
      <3>2. \A m \in members' : m.round = task.gate.round => m \in members
        BY <2>2, <2>4, <2>5
      <3> QED
        BY <1>1, <3>1, <3>2 DEF RoundVouched, Vouched
    <2>10. RoundsInOrder'
      BY <1>1, <1>3, <2>2, <2>4, <2>5, <2>6 DEF RoundsInOrder
    <2>11. Opening'
      <3> SUFFICES ASSUME NEW k \in jobs', k.at = "install" PROVE
             /\ gates' = "held" /\ k.gate.round = task'.gate.round + 1
             /\ k.gate.outcome = "open" /\ ~k.gate.overridden /\ k.gate.worst = "passed"
             /\ "verify" \in k.gate.left
             /\ \A m \in members' : m.round = k.gate.round => m.commit = k.gate.commit
             /\ \A i \in jobs' : i.at = "install" => i = k
        BY DEF Opening
      <3>1. k = new
        BY <2>7
      <3>2. \A m \in members' : m.round = k.gate.round => m.commit = k.gate.commit
        BY <2>1, <2>2, <2>3, <2>4, <2>5, <2>6, <3>1
      <3> QED
        BY <1>1, <1>3, <2>1, <2>3, <2>7, <3>1, <3>2
    <2>12. JobsVouched' /\ LandedVouched'
      BY <1>1, <2>3, <2>7, InductiveParts DEF JobsVouched, LandedVouched, Landings, Vouched
    <2> QED
      BY <2>8, <2>9, <2>10, <2>11, <2>12 DEF Inductive, Typed
  <1>4. CASE /\ UNCHANGED <<gates, members>>
             /\ \/ Become(j, "escalate") \/ Replace(j, {})
                \/ Replace(j, {Problem(j, "Reported")}) \/ Replace(j, {Problem(j, "ReadyToLand")})
    <2>1. JobsFollow
      BY <1>1, <1>4, BecomeGoesOn, ProblemGoesOn, NoJobMore DEF Steps, Replace
    <2> QED
      BY <1>1, <1>2, <1>4, <2>1, Behind, Quiet
  <1>5. \/ ~(task.candidate = NoCommit \/ RoundsUsed \/ Unchanged) /\ gates' = "held"
        \/ /\ UNCHANGED <<gates, members>>
           /\ \/ Become(j, "escalate") \/ Replace(j, {})
              \/ Replace(j, {Problem(j, "Reported")}) \/ Replace(j, {Problem(j, "ReadyToLand")})
    BY DEF Open, NotOpened, Become
  <1> QED
    BY <1>3, <1>4, <1>5

(* The round that opened becomes the task's, or its checkers are stopped.  *)
LEMMA KeptInstall == ASSUME Inductive, NEW j \in jobs, Install(j), Typed' PROVE Inductive'
  <1>1. UNCHANGED <<head, override, tip, overlaps, landings, verified, overruled>>
        /\ gates' = "free" /\ jobs' = jobs \ {j} /\ j.at = "install"
    BY DEF Install, Replace, inputs, tree, target, history
  <1>2. /\ gates = "held" /\ j.gate.round = task.gate.round + 1
        /\ j.gate.outcome = "open" /\ ~j.gate.overridden /\ j.gate.worst = "passed"
        /\ "verify" \in j.gate.left
        /\ \A m \in members : m.round = j.gate.round => m.commit = j.gate.commit
        /\ \A i \in jobs : i.at = "install" => i = j
    BY <1>1, InductiveParts DEF Opening
  <1>3. task.gate.round \in Nat /\ j.gate.commit.onto <= tip /\ j.gate \in Gate
    BY Behind, TypedParts, TaskTyped, GateTyped DEF JobType
  <1>4. \A m \in members : m.round <= task.gate.round + 1 /\ m.round \in Nat
    BY <1>2, InductiveParts, Behind, TypedParts DEF RoundsInOrder
  <1>5. Opening'
    BY <1>1, <1>2 DEF Opening
  <1>6. JobsVouched' /\ LandedVouched'
    BY <1>1, InductiveParts DEF JobsVouched, LandedVouched, Landings, Vouched
  <1>7. CASE task' = [task EXCEPT !.gate = j.gate, !.state = "Reviewing"] /\ UNCHANGED members
    <2>1. task'.gate = j.gate /\ task'.candidate = task.candidate
      BY <1>7, Behind, TypedParts DEF Task
    <2>2. OntoTip'
      BY <1>1, <1>3, <1>7, <2>1, InductiveParts DEF OntoTip, Landings
    <2>3. RoundVouched'
      BY <1>2, <1>7, <2>1 DEF RoundVouched
    <2>4. RoundsInOrder'
      BY <1>1, <1>2, <1>3, <1>4, <1>7, <2>1 DEF RoundsInOrder
    <2> QED
      BY <1>5, <1>6, <2>2, <2>3, <2>4 DEF Inductive, Typed
  <1>8. CASE StopCheckers(j.gate.round) /\ UNCHANGED task
    <2>1. \A m \in members' : m \in members /\ m.round # task.gate.round + 1
      BY <1>2, <1>8 DEF StopCheckers
    <2>2. OntoTip'
      BY <1>1, <1>8, <2>1, InductiveParts DEF OntoTip, Landings
    <2>3. RoundVouched'
      BY <1>1, <1>8, <2>1, InductiveParts DEF RoundVouched, Vouched
    <2>4. RoundsInOrder'
      BY <1>1, <1>3, <1>4, <1>8, <2>1 DEF RoundsInOrder
    <2> QED
      BY <1>5, <1>6, <2>2, <2>3, <2>4 DEF Inductive, Typed
  <1> QED
    BY <1>7, <1>8 DEF Install

(* A checker reports: what a verifier passes is vouched for, and a round    *)
(* that passes had its verifier pass it.                                   *)
LEMMA KeptMemberReports ==
  ASSUME Inductive, NEW m \in members, NEW result \in Results, MemberReports(m, result), Typed'
  PROVE  Inductive'
  <1> DEFINE worst == Worse(task.gate.worst, result)
             all   == task.gate.left = {m.role}
             gate  == [task.gate EXCEPT !.left = @ \ {m.role},
                                        !.worst = IF all THEN "none" ELSE worst,
                                        !.outcome = IF all THEN worst ELSE @]
  <1>1. UNCHANGED <<head, override, gates, tip, overlaps, landings, overruled>>
        /\ members' \subseteq members /\ gates = "free"
    BY DEF MemberReports, tree, target
  <1>2. m.commit \in CommitOrNone /\ m.commit.onto <= tip /\ m.role \in Roles
    BY Behind, TypedParts, InductiveParts DEF OntoTip
  <1>3. verified' = (IF m.role = "verify" /\ result = "passed" THEN verified \union {m.commit} ELSE verified)
    BY DEF MemberReports
  <1>4. VerdictsKept /\ LandsVouched /\ tip' = tip /\ tip <= tip'
    BY <1>1, <1>3, Behind DEF VerdictsKept, LandsVouched
  <1>5. CASE UNCHANGED <<task, jobs>>
    <2>1. RoundVouched'
      BY <1>1, <1>4, <1>5, SameRound, InductiveParts
    <2>2. CommitsBehind
      BY <1>1, <1>2, <1>3, <1>5, Behind DEF CommitsBehind
    <2> QED
      BY <1>1, <1>4, <1>5, <2>1, <2>2, NoJobMore, Framed
  <1>6. CASE /\ task.gate.round = m.round /\ task.gate.outcome = "open"
             /\ task' = [task EXCEPT !.gate = gate]
             /\ \/ jobs' = jobs
                \/ \E arg \in {"again", "decide"} : jobs' = jobs \union {Job("act", gate, NoCommit, arg)}
    <2>1. task'.gate = gate /\ task'.candidate = task.candidate
      BY <1>6, Behind, TypedParts DEF Task
    <2>2. /\ gate.commit = task.gate.commit /\ gate.round = task.gate.round
          /\ gate.overridden = task.gate.overridden /\ gate.left = task.gate.left \ {m.role}
          /\ gate.worst = (IF all THEN "none" ELSE worst)
          /\ gate.outcome = (IF all THEN worst ELSE "open")
      <3> HIDE DEF worst, all
      <3> QED
        BY <1>6, Behind, TypedParts, TaskTyped DEF Gate
    <2>3. worst \in Results /\ (worst = "passed" => task.gate.worst \in {"passed", "none"} /\ result = "passed")
      <3> HIDE DEF gate, all
      <3>1. task.gate.worst \in Results \union {"none"}
        BY Behind, TypedParts, TaskTyped DEF Gate
      <3> QED
        BY <3>1, WorseTyped
    <2> HIDE DEF gate, worst
    <2>4. ASSUME Vouched(task.gate.commit)
          PROVE  VouchedBy(gate.commit, verified' \union overruled', overlaps')
      <3>1. task.gate.commit \in CommitOrNone /\ task.gate.commit.onto <= tip
        BY Behind, TypedParts, TaskTyped, GateTyped
      <3>2. VouchedBy(task.gate.commit, verified' \union overruled', overlaps')
        BY <1>4, <2>4, <3>1, Behind, VouchedKept
      <3> QED
        BY <2>2, <3>2
    <2>5. ASSUME ~task.gate.overridden, worst = "passed", "verify" \notin gate.left
          PROVE  VouchedBy(gate.commit, verified' \union overruled', overlaps')
      <3>1. /\ m.commit = task.gate.commit /\ task.gate.worst # "none"
            /\ task.gate.worst = "passed" => "verify" \in task.gate.left \/ Vouched(task.gate.commit)
        <4>1. RoundVouched /\ task.gate.outcome = "open" /\ m.round = task.gate.round
          BY <1>6, InductiveParts
        <4> QED
          BY <2>5, <4>1 DEF RoundVouched
      <3>2. CASE m.role = "verify"
        <4>1. m.commit \in verified' \union overruled'
          BY <1>3, <2>3, <2>5, <3>2
        <4>2. VouchedBy(m.commit, verified' \union overruled', overlaps')
          BY <1>2, <4>1, VouchedItself
        <4> QED
          BY <2>2, <3>1, <4>2
      <3>3. CASE m.role # "verify"
        BY <2>2, <2>3, <2>4, <2>5, <3>1, <3>3
      <3> QED
        BY <3>2, <3>3
    <2>6. RoundVouched'
      <3>1. CASE task.gate.overridden
        <4>1. VouchedBy(gate.commit, verified' \union overruled', overlaps')
          BY <2>4, <3>1, InductiveParts DEF RoundVouched
        <4> QED
          BY <2>1, <2>2, <3>1, <4>1 DEF RoundVouched, Vouched
      <3>2. CASE ~task.gate.overridden /\ all
        <4>1. gate.outcome = worst /\ "verify" \notin gate.left
          BY <2>2, <3>2
        <4>2. worst = "passed" => VouchedBy(gate.commit, verified' \union overruled', overlaps')
          BY <2>5, <3>2, <4>1
        <4>3. gate.outcome # "open" /\ ~gate.overridden
          BY <2>2, <2>3, <3>2, <4>1 DEF Results
        <4> QED
          BY <2>1, <4>1, <4>2, <4>3 DEF RoundVouched, Vouched
      <3>3. CASE ~task.gate.overridden /\ ~all
        <4>1. gate.outcome = "open" /\ gate.worst = worst
          BY <2>2, <3>3
        <4>2. \A k \in members' : k.round = gate.round => k.commit = gate.commit
          BY <1>1, <1>6, <2>2, <3>3, InductiveParts DEF RoundVouched
        <4>3. worst # "none"
          BY <2>3 DEF Results
        <4>4. worst = "passed" => "verify" \in gate.left
                                 \/ VouchedBy(gate.commit, verified' \union overruled', overlaps')
          BY <2>5, <3>3
        <4> QED
          BY <2>1, <2>2, <3>3, <4>1, <4>2, <4>3, <4>4 DEF RoundVouched, Vouched
      <3> QED
        BY <3>1, <3>2, <3>3
    <2>7. CommitsBehind
      BY <1>1, <1>2, <1>3, <2>1, <2>2, Behind DEF CommitsBehind
    <2>8. JobsFollow
      <3>1. CASE jobs' = jobs
        BY <3>1, NoJobMore
      <3>2. ASSUME NEW arg \in {"again", "decide"}, jobs' = jobs \union {Job("act", gate, NoCommit, arg)}
            PROVE  JobsFollow
        <4> DEFINE new == Job("act", gate, NoCommit, arg)
        <4>1. new.at = "act" /\ new.commit = NoCommit /\ new.gate = gate /\ jobs' \subseteq jobs \union {new}
          BY <3>2 DEF Job
        <4> HIDE DEF new
        <4> QED
          BY <1>4, <2>2, <4>1, Behind, PlainJob
      <3> QED
        BY <1>6, <3>1, <3>2
    <2> QED
      BY <1>1, <1>4, <2>1, <2>2, <2>6, <2>7, <2>8, Framed
  <1>7. \/ UNCHANGED <<task, jobs>>
        \/ /\ task.gate.round = m.round /\ task.gate.outcome = "open"
           /\ task' = [task EXCEPT !.gate = gate]
           /\ \/ jobs' = jobs
              \/ \E arg \in {"again", "decide"} : jobs' = jobs \union {Job("act", gate, NoCommit, arg)}
    BY DEF MemberReports
  <1> QED
    BY <1>5, <1>6, <1>7

(* After a restart nothing runs, and the round is at most superseded. *)
LEMMA KeptRestart == ASSUME Inductive, Restart, Typed' PROVE Inductive'
  <1>1. /\ jobs' = {} /\ members' = {} /\ override' = NoCommit
        /\ UNCHANGED <<head, tip, overlaps, landings, verified, overruled>>
    BY DEF Restart, target, history
  <1>2. task'.gate \in {task.gate, [task.gate EXCEPT !.outcome = "superseded"]}
        /\ task'.candidate \in {task.candidate, NoCommit}
    <2>1. \/ task' = [task EXCEPT !.state = "Reported", !.landing = FALSE]
          \/ task' = [task EXCEPT !.state = "Reported", !.landing = FALSE, !.candidate = NoCommit,
                       !.gate.outcome = IF @ = "open" THEN "superseded" ELSE @]
          \/ task' = [task EXCEPT !.state = "Stopped"]
          \/ task' = task
      BY DEF Restart
    <2>2. task.gate = [task.gate EXCEPT !.outcome = @]
      BY Behind, TypedParts, TaskTyped DEF Gate
    <2> QED
      BY <2>1, <2>2, Behind, TypedParts DEF Task
  <1>3. VerdictsKept
    BY <1>1 DEF VerdictsKept
  <1>4. RoundVouched'
    BY <1>1, <1>2, <1>3, SameRound, InductiveParts
  <1>5. task'.gate.commit = task.gate.commit
    BY <1>2, Behind, TypedParts, TaskTyped DEF Gate
  <1>6. OntoTip'
    BY <1>1, <1>2, <1>5, Behind, InductiveParts DEF OntoTip, Landings
  <1>7. RoundsInOrder' /\ Opening' /\ JobsVouched'
    BY <1>1 DEF RoundsInOrder, Opening, JobsVouched
  <1>8. LandedVouched'
    BY <1>1, InductiveParts DEF LandedVouched, Landings, Vouched
  <1> QED
    BY <1>4, <1>6, <1>7, <1>8 DEF Inductive, Typed

LEMMA InductiveInit == Init => Inductive
  <1> SUFFICES ASSUME Init PROVE Inductive
    OBVIOUS
  <1>1. Typed
    BY TypedInit
  <1>2. OntoTip
    BY DEF Init, OntoTip, NoCommit, NoGate, Landings
  <1>3. RoundVouched /\ RoundsInOrder /\ Opening /\ JobsVouched /\ LandedVouched
    BY DEF Init, RoundVouched, RoundsInOrder, Opening, JobsVouched, LandedVouched, Landings, NoGate
  <1> QED
    BY <1>1, <1>2, <1>3 DEF Inductive, Typed

LEMMA InductiveStep == Inductive /\ [Next]_vars => Inductive'
  <1> SUFFICES ASSUME Inductive, [Next]_vars PROVE Inductive'
    OBVIOUS
  <1>1. Typed'
    BY TypedStep, InductiveParts
  <1>2. CASE UNCHANGED vars
    <2>1. UNCHANGED <<task, head, override, gates, members, jobs>> /\ Undisturbed
      BY <1>2 DEF vars, inputs, tree, target, history, Undisturbed
    <2> QED
      BY <1>1, <2>1, Behind, NoJobMore, Quiet
  <1>3. CASE \E j \in jobs : JobSteps(j) \/ \E a \in {"allow", "deny", "withdrawn"} : Answer(j, a)
    BY <1>1, <1>3, KeptBuild, KeptRecord, KeptOpen, KeptInstall, KeptAct, KeptStartFix, KeptFix,
       KeptEscalate, KeptEscalated, KeptApprove, KeptAnswer, KeptAnswered, KeptLand, KeptGitLands,
       KeptReplay, KeptReplayed, KeptLanded, KeptHandBack, Zenon DEF JobSteps
  <1>4. CASE \E m \in members, r \in Results : MemberReports(m, r)
    BY <1>1, <1>4, KeptMemberReports
  <1>5. CASE \E r \in relays : Relay(r)
    BY <1>1, <1>5, KeptRelay
  <1> QED
    BY <1>1, <1>2, <1>3, <1>4, <1>5, KeptEdits, KeptReports, KeptAccept, KeptOverrideRead,
       KeptOverrideStart, KeptSendBack, KeptStop, KeptStopCloseGate, KeptTargetMoves,
       KeptRestart, Zenon DEF Next

(* Whatever the orchestrator, the user and restarts do, and however often   *)
(* the target moves, what lands was passed by a verifier, or landed by the *)
(* user despite its checks: that commit, or one it is a clean replay of.   *)
THEOREM OnlyVerifiedLands == Spec => []NothingUnverified
  <1>1. Inductive => NothingUnverified
    BY InductiveParts DEF LandedVouched, NothingUnverified, Vouched, VouchedBy, SameChange, Clean
  <1> QED
    BY <1>1, InductiveInit, InductiveStep, PTL DEF Spec

-----------------------------------------------------------------------------
(* One hand at a time.  While the orchestrator leaves a change Brigadier   *)
(* has in hand alone, at most one job works on it: it ends, and with it    *)
(* Brigadier's hold on the task, before another begins.                    *)

(* The jobs that still decide something: one that handed the decision over *)
(* only notes what it handed over.                                         *)
InFlight == {j \in jobs : j.at # "escalated"}

(* One job works at a time, on a task that it holds and no round checks.   *)
OneJob == \A i, j \in InFlight : i = j
Holding ==
    InFlight # {} =>
        /\ override = NoCommit /\ task.gate.outcome # "open"
        /\ task.landing \/ ~worktree
        /\ task.state \in Final \union {"Reviewing", "AwaitingApproval"}

(* An override is about the round that failed, which nothing else touches. *)
Overriding ==
    override # NoCommit =>
        /\ override = task.gate.commit /\ task.gate.outcome = "failed"
        /\ ~task.landing /\ task.state \in {"Reported", "Stopped"}

(* A round is open on a task under review, or one that ended since.        *)
OpenRound ==
    task.gate.outcome = "open" =>
        /\ task.landing \/ ~worktree
        /\ task.state \in Final \union {"Reviewing"}

EndedBare == task.state \in Final => ~worktree

Alone == OneJob /\ Holding /\ Overriding /\ OpenRound /\ EndedBare

LEMMA AloneInit == Init => Alone
  BY DEF Init, Alone, OneJob, Holding, Overriding, OpenRound, EndedBare, InFlight, NoGate, Final

(* What follows for the job that works. *)
LEMMA Working ==
  ASSUME Alone, NEW j \in jobs, j.at # "escalated"
  PROVE  /\ override = NoCommit /\ task.gate.outcome # "open"
         /\ task.landing \/ ~worktree
         /\ task.state \in Final \union {"Reviewing", "AwaitingApproval"}
         /\ \A i \in jobs : i.at # "escalated" => i = j
  BY DEF Alone, OneJob, Holding, InFlight

(* A step that leaves the task's hold alone. *)
LEMMA AloneHolds ==
  ASSUME Alone, jobs' \subseteq jobs, UNCHANGED <<override, worktree>>, task'.gate = task.gate,
         task'.landing = task.landing, task'.state = task.state
  PROVE  Alone'
  BY DEF Alone, OneJob, Holding, Overriding, OpenRound, EndedBare, InFlight

(* At most one job takes the place of j. *)
OneNew(j) == \A x, y \in jobs' : x \in jobs \ {j} \/ y \in jobs \ {j} \/ x = y

(* A step of the working job, after which it works on. *)
LEMMA AloneMoves ==
  ASSUME Alone, NEW j \in jobs, j.at # "escalated", OneNew(j),
         UNCHANGED <<override, worktree>>, task'.gate.outcome = task.gate.outcome,
         task'.landing = task.landing, task'.state \in {task.state, "AwaitingApproval"}
  PROVE  Alone'
  <1>1. \A x, y \in jobs' : x.at # "escalated" /\ y.at # "escalated" => x = y
    BY Working DEF OneNew
  <1>2. task'.gate.outcome # "open" /\ override' = NoCommit
    BY Working
  <1>3. task'.state \in Final \union {"Reviewing", "AwaitingApproval"} /\ (task'.landing \/ ~worktree')
    BY Working
  <1>4. task'.state \in Final => ~worktree'
    BY DEF Alone, EndedBare, Final
  <1> QED
    BY <1>1, <1>2, <1>3, <1>4 DEF Alone, OneJob, Holding, Overriding, OpenRound, EndedBare, InFlight

(* One that ends it. *)
LEMMA AloneEnds ==
  ASSUME Alone, NEW j \in jobs, j.at # "escalated", \A i \in jobs' : i \in jobs \ {j} \/ i.at = "escalated",
         override' = override, task'.gate.outcome = "open" => OpenRound',
         task'.state \in Final => ~worktree'
  PROVE  Alone'
  <1>1. InFlight' = {} /\ override' = NoCommit
    BY Working DEF InFlight
  <1> QED
    BY <1>1 DEF Alone, OneJob, Holding, Overriding, OpenRound, EndedBare

(* One that starts the only job. *)
LEMMA AloneStarts ==
  ASSUME InFlight = {}, NEW k, jobs' \subseteq jobs \union {k}, override' = NoCommit,
         task'.gate.outcome # "open", task'.landing \/ ~worktree',
         task'.state \in {"Reviewing", "AwaitingApproval"}
  PROVE  Alone'
  <1>1. \A i \in jobs' : i.at # "escalated" => i = k
    BY DEF InFlight
  <1> QED
    BY <1>1 DEF Alone, OneJob, Holding, Overriding, OpenRound, EndedBare, InFlight, Final

(* A job that leaves the task alone and goes on, or ends. *)
LEMMA AloneGoesOn ==
  ASSUME Alone, NEW j \in jobs, j.at # "escalated", OneNew(j), UNCHANGED <<task, override, worktree>>
  PROVE  Alone'
  BY AloneMoves

(* The worker's, the orchestrator's and the user's steps. *)
LEMMA AloneOutside ==
  ASSUME Typed, Alone, WorkerEdits \/ (\E o \in BOOLEAN : TargetMoves(o)) PROVE Alone'
  BY AloneHolds DEF WorkerEdits, TargetMoves, tree

LEMMA AloneReports ==
  ASSUME Typed, Alone, NEW n \in BOOLEAN, WorkerReports(n) PROVE Alone'
  <1>1. /\ task'.state = "Reported" /\ task'.gate = task.gate /\ task.state = "Running"
        /\ UNCHANGED <<jobs, override, worktree>>
    BY TypedParts DEF WorkerReports, Task, tree
  <1> QED
    BY <1>1 DEF Alone, OneJob, Holding, Overriding, OpenRound, EndedBare, InFlight, Final

(* A task that was handed back, or has a fix to land, has nothing under way. *)
LEMMA Idle ==
  ASSUME Alone, task.state \in {"Reported", "ReadyToLand", "Running"}
  PROVE  InFlight = {} /\ task.gate.outcome # "open"
  BY DEF Alone, Holding, OpenRound, Final

LEMMA AloneBegins ==
  ASSUME Typed, Alone, NEW fresh \in BOOLEAN, BeginLanding(fresh), UNCHANGED <<override, worktree>>,
         task.state \in {"Reported", "ReadyToLand"}, override = NoCommit
  PROVE  Alone'
  <1>1. /\ task'.state = "Reviewing" /\ task'.landing = TRUE /\ task'.gate = task.gate
    BY TypedParts DEF BeginLanding, Task
  <1>2. \E k : jobs' = jobs \union {k}
    BY DEF BeginLanding
  <1> QED
    BY <1>1, <1>2, Idle, AloneStarts

LEMMA AloneAccept == ASSUME Typed, Alone, Accept PROVE Alone'
  BY AloneBegins DEF Accept, tree

LEMMA AloneRelay == ASSUME Typed, Alone, NEW r \in relays, Relay(r) PROVE Alone'
  <1>1. UNCHANGED <<override, worktree>>
    BY DEF Relay, tree
  <1>2. CASE task.state = "Reported" /\ task.landing
    <2>1. override = NoCommit
      BY <1>2 DEF Alone, Overriding
    <2> QED
      BY <1>1, <1>2, <2>1, AloneBegins, AloneHolds DEF Relay
  <1>3. CASE ~(task.state = "Reported" /\ task.landing)
    BY <1>1, <1>3, AloneHolds DEF Relay
  <1> QED
    BY <1>2, <1>3

LEMMA AloneOverrideRead == ASSUME Typed, Alone, Patient, OverrideRead PROVE Alone'
  <1>1. /\ override' = task.gate.commit /\ task.gate.outcome = "failed" /\ ~task.landing
        /\ task.state = "Reported" /\ UNCHANGED <<task, jobs, worktree>>
    BY DEF OverrideRead, InHand, tree
  <1> QED
    BY <1>1, Idle DEF Alone, OneJob, Holding, Overriding, OpenRound, EndedBare, InFlight

LEMMA AloneOverrideStart == ASSUME Typed, Alone, OverrideStart PROVE Alone'
  <1>1. /\ override # NoCommit /\ override' = NoCommit /\ worktree' = worktree
        /\ \E k : jobs' = jobs \union {k}
    BY DEF OverrideStart, tree
  <1>2. InFlight = {} /\ task.gate.outcome = "failed"
    BY <1>1 DEF Alone, Holding, Overriding
  <1>3. /\ task'.state = "Reviewing" /\ task'.landing = TRUE /\ task'.gate.outcome = "failed"
    BY <1>2, TypedParts DEF OverrideStart, Task, Gate
  <1> QED
    BY <1>1, <1>2, <1>3, AloneStarts

LEMMA AloneSendBack == ASSUME Typed, Alone, Patient, SendBack PROVE Alone'
  <1>1. /\ ~InHand /\ override = NoCommit /\ worktree /\ UNCHANGED <<jobs, override, worktree>>
        /\ task.state \in {"Reported", "ReadyToLand", "Reviewing", "AwaitingApproval"}
    BY DEF SendBack, tree
  <1>2. InFlight = {} /\ task.gate.outcome # "open"
    BY <1>1 DEF Alone, Holding, OpenRound, InHand, Final
  <1>3. task'.state = "Running" /\ task'.gate = task.gate
    BY TypedParts DEF SendBack, Reopened, Task
  <1> QED
    BY <1>1, <1>2, <1>3 DEF Alone, OneJob, Holding, Overriding, OpenRound, EndedBare, InFlight, Final

LEMMA AloneStop == ASSUME Typed, Alone, Stop PROVE Alone'
  <1>1. /\ task'.state = "Stopped" /\ task'.landing = FALSE /\ task'.gate = task.gate
        /\ worktree' = FALSE /\ UNCHANGED <<jobs, override>>
    BY TypedParts DEF Stop, Dispose, Task
  <1> QED
    BY <1>1 DEF Alone, OneJob, Holding, Overriding, OpenRound, EndedBare, InFlight, Final

LEMMA AloneStopCloseGate == ASSUME Typed, Alone, StopCloseGate PROVE Alone'
  <1>1. UNCHANGED <<jobs, override, worktree>>
    BY DEF StopCloseGate, tree
  <1>2. CASE task' = task
    BY <1>1, <1>2, AloneHolds
  <1>3. CASE task' # task
    <2>1. /\ task.gate.outcome = "open" /\ task'.gate.outcome = "superseded"
          /\ task'.gate.commit = task.gate.commit
          /\ task'.landing = task.landing /\ task'.state = task.state
      BY <1>3, TypedParts, TaskTyped DEF StopCloseGate, Task, Gate
    <2> QED
      BY <1>1, <2>1 DEF Alone, OneJob, Holding, Overriding, OpenRound, EndedBare, InFlight
  <1> QED
    BY <1>2, <1>3

(* The jobs' steps. *)
LEMMA AloneBuild == ASSUME Typed, Alone, NEW j \in jobs, Build(j) PROVE Alone'
  <1>1. override' = override /\ j.at = "build"
    BY DEF Build
  <1>2. CASE UNCHANGED <<task, worktree>>
    <2>1. OneNew(j)
      BY DEF Build, Replace, OneNew
    <2> QED
      BY <1>1, <1>2, <2>1, AloneGoesOn
  <1>3. CASE Dispose("Done") /\ Replace(j, {})
    <2>1. task'.gate = task.gate /\ worktree' = FALSE
      BY <1>3, TypedParts DEF Dispose, Task
    <2>2. task'.gate.outcome # "open"
      BY <1>1, <2>1, Working
    <2> QED
      BY <1>1, <1>3, <2>1, <2>2, AloneEnds DEF Replace
  <1> QED
    BY <1>2, <1>3 DEF Build

LEMMA AloneRecord == ASSUME Typed, Alone, NEW j \in jobs, Record(j) PROVE Alone'
  <1>1. /\ task'.gate = task.gate /\ task'.landing = task.landing /\ task'.state = task.state
    BY TypedParts DEF Record, Task
  <1>2. UNCHANGED <<override, worktree>> /\ j.at = "built" /\ OneNew(j)
    BY DEF Record, Replace, OneNew, tree
  <1> QED
    BY <1>1, <1>2, AloneMoves

LEMMA AloneOpen == ASSUME Typed, Alone, NEW j \in jobs, Open(j) PROVE Alone'
  <1>1. UNCHANGED <<task, override, worktree>> /\ j.at = "open"
    BY DEF Open, tree
  <1>2. \E k : jobs' \subseteq (jobs \ {j}) \union {k}
    BY DEF Open, Replace, NotOpened
  <1> QED
    BY <1>1, <1>2, AloneGoesOn DEF OneNew

LEMMA AloneInstall == ASSUME Typed, Alone, NEW j \in jobs, Install(j) PROVE Alone'
  <1>1. UNCHANGED <<override, worktree>> /\ j.at = "install" /\ Replace(j, {})
    BY DEF Install, tree
  <1>2. task.landing \/ ~worktree
    BY <1>1, Working
  <1>3. CASE task' = task
    BY <1>1, <1>3, AloneGoesOn DEF Replace, OneNew
  <1>4. CASE task' = [task EXCEPT !.gate = j.gate, !.state = "Reviewing"]
    <2>1. task'.state = "Reviewing" /\ task'.landing = task.landing /\ task'.gate = j.gate
      BY <1>4, TypedParts DEF Task
    <2> QED
      BY <1>1, <1>2, <2>1, AloneEnds DEF Replace, OpenRound, Final
  <1> QED
    BY <1>3, <1>4 DEF Install

LEMMA AloneAct == ASSUME Typed, Alone, NEW j \in jobs, Act(j) PROVE Alone'
  <1>1. UNCHANGED <<task, override, worktree>> /\ j.at = "act"
    BY DEF Act, tree
  <1>2. OneNew(j)
    BY DEF Act, Replace, OneNew
  <1> QED
    BY <1>1, <1>2, AloneGoesOn

LEMMA AloneStartFix == ASSUME Typed, Alone, NEW j \in jobs, StartFix(j) PROVE Alone'
  <1>1. UNCHANGED <<override, worktree>> /\ j.at = "sendBack" /\ OneNew(j)
    BY DEF StartFix, Become, Replace, OneNew, tree
  <1>2. /\ task'.gate = task.gate /\ task'.landing = task.landing /\ task'.state = task.state
    BY TypedParts DEF StartFix, Task
  <1> QED
    BY <1>1, <1>2, AloneMoves

LEMMA AloneFix == ASSUME Typed, Alone, NEW j \in jobs, Fix(j) PROVE Alone'
  <1>1. UNCHANGED <<override, worktree>> /\ j.at = "fix"
    BY DEF Fix, tree
  <1>2. CASE task' = Reopened /\ Replace(j, {})
    <2>1. task'.gate = task.gate /\ task'.state = "Running"
      BY <1>2, TypedParts DEF Reopened, Task
    <2>2. task'.gate.outcome # "open"
      BY <1>1, <2>1, Working
    <2> QED
      BY <1>1, <1>2, <2>1, <2>2, AloneEnds DEF Replace, Final
  <1>3. CASE task' = task /\ Become(j, "escalate")
    BY <1>1, <1>3, AloneGoesOn DEF Become, Replace, OneNew
  <1> QED
    BY <1>2, <1>3 DEF Fix

LEMMA AloneEscalate == ASSUME Typed, Alone, NEW j \in jobs, Escalate(j) PROVE Alone'
  <1>1. override' = override /\ j.at = "escalate"
    BY DEF Escalate
  <1>2. task'.gate = task.gate /\ task'.state = "Reported"
    BY TypedParts DEF Escalate, Task
  <1>3. \A i \in jobs' : i \in jobs \ {j} \/ i.at = "escalated"
    BY TypedParts DEF Escalate, Replace, JobType
  <1>4. task'.gate.outcome # "open"
    BY <1>1, <1>2, Working
  <1> QED
    BY <1>1, <1>2, <1>3, <1>4, AloneEnds DEF Final

LEMMA AloneEscalated == ASSUME Typed, Alone, NEW j \in jobs, Escalated(j) PROVE Alone'
  <1>1. /\ task'.gate = task.gate /\ task'.landing = task.landing /\ task'.state = task.state
    BY TypedParts DEF Escalated, Task
  <1> QED
    BY <1>1, AloneHolds DEF Escalated, Replace, tree

LEMMA AloneApprove == ASSUME Typed, Alone, NEW j \in jobs, Approve(j) PROVE Alone'
  <1>1. UNCHANGED <<override, worktree>> /\ j.at = "approve" /\ OneNew(j)
    BY DEF Approve, Become, Replace, OneNew, tree
  <1>2. /\ task'.gate = task.gate /\ task'.landing = task.landing
        /\ task'.state \in {task.state, "AwaitingApproval"}
    BY TypedParts DEF Approve, Task
  <1> QED
    BY <1>1, <1>2, AloneMoves

LEMMA AloneAnswers ==
  ASSUME Typed, Alone, NEW j \in jobs, NEW answer, Answer(j, answer) \/ Answered(j) \/ Land(j)
  PROVE  Alone'
  <1>1. UNCHANGED <<task, override, worktree>> /\ j.at # "escalated"
    BY DEF Answer, Answered, Land, tree
  <1>2. OneNew(j)
    BY DEF Answer, Answered, Land, Replace, OneNew
  <1> QED
    BY <1>1, <1>2, AloneGoesOn

LEMMA AloneGit == ASSUME Typed, Alone, NEW j \in jobs, GitLands(j) \/ Replay(j) PROVE Alone'
  <1>1. UNCHANGED <<task, override, worktree>> /\ j.at # "escalated"
    BY DEF GitLands, Replay, tree
  <1>2. OneNew(j)
    BY DEF GitLands, Replay, Become, Replace, OneNew
  <1> QED
    BY <1>1, <1>2, AloneGoesOn

(* What the record of a replay makes of the task. *)
LEMMA ReplayRecorded ==
  ASSUME Typed, NEW j \in jobs, Replayed(j)
  PROVE  LET old == task.gate
             new == task'.gate
         IN /\ task'.candidate = (IF task.candidate = NoCommit THEN NoCommit ELSE j.commit)
            /\ new.round = old.round /\ new.outcome = old.outcome /\ new.left = old.left
            /\ new.worst = old.worst /\ new.relanding = old.relanding
            /\ new.overridden = old.overridden
            /\ UNCHANGED <<task.state, task.landing, task.report>>
            /\ IF j.arg = "replay" /\ old.overridden
                 THEN new.commit = j.commit /\ Replace(j, {[j EXCEPT !.at = "land", !.gate = new]})
                 ELSE new = old /\ Become(j, "open")
  <1> DEFINE candidate == IF task.candidate = NoCommit THEN NoCommit ELSE j.commit
             replaced == [task EXCEPT !.candidate = candidate]
             despite == j.arg = "replay" /\ task.gate.overridden
             gate == [task.gate EXCEPT !.commit = j.commit]
  <1>1. task \in Task /\ task.gate \in Gate
    BY TypedParts, TaskTyped
  <1>2. /\ gate.round = task.gate.round /\ gate.outcome = task.gate.outcome
        /\ gate.left = task.gate.left /\ gate.worst = task.gate.worst
        /\ gate.relanding = task.gate.relanding /\ gate.overridden = task.gate.overridden
        /\ gate.commit = j.commit
    BY <1>1 DEF Gate
  <1>3. /\ replaced.candidate = candidate /\ replaced.gate = task.gate
        /\ replaced.state = task.state /\ replaced.landing = task.landing
        /\ replaced.report = task.report
    BY <1>1 DEF Task
  <1>4. IF despite
          THEN /\ task' = [replaced EXCEPT !.gate.commit = j.commit]
               /\ Replace(j, {[j EXCEPT !.at = "land", !.gate = task'.gate]})
          ELSE task' = replaced /\ Become(j, "open")
    BY DEF Replayed
  <1>5. CASE despite
    <2>1. task' = [replaced EXCEPT !.gate = gate]
      BY <1>3, <1>4, <1>5
    <2>2. /\ task'.gate = gate /\ task'.candidate = candidate
          /\ UNCHANGED <<task.state, task.landing, task.report>>
      <3> HIDE DEF gate, candidate
      <3> QED
        BY <1>1, <2>1 DEF Task
    <2> HIDE DEF gate, candidate, replaced
    <2> QED
      BY <1>2, <1>4, <1>5, <2>2 DEF candidate
  <1>6. CASE ~despite
    BY <1>3, <1>4, <1>6
  <1> QED
    BY <1>5, <1>6

LEMMA AloneReplayed == ASSUME Typed, Alone, NEW j \in jobs, Replayed(j) PROVE Alone'
  <1>1. UNCHANGED <<override, worktree>> /\ j.at = "replayed"
    BY DEF Replayed, tree
  <1>2. OneNew(j)
    BY DEF Replayed, Become, Replace, OneNew
  <1> QED
    BY <1>1, <1>2, ReplayRecorded, AloneMoves

LEMMA AloneLanded == ASSUME Typed, Alone, NEW j \in jobs, Landed(j) PROVE Alone'
  <1>1. override' = override /\ j.at = "landed" /\ worktree' = FALSE /\ Replace(j, {})
    BY DEF Landed, Dispose
  <1>2. task'.gate = task.gate
    BY TypedParts DEF Landed, Dispose, Task
  <1>3. task'.gate.outcome # "open"
    BY <1>1, <1>2, Working
  <1> QED
    BY <1>1, <1>2, <1>3, AloneEnds DEF Replace

LEMMA AloneHandBack == ASSUME Typed, Alone, NEW j \in jobs, HandBack(j) PROVE Alone'
  <1>1. UNCHANGED <<override, worktree>> /\ j.at = "problem" /\ Replace(j, {})
    BY DEF HandBack, tree
  <1>2. CASE task' = task
    BY <1>1, <1>2, AloneGoesOn DEF Replace, OneNew
  <1>3. CASE task' = [task EXCEPT !.state = j.arg, !.landing = FALSE]
    <2>1. task'.gate = task.gate /\ task'.state = j.arg
      BY <1>3, TypedParts DEF Task
    <2>2. task'.state \notin Final
      BY <1>1, <2>1, TypedParts DEF ProblemsTyped, Final
    <2>3. task'.gate.outcome # "open"
      BY <1>1, <2>1, Working
    <2> QED
      BY <1>1, <2>2, <2>3, AloneEnds DEF Replace
  <1> QED
    BY <1>2, <1>3 DEF HandBack

(* A result that counts: the open round takes it, and the last one decides *)
(* the round and brings the job that acts on it.                           *)
Counted(m) ==
    task.gate.round = m.round /\ task.gate.outcome = "open" /\ task.state = "Reviewing"

LEMMA CountedReport ==
  ASSUME Typed, NEW m \in members, NEW result \in Results, MemberReports(m, result), Counted(m)
  PROVE  LET old   == task.gate
             new   == task'.gate
             worst == Worse(old.worst, result)
         IN /\ new.round = old.round /\ new.commit = old.commit /\ new.left = old.left \ {m.role}
            /\ new.relanding = old.relanding /\ new.overridden = old.overridden
            /\ worst \in Results
            /\ \/ /\ old.left # {m.role} /\ new.outcome = "open" /\ new.worst = worst
                  /\ jobs' = jobs
               \/ /\ old.left = {m.role} /\ new.outcome = worst
                  /\ \E arg \in Args : jobs' = jobs \union {Job("act", new, NoCommit, arg)}
            /\ UNCHANGED <<task.state, task.landing, task.candidate, task.report>>
  <1> DEFINE worst == Worse(task.gate.worst, result)
             all   == task.gate.left = {m.role}
             gate  == [task.gate EXCEPT !.left = @ \ {m.role},
                                        !.worst = IF all THEN "none" ELSE worst,
                                        !.outcome = IF all THEN worst ELSE @]
             again == IF task.landing /\ task.fixes < FixRounds THEN "again" ELSE "decide"
  <1>1. task.gate \in Gate /\ task.gate.worst \in Results \union {"none"} /\ again \in Args
    BY TypedParts, TaskTyped DEF Gate, Args
  <1>2. worst \in Results
    BY <1>1, WorseTyped
  <1>3. /\ task' = [task EXCEPT !.gate = gate]
        /\ jobs' = IF all THEN jobs \union {Job("act", gate, NoCommit, again)} ELSE jobs
    BY DEF MemberReports, Counted
  <1> HIDE DEF again
  <1>4. /\ gate.round = task.gate.round /\ gate.commit = task.gate.commit
        /\ gate.left = task.gate.left \ {m.role} /\ gate.relanding = task.gate.relanding
        /\ gate.overridden = task.gate.overridden
        /\ all => gate.outcome = worst
        /\ ~all => gate.outcome = task.gate.outcome /\ gate.worst = worst
    <2> HIDE DEF worst, all
    <2> QED
      BY <1>1 DEF Gate
  <1> HIDE DEF gate
  <1>5. /\ task'.gate = gate
        /\ UNCHANGED <<task.state, task.landing, task.candidate, task.report>>
    BY <1>3, TypedParts DEF Task
  <1>6. task.gate.outcome = "open"
    BY DEF Counted
  <1> HIDE DEF worst
  <1> QED
    BY <1>1, <1>2, <1>3, <1>4, <1>5, <1>6 DEF worst

LEMMA IgnoredReport ==
  ASSUME NEW m \in members, NEW result \in Results, MemberReports(m, result), ~Counted(m)
  PROVE  UNCHANGED <<task, jobs>>
  BY DEF MemberReports, Counted

LEMMA AloneMemberReports ==
  ASSUME Typed, Alone, NEW m \in members, NEW result \in Results, MemberReports(m, result)
  PROVE  Alone'
  <1>1. UNCHANGED <<override, worktree>>
    BY DEF MemberReports, tree
  <1>2. CASE ~Counted(m)
    BY <1>1, <1>2, IgnoredReport, AloneHolds
  <1>3. CASE Counted(m)
    <2>1. InFlight = {} /\ override = NoCommit /\ (task.landing \/ ~worktree)
      BY <1>3 DEF Counted, Alone, Holding, Overriding, OpenRound
    <2>2. task'.state = "Reviewing" /\ task'.landing = task.landing
      BY <1>3, CountedReport DEF Counted
    <2>3. CASE task'.gate.outcome = "open"
      <3>1. jobs' = jobs
        BY <1>3, <2>3, CountedReport DEF Results
      <3> QED
        BY <1>1, <2>1, <2>2, <2>3, <3>1
        DEF Alone, OneJob, Holding, Overriding, OpenRound, EndedBare, InFlight, Final
    <2>4. CASE task'.gate.outcome # "open"
      <3>1. \E k : jobs' \subseteq jobs \union {k}
        BY <1>3, <2>4, CountedReport
      <3> QED
        BY <1>1, <2>1, <2>2, <2>4, <3>1, AloneStarts
    <2> QED
      BY <2>3, <2>4
  <1> QED
    BY <1>2, <1>3

(* What a restart makes of the task. *)
LEMMA Restarted ==
  ASSUME Typed, Restart
  PROVE  /\ jobs' = {} /\ relays' = {} /\ members' = {} /\ override' = NoCommit
         /\ gates' = "free" /\ stop' = "none" /\ UNCHANGED <<ask, work, target, history>>
         /\ task'.gate.round = task.gate.round /\ task'.gate.commit = task.gate.commit
         /\ task'.gate.relanding = task.gate.relanding
         /\ task'.gate.overridden = task.gate.overridden
         /\ \/ /\ task.state \in {"Reported", "Running"} /\ task'.gate = task.gate
               /\ task'.candidate = task.candidate
               /\ task'.state = "Reported" /\ ~task'.landing /\ worktree' = worktree
            \/ /\ task.state \in {"Reviewing", "AwaitingApproval"}
               /\ task'.gate.outcome =
                     (IF task.gate.outcome = "open" THEN "superseded" ELSE task.gate.outcome)
               /\ task'.candidate = NoCommit
               /\ task'.state = "Reported" /\ ~task'.landing /\ worktree' = worktree
            \/ /\ task.state = "Running" /\ task'.gate = task.gate
               /\ task'.candidate = task.candidate
               /\ task'.state = "Stopped" /\ ~worktree'
            \/ /\ task.state \notin {"Reviewing", "AwaitingApproval"}
               /\ task.state = "Reported" => ~task.landing
               /\ UNCHANGED <<task, worktree>>
  <1> DEFINE gate == [task.gate EXCEPT !.outcome = IF @ = "open" THEN "superseded" ELSE @]
  <1>1. /\ gate.round = task.gate.round /\ gate.commit = task.gate.commit
        /\ gate.relanding = task.gate.relanding /\ gate.overridden = task.gate.overridden
        /\ gate.outcome = (IF task.gate.outcome = "open" THEN "superseded" ELSE task.gate.outcome)
    BY TypedParts, TaskTyped DEF Gate
  <1>2. /\ jobs' = {} /\ relays' = {} /\ members' = {} /\ override' = NoCommit
        /\ gates' = "free" /\ stop' = "none" /\ UNCHANGED <<ask, work, target, history>>
    BY DEF Restart
  <1>3. \/ /\ task.state \in {"Reported", "Running"} /\ worktree' = worktree
           /\ task' = [task EXCEPT !.state = "Reported", !.landing = FALSE]
        \/ /\ task.state \in {"Reviewing", "AwaitingApproval"} /\ worktree' = worktree
           /\ task' = [task EXCEPT !.state = "Reported", !.landing = FALSE,
                                   !.candidate = NoCommit, !.gate = gate]
        \/ /\ task.state = "Running" /\ task' = [task EXCEPT !.state = "Stopped"] /\ worktree' = FALSE
        \/ /\ task.state \notin {"Reviewing", "AwaitingApproval"}
           /\ task.state = "Reported" => ~task.landing
           /\ UNCHANGED <<task, worktree>>
    BY DEF Restart
  <1> HIDE DEF gate
  <1> QED
    BY <1>1, <1>2, <1>3, TypedParts DEF Task

LEMMA AloneRestart == ASSUME Typed, Alone, Restart PROVE Alone'
  <1>1. jobs' = {} /\ override' = NoCommit
    BY Restarted
  <1>2. task.state \in {"Reported", "Running"} => task.gate.outcome # "open"
    BY DEF Alone, OpenRound, Final
  <1>3. task'.gate.outcome = "open" => OpenRound'
    BY <1>2, Restarted DEF Alone, OpenRound, Final
  <1>4. EndedBare'
    BY Restarted DEF Alone, EndedBare, Final
  <1> QED
    BY <1>1, <1>3, <1>4 DEF Alone, OneJob, Holding, Overriding, OpenRound, InFlight

LEMMA AloneStep == ASSUME Patient, Typed, Alone, [Next]_vars PROVE Alone'
  <1>1. CASE UNCHANGED vars
    BY <1>1, AloneHolds DEF vars, inputs, tree
  <1>2. ASSUME NEW j \in jobs, JobSteps(j) \/ \E a \in {"allow", "deny", "withdrawn"} : Answer(j, a)
        PROVE  Alone'
    BY <1>2, AloneBuild, AloneRecord, AloneOpen, AloneInstall, AloneAct, AloneStartFix, AloneFix,
       AloneEscalate, AloneEscalated, AloneApprove, AloneAnswers, AloneGit, AloneReplayed,
       AloneLanded, AloneHandBack, Zenon DEF JobSteps
  <1> QED
    BY <1>1, <1>2, AloneOutside, AloneReports, AloneAccept, AloneRelay, AloneOverrideRead,
       AloneOverrideStart, AloneSendBack, AloneStop, AloneStopCloseGate, AloneMemberReports,
       AloneRestart, Zenon DEF Next

-----------------------------------------------------------------------------
(* Each version lands once.  What may still land is newer than what the    *)
(* target has; once it landed, nothing is left to land but what is built   *)
(* from a worktree that changed since.                                     *)

Newer(c) == carried < c.work /\ c.work <= work

(* The candidate landed, and its end is recorded or about to be.           *)
Over == task.state \in Final /\ InFlight = {} /\ override = NoCommit
Settled == (\E j \in jobs : j.at = "landed") \/ Over

CandidateNewer == Settled \/ task.candidate = NoCommit \/ carried < task.candidate.work

Pending == {"built", "git", "replayed"}

Versions ==
    /\ carried <= work /\ task.candidate.work <= work
    /\ \A j \in jobs : j.at \in Pending => Newer(j.commit)
    /\ \A l \in landings : l.commit.work <= carried
    /\ CandidateNewer
    /\ LandsOnce

LEMMA VersionsInit == Init => Versions
  <1> SUFFICES ASSUME Init PROVE Versions
    OBVIOUS
  <1>1. task.candidate = NoCommit /\ carried = 0 /\ work = 1 /\ jobs = {} /\ landings = {}
    BY DEF Init
  <1> QED
    BY <1>1 DEF Versions, CandidateNewer, LandsOnce, NoCommit

(* A task whose job works on has not landed. *)
LEMMA NotSettled ==
  ASSUME Alone, NEW j \in jobs, j.at \notin {"escalated", "landed"} PROVE ~Settled
  BY Working DEF Settled, Over, InFlight

LEMMA IdleNotSettled ==
  ASSUME Alone, task.state \in {"Reported", "ReadyToLand", "Running"} PROVE ~Settled
  BY Idle DEF Settled, Over, InFlight, Final

(* What is in range. *)
LEMMA WorkTyped ==
  ASSUME Typed
  PROVE  /\ work \in Nat /\ carried \in Nat /\ task.candidate \in CommitOrNone
         /\ task.candidate.work \in Nat /\ \A j \in jobs : j.commit.work \in Nat
         /\ \A l \in landings : l.commit.work \in Nat
  BY LandingAssumption, TypedParts, TaskTyped DEF CommitOrNone, JobType

LEMMA WorkTypedNext ==
  ASSUME Typed'
  PROVE  /\ work' \in Nat /\ carried' \in Nat /\ task'.candidate \in CommitOrNone
         /\ task'.candidate.work \in Nat /\ \A j \in jobs' : j.commit.work \in Nat
         /\ \A l \in landings' : l.commit.work \in Nat
  <1>1. /\ work' \in 1 .. MaxWork /\ carried' \in 0 .. MaxWork /\ task' \in Task
        /\ jobs' \subseteq JobType /\ landings' \subseteq [commit : CommitOrNone, nr : Nat]
    BY DEF Typed, TypeOK, JobType
  <1> QED
    BY <1>1, LandingAssumption, TaskTyped DEF CommitOrNone, JobType

(* A step that lands nothing. *)
LEMMA VersionsHold ==
  ASSUME Typed, Typed', Versions, work <= work', UNCHANGED <<carried, landings>>,
         \/ task'.candidate = NoCommit
         \/ task'.candidate = task.candidate /\ (Settled => Settled')
         \/ carried < task'.candidate.work /\ task'.candidate.work <= work,
         \A k \in jobs' : k \in jobs \/ (k.at \in Pending => Newer(k.commit))
  PROVE  Versions'
  <1>1. /\ carried <= work /\ task.candidate.work <= work
        /\ \A j \in jobs : j.at \in Pending => Newer(j.commit)
        /\ \A l \in landings : l.commit.work <= carried
        /\ CandidateNewer /\ LandsOnce
    BY DEF Versions
  <1>2. /\ work \in Nat /\ carried \in Nat /\ task.candidate.work \in Nat
        /\ work' \in Nat /\ carried' \in Nat /\ task'.candidate.work \in Nat
        /\ \A k \in jobs' : k.commit.work \in Nat
    BY WorkTyped, WorkTypedNext
  <1>3. carried' <= work' /\ task'.candidate.work <= work'
    BY <1>1, <1>2 DEF NoCommit
  <1>4. \A k \in jobs' : k.at \in Pending => Newer(k.commit)'
    <2> SUFFICES ASSUME NEW k \in jobs', k.at \in Pending PROVE Newer(k.commit)'
      OBVIOUS
    <2>1. Newer(k.commit) /\ k.commit.work \in Nat
      BY <1>1, <1>2
    <2> QED
      BY <1>2, <2>1 DEF Newer
  <1>5. CandidateNewer'
    BY <1>1 DEF CandidateNewer
  <1> QED
    BY <1>1, <1>3, <1>4, <1>5 DEF Versions, LandsOnce

(* One that leaves the candidate, the work and the target alone. *)
LEMMA VersionsStay ==
  ASSUME Typed, Typed', Versions, UNCHANGED <<carried, landings>>, work' = work,
         task'.candidate \in {NoCommit, task.candidate}, Settled => Settled',
         \A k \in jobs' : k \in jobs \/ k.at \notin Pending
  PROVE  Versions'
  BY WorkTyped, VersionsHold

(* The steps from outside. *)
LEMMA VersionsOutside ==
  ASSUME Typed, Typed', Versions, WorkerEdits \/ \E o \in BOOLEAN : TargetMoves(o)
  PROVE  Versions'
  <1>1. work <= work' /\ UNCHANGED <<task, jobs, override, carried, landings>>
    BY WorkTyped DEF WorkerEdits, TargetMoves, target, tree
  <1>2. Settled => Settled'
    BY <1>1 DEF Settled, Over, InFlight
  <1> QED
    BY <1>1, <1>2, VersionsHold

LEMMA VersionsReports ==
  ASSUME Typed, Typed', Alone, Versions, NEW n \in BOOLEAN, WorkerReports(n) PROVE Versions'
  <1>1. /\ task'.candidate = task.candidate /\ task.state = "Running"
        /\ UNCHANGED <<jobs, work, carried, landings>>
    BY TypedParts DEF WorkerReports, Task, target, tree
  <1> QED
    BY <1>1, IdleNotSettled, VersionsStay

LEMMA VersionsBegins ==
  ASSUME Typed, Typed', Alone, Versions, NEW fresh \in BOOLEAN, BeginLanding(fresh),
         task.state \in {"Reported", "ReadyToLand"}, UNCHANGED <<work, carried, landings>>
  PROVE  Versions'
  <1>1. task'.candidate \in {NoCommit, task.candidate}
    BY TypedParts DEF BeginLanding, Task
  <1>2. \A k \in jobs' : k \in jobs \/ k.at \in {"land", "build"}
    BY DEF BeginLanding, Job
  <1> QED
    BY <1>1, <1>2, IdleNotSettled, VersionsStay DEF Pending

LEMMA VersionsAccept ==
  ASSUME Typed, Typed', Alone, Versions, Accept PROVE Versions'
  BY VersionsBegins DEF Accept, tree, target

LEMMA VersionsRelay ==
  ASSUME Typed, Typed', Alone, Versions, NEW r \in relays, Relay(r) PROVE Versions'
  <1>1. UNCHANGED <<work, carried, landings, override>>
    BY DEF Relay, tree, target
  <1>2. CASE UNCHANGED <<task, jobs>>
    <2>1. Settled => Settled'
      BY <1>1, <1>2 DEF Settled, Over, InFlight
    <2> QED
      BY <1>1, <1>2, <2>1, VersionsStay
  <1>3. CASE task.state = "Reported" /\ BeginLanding(FALSE)
    BY <1>1, <1>3, VersionsBegins
  <1> QED
    BY <1>2, <1>3 DEF Relay

LEMMA VersionsOverride ==
  ASSUME Typed, Typed', Alone, Versions, OverrideRead \/ OverrideStart PROVE Versions'
  <1>1. UNCHANGED <<work, carried, landings>> /\ task'.candidate = task.candidate
    BY TypedParts DEF OverrideRead, OverrideStart, tree, target, Task
  <1>2. ~Settled
    <2>1. CASE OverrideRead
      BY <2>1, IdleNotSettled DEF OverrideRead
    <2>2. CASE OverrideStart
      BY <2>2 DEF OverrideStart, Alone, Holding, InFlight, Settled, Over
    <2> QED
      BY <2>1, <2>2
  <1>3. \A k \in jobs' : k \in jobs \/ k.at = "approve"
    BY DEF OverrideRead, OverrideStart, Job
  <1> QED
    BY <1>1, <1>2, <1>3, VersionsStay DEF Pending

LEMMA VersionsSendBack == ASSUME Typed, Typed', Versions, SendBack PROVE Versions'
  <1>1. UNCHANGED <<jobs, work, carried, landings>> /\ task'.candidate = NoCommit
    BY TypedParts DEF SendBack, Reopened, Task, tree, target
  <1> QED
    BY <1>1, WorkTyped, VersionsHold

LEMMA VersionsStop ==
  ASSUME Typed, Typed', Versions, Stop \/ StopCloseGate PROVE Versions'
  <1>1. /\ UNCHANGED <<jobs, work, carried, landings, override>> /\ task'.candidate = task.candidate
        /\ task.state \in Final => task'.state = task.state
    BY TypedParts DEF Stop, StopCloseGate, Dispose, Task, tree, target
  <1>2. Settled => Settled'
    BY <1>1 DEF Settled, Over, InFlight
  <1> QED
    BY <1>1, <1>2, VersionsStay

LEMMA VersionsMemberReports ==
  ASSUME Typed, Typed', Alone, Versions, NEW m \in members, NEW result \in Results,
         MemberReports(m, result)
  PROVE  Versions'
  <1>1. UNCHANGED <<work, carried, landings, override>>
    BY DEF MemberReports, tree, target
  <1>2. CASE ~Counted(m)
    <2>1. UNCHANGED <<task, jobs>>
      BY <1>2, IgnoredReport
    <2>2. Settled => Settled'
      BY <1>1, <2>1 DEF Settled, Over, InFlight
    <2> QED
      BY <1>1, <2>1, <2>2, VersionsStay
  <1>3. CASE Counted(m)
    <2>1. task'.candidate = task.candidate
      BY <1>3, CountedReport
    <2>2. \A k \in jobs' : k \in jobs \/ k.at = "act"
      BY <1>3, CountedReport DEF Job
    <2>3. ~Settled
      BY <1>3 DEF Counted, Alone, Holding, InFlight, Settled, Over, Final
    <2> QED
      BY <1>1, <2>1, <2>2, <2>3, VersionsStay DEF Pending
  <1> QED
    BY <1>2, <1>3

(* A job that works on lands nothing itself and builds no commit. *)
LEMMA VersionsMoves ==
  ASSUME Typed, Typed', Alone, Versions, NEW j \in jobs, j.at \notin {"escalated", "landed"},
         UNCHANGED <<work, carried, landings>>, task'.candidate \in {NoCommit, task.candidate},
         \A k \in jobs' : k \in jobs \/ k.at \notin Pending
  PROVE  Versions'
  BY NotSettled, VersionsStay

LEMMA VersionsBuild ==
  ASSUME Typed, Typed', Alone, Versions, NEW j \in jobs, Build(j) PROVE Versions'
  <1>1. j.at = "build" /\ UNCHANGED <<work, carried, landings>> /\ j \in JobType
    BY TypedParts DEF Build, target
  <1>2. task'.candidate = task.candidate
    BY TypedParts DEF Build, Dispose, Task
  <1>3. \A k \in jobs' : k \in jobs \/ k.at = "problem" \/ (work # carried /\ k.commit.work = work)
    <2>1. CASE /\ ~NothingNew /\ head' = [work |-> work, onto |-> tip]
               /\ Replace(j, {[j EXCEPT !.at = "built", !.commit = head']})
      <3>1. work # carried /\ head'.work = work
        BY <2>1 DEF NothingNew
      <3>2. \A k \in jobs' : k \in jobs \/ k.commit = head'
        BY <1>1, <2>1 DEF Replace, JobType
      <3> QED
        BY <3>1, <3>2
    <2>2. CASE Replace(j, {}) \/ Replace(j, {Problem(j, "Reported")})
      BY <1>1, <2>2 DEF Replace, JobType, Problem
    <2> QED
      BY <2>1, <2>2 DEF Build
  <1>4. \A k \in jobs' : k \in jobs \/ (k.at \in Pending => Newer(k.commit))
    BY <1>3, WorkTyped DEF Pending, Newer, Versions
  <1>5. ~Settled
    BY <1>1, NotSettled
  <1>6. work <= work'
    BY <1>1, WorkTyped
  <1> QED
    BY <1>1, <1>2, <1>4, <1>5, <1>6, VersionsHold

LEMMA VersionsRecord ==
  ASSUME Typed, Typed', Alone, Versions, NEW j \in jobs, Record(j) PROVE Versions'
  <1>1. j.at = "built" /\ UNCHANGED <<work, carried, landings>> /\ j \in JobType
    BY TypedParts DEF Record, target, tree
  <1>2. task'.candidate = j.commit /\ Newer(j.commit)
    BY <1>1, TypedParts DEF Record, Task, Versions, Pending
  <1>3. \A k \in jobs' : k \in jobs \/ k.at = "open"
    BY <1>1 DEF Record, Replace, JobType
  <1>4. work <= work'
    BY <1>1, WorkTyped
  <1> QED
    BY <1>1, <1>2, <1>3, <1>4, VersionsHold DEF Pending, Newer

LEMMA VersionsOpen ==
  ASSUME Typed, Typed', Alone, Versions, NEW j \in jobs, Open(j) PROVE Versions'
  <1>1. j.at = "open" /\ UNCHANGED <<task, work, carried, landings>> /\ j \in JobType
    BY TypedParts DEF Open, target, tree
  <1>2. \A k \in jobs' : k \in jobs \/ k.at \in {"problem", "escalate", "install"}
    <2>1. CASE Replace(j, {Problem(j, "Reported")}) \/ Replace(j, NotOpened(j))
      BY <1>1, <2>1 DEF Replace, NotOpened, Problem, JobType
    <2>2. CASE \E round, commit : Replace(j, {Job("install", round, commit, "none")})
      BY <2>2 DEF Replace, Job
    <2> QED
      BY <2>1, <2>2 DEF Open
  <1> QED
    BY <1>1, <1>2, VersionsMoves DEF Pending

LEMMA VersionsInstall ==
  ASSUME Typed, Typed', Alone, Versions, NEW j \in jobs, Install(j) PROVE Versions'
  <1>1. j.at = "install" /\ UNCHANGED <<work, carried, landings>> /\ jobs' \subseteq jobs
    BY DEF Install, Replace, target, tree
  <1>2. task'.candidate = task.candidate
    BY TypedParts DEF Install, Task
  <1> QED
    BY <1>1, <1>2, VersionsMoves

LEMMA VersionsAct ==
  ASSUME Typed, Typed', Alone, Versions, NEW j \in jobs, Act(j) PROVE Versions'
  <1>1. j.at = "act" /\ UNCHANGED <<task, work, carried, landings>> /\ j \in JobType
    BY TypedParts DEF Act, target, tree
  <1>2. \A k \in jobs' : k \in jobs \/ k.at \in {"land", "approve", "sendBack", "problem", "open"}
    BY <1>1 DEF Act, Replace, Problem, JobType
  <1> QED
    BY <1>1, <1>2, VersionsMoves DEF Pending

LEMMA VersionsFixes ==
  ASSUME Typed, Typed', Alone, Versions, NEW j \in jobs, StartFix(j) \/ Fix(j) PROVE Versions'
  <1>1. j.at \in {"sendBack", "fix"} /\ UNCHANGED <<work, carried, landings>> /\ j \in JobType
    BY TypedParts DEF StartFix, Fix, target, tree
  <1>2. task'.candidate \in {NoCommit, task.candidate}
    BY TypedParts DEF StartFix, Fix, Reopened, Task
  <1>3. \A k \in jobs' : k \in jobs \/ k.at \in {"fix", "escalate"}
    BY <1>1 DEF StartFix, Fix, Become, Replace, JobType
  <1> QED
    BY <1>1, <1>2, <1>3, VersionsMoves DEF Pending

LEMMA VersionsEscalate ==
  ASSUME Typed, Typed', Alone, Versions, NEW j \in jobs, Escalate(j) PROVE Versions'
  <1>1. j.at = "escalate" /\ UNCHANGED <<work, carried, landings>> /\ j \in JobType
    BY TypedParts DEF Escalate, target, tree
  <1>2. task'.candidate = task.candidate
    BY TypedParts DEF Escalate, Task
  <1>3. \A k \in jobs' : k \in jobs \/ k.at = "escalated"
    BY <1>1 DEF Escalate, Replace, JobType
  <1> QED
    BY <1>1, <1>2, <1>3, VersionsMoves DEF Pending

LEMMA VersionsEscalated ==
  ASSUME Typed, Typed', Versions, NEW j \in jobs, Escalated(j) PROVE Versions'
  <1>1. /\ j.at = "escalated" /\ UNCHANGED <<work, carried, landings, override>>
        /\ jobs' = jobs \ {j}
    BY DEF Escalated, Replace, target, tree
  <1>2. task'.candidate = task.candidate /\ task'.state = task.state
    BY TypedParts DEF Escalated, Task
  <1>3. Settled => Settled'
    BY <1>1, <1>2 DEF Settled, Over, InFlight
  <1> QED
    BY <1>1, <1>2, <1>3, VersionsStay

LEMMA VersionsApprove ==
  ASSUME Typed, Typed', Alone, Versions, NEW j \in jobs, NEW answer,
         Approve(j) \/ Answer(j, answer) \/ Answered(j)
  PROVE  Versions'
  <1>1. /\ j.at \in {"approve", "card", "answered"} /\ UNCHANGED <<work, carried, landings>>
        /\ j \in JobType
    BY TypedParts DEF Approve, Answer, Answered, target, tree
  <1>2. task'.candidate = task.candidate
    BY TypedParts DEF Approve, Answer, Answered, Task
  <1>3. \A k \in jobs' : k \in jobs \/ k.at \in {"card", "land", "answered", "problem"}
    <2>1. CASE Approve(j)
      <3>1. Replace(j, {[j EXCEPT !.at = "card"]}) \/ Replace(j, {[j EXCEPT !.at = "land"]})
        BY <2>1 DEF Approve, Become
      <3> QED
        BY <1>1, <3>1 DEF Replace, JobType
    <2>2. CASE Answer(j, answer)
      BY <1>1, <2>2 DEF Answer, Replace, JobType
    <2>3. CASE Answered(j)
      <3>1. \/ jobs' = jobs \ {j} \/ Replace(j, {[j EXCEPT !.at = "land"]})
            \/ Replace(j, {Problem(j, "Reported")})
        BY <2>3 DEF Answered, Replace
      <3> QED
        BY <1>1, <3>1 DEF Replace, Problem, JobType
    <2> QED
      BY <2>1, <2>2, <2>3
  <1> QED
    BY <1>1, <1>2, <1>3, VersionsMoves DEF Pending

LEMMA VersionsLand ==
  ASSUME Typed, Typed', Alone, Versions, NEW j \in jobs, Land(j) PROVE Versions'
  <1>1. j.at = "land" /\ UNCHANGED <<task, work, carried, landings>> /\ j \in JobType
    BY TypedParts DEF Land, target, tree
  <1>2. \A k \in jobs' : k \in jobs \/ k.at = "problem"
                                       \/ (CandidatePassed(task) /\ k.commit = task.candidate)
    BY <1>1 DEF Land, Replace, Problem, JobType
  <1>3. ~Settled
    BY <1>1, NotSettled
  <1>4. task.candidate # NoCommit => Newer(task.candidate)
    BY <1>3 DEF Versions, CandidateNewer, Newer
  <1>5. \A k \in jobs' : k \in jobs \/ (k.at \in Pending => Newer(k.commit))
    BY <1>2, <1>4 DEF CandidatePassed, Pending
  <1>6. work <= work'
    BY <1>1, WorkTyped
  <1> QED
    BY <1>1, <1>3, <1>5, <1>6, VersionsHold

(* Git lands what is newer: no version twice, and nothing is left to land. *)
LEMMA VersionsGitLands ==
  ASSUME Typed, Typed', Alone, Versions, NEW j \in jobs, GitLands(j) PROVE Versions'
  <1>1. j.at = "git" /\ UNCHANGED <<task, work>> /\ j \in JobType
    BY TypedParts DEF GitLands, tree
  <1>2. CASE Replace(j, {Problem(j, "ReadyToLand")}) /\ UNCHANGED <<carried, landings>>
    <2>1. \A k \in jobs' : k \in jobs \/ k.at = "problem"
      BY <1>1, <1>2 DEF Replace, Problem, JobType
    <2> QED
      BY <1>1, <1>2, <2>1, VersionsMoves DEF Pending
  <1>3. CASE /\ carried' = j.commit.work /\ Become(j, "landed")
             /\ landings' = landings \union {[commit |-> j.commit, nr |-> tip + 1]}
    <2>1. Newer(j.commit)
      BY <1>1 DEF Versions, Pending
    <2>2. /\ work \in Nat /\ carried \in Nat /\ j.commit.work \in Nat
          /\ \A l \in landings : l.commit.work \in Nat /\ l.commit.work <= carried
          /\ task'.candidate.work <= work
      BY <1>1, WorkTyped DEF Versions
    <2>3. carried' <= work' /\ task'.candidate.work <= work'
      BY <1>1, <1>3, <2>1, <2>2 DEF Newer
    <2>4. \A l \in landings' : l.commit.work <= carried'
      BY <1>3, <2>1, <2>2 DEF Newer
    <2>5. LandsOnce'
      BY <1>3, <2>1, <2>2 DEF Versions, LandsOnce, Newer
    <2>6. \A k \in jobs' : k.at \notin Pending
      <3>1. \A k \in jobs' : k.at = "landed" \/ k \in jobs \ {j}
        BY <1>1, <1>3 DEF Become, Replace, JobType
      <3> QED
        BY <1>1, <3>1, Working DEF Pending
    <2>7. \E k \in jobs' : k.at = "landed"
      <3>1. [j EXCEPT !.at = "landed"].at = "landed"
        BY <1>1 DEF JobType
      <3>2. [j EXCEPT !.at = "landed"] \in jobs'
        BY <1>3 DEF Become, Replace
      <3> QED
        BY <3>1, <3>2
    <2>8. CandidateNewer'
      BY <2>7 DEF CandidateNewer, Settled
    <2> QED
      BY <2>3, <2>4, <2>5, <2>6, <2>8 DEF Versions
  <1> QED
    BY <1>2, <1>3 DEF GitLands

LEMMA VersionsReplay ==
  ASSUME Typed, Typed', Alone, Versions, NEW j \in jobs, Replay(j) PROVE Versions'
  <1>1. j.at = "git" /\ UNCHANGED <<task, work, carried, landings>> /\ j \in JobType
    BY TypedParts DEF Replay, target
  <1>2. Newer(j.commit)
    BY <1>1 DEF Versions, Pending
  <1>3. \A k \in jobs' : k \in jobs \/ k.at = "problem" \/ k.commit.work = j.commit.work
    <2>1. CASE Replace(j, {Problem(j, "Reported")})
      BY <1>1, <2>1 DEF Replace, Problem, JobType
    <2>2. ASSUME head' = [j.commit EXCEPT !.onto = tip],
                 NEW arg, Replace(j, {[j EXCEPT !.at = "replayed", !.commit = head', !.arg = arg]})
          PROVE  \A k \in jobs' : k \in jobs \/ k.commit.work = j.commit.work
      <3>1. head'.work = j.commit.work
        BY <1>1, <2>2 DEF JobType, CommitOrNone
      <3> QED
        BY <1>1, <2>2, <3>1 DEF Replace, JobType
    <2> QED
      BY <2>1, <2>2 DEF Replay
  <1>4. \A k \in jobs' : k \in jobs \/ (k.at \in Pending => Newer(k.commit))
    BY <1>2, <1>3 DEF Pending, Newer
  <1>5. work <= work'
    BY <1>1, WorkTyped
  <1>6. ~Settled
    BY <1>1, NotSettled
  <1> QED
    BY <1>1, <1>4, <1>5, <1>6, VersionsHold

LEMMA VersionsReplayed ==
  ASSUME Typed, Typed', Alone, Versions, NEW j \in jobs, Replayed(j) PROVE Versions'
  <1>1. j.at = "replayed" /\ UNCHANGED <<work, carried, landings>> /\ j \in JobType
    BY TypedParts DEF Replayed, target, tree
  <1>2. task'.candidate \in {NoCommit, j.commit} /\ Newer(j.commit)
    BY <1>1, ReplayRecorded DEF Versions, Pending
  <1>3. \A k \in jobs' : k \in jobs \/ k.at \in {"land", "open"}
    <2>1. (\E g : Replace(j, {[j EXCEPT !.at = "land", !.gate = g]})) \/ Become(j, "open")
      BY ReplayRecorded
    <2> QED
      BY <1>1, <2>1 DEF Become, Replace, JobType
  <1>4. work <= work'
    BY <1>1, WorkTyped
  <1> QED
    BY <1>1, <1>2, <1>3, <1>4, VersionsHold DEF Pending, Newer

LEMMA VersionsLanded ==
  ASSUME Typed, Typed', Alone, Versions, NEW j \in jobs, Landed(j) PROVE Versions'
  <1>1. /\ j.at = "landed" /\ UNCHANGED <<work, carried, landings, override>>
        /\ jobs' = jobs \ {j}
    BY DEF Landed, Replace, target
  <1>2. task'.candidate = task.candidate /\ task'.state = "Landed"
    BY TypedParts DEF Landed, Dispose, Task
  <1>3. Over'
    BY <1>1, <1>2, Working DEF Over, InFlight, Final
  <1> QED
    BY <1>1, <1>2, <1>3, VersionsStay DEF Settled

LEMMA VersionsHandBack ==
  ASSUME Typed, Typed', Alone, Versions, NEW j \in jobs, HandBack(j) PROVE Versions'
  <1>1. j.at = "problem" /\ UNCHANGED <<work, carried, landings>> /\ jobs' \subseteq jobs
    BY DEF HandBack, Replace, target, tree
  <1>2. task'.candidate = task.candidate
    BY TypedParts DEF HandBack, Task
  <1> QED
    BY <1>1, <1>2, VersionsMoves

(* After a restart a landing git made and nobody recorded still counts: a  *)
(* task under review loses its candidate, any other lands nothing.         *)
LEMMA VersionsRestart ==
  ASSUME Typed, Typed', Alone, Versions, Restart PROVE Versions'
  <1>1. jobs' = {} /\ override' = NoCommit /\ UNCHANGED <<work, carried, landings>>
    BY Restarted DEF target
  <1>2. task'.candidate \in {NoCommit, task.candidate}
    BY Restarted
  <1>3. CASE task'.candidate = NoCommit
    BY <1>1, <1>3, WorkTyped, VersionsHold
  <1>4. CASE ~Settled
    BY <1>1, <1>2, <1>4, VersionsStay
  <1>5. CASE task'.candidate # NoCommit /\ Settled
    <2>1. task.state \in Final
      <3>1. task.state \notin {"Reviewing", "AwaitingApproval"} \/ task'.candidate = NoCommit
        BY Restarted
      <3> QED
        BY <1>5, <3>1, Working DEF Settled, Over
    <2>2. task' = task
      BY <2>1, Restarted DEF Final
    <2>3. Over'
      BY <1>1, <2>1, <2>2 DEF Over, InFlight
    <2> QED
      BY <1>1, <1>2, <2>3, VersionsStay DEF Settled
  <1> QED
    BY <1>3, <1>4, <1>5

LEMMA VersionsStep ==
  ASSUME Typed, Typed', Alone, Versions, [Next]_vars PROVE Versions'
  <1>1. CASE UNCHANGED vars
    <2>1. UNCHANGED <<task, jobs, override, work, carried, landings>>
      BY <1>1 DEF vars, tree, target
    <2>2. Settled => Settled'
      BY <2>1 DEF Settled, Over, InFlight
    <2> QED
      BY <2>1, <2>2, VersionsStay
  <1>2. ASSUME NEW j \in jobs, JobSteps(j) \/ \E a \in {"allow", "deny", "withdrawn"} : Answer(j, a)
        PROVE  Versions'
    BY <1>2, VersionsBuild, VersionsRecord, VersionsOpen, VersionsInstall, VersionsAct,
       VersionsFixes, VersionsEscalate, VersionsEscalated, VersionsApprove, VersionsLand,
       VersionsGitLands, VersionsReplay, VersionsReplayed, VersionsLanded, VersionsHandBack,
       Zenon DEF JobSteps
  <1> QED
    BY <1>1, <1>2, VersionsOutside, VersionsReports, VersionsAccept, VersionsRelay,
       VersionsOverride, VersionsSendBack, VersionsStop, VersionsMemberReports, VersionsRestart,
       Zenon DEF Next

-----------------------------------------------------------------------------
(* Only what was asked for, and judged, lands.  Who judged a commit judged *)
(* what it is a clean replay of it: each verdict is about the round's      *)
(* commit, and what a job in flight carries fits the task it will change.  *)

Asked(c) == ask => VouchedBy(c, allowed, overlaps)
Approved(c) == VouchedBy(c, reviewed, overlaps)
Overruled(c) == VouchedBy(c, overruled, overlaps)

(* The round's verdicts, and its candidate while it is open; a round that  *)
(* lands without asking is about what the user was asked before.           *)
RoundJudged ==
    LET gate == task.gate IN
    /\ gate.overridden => gate.outcome = "failed" /\ Overruled(gate.commit)
    /\ ~gate.overridden /\ gate.outcome \in {"passed", "unverified"} => Approved(gate.commit)
    /\ ~gate.overridden /\ gate.outcome = "passed" => gate.commit \in verified
    /\ gate.outcome = "open" =>
          /\ task.candidate = gate.commit /\ gate.left # {}
          /\ gate.worst \in {"passed", "unverified"} => "review" \in gate.left \/ Approved(gate.commit)
          /\ gate.worst = "passed" => "verify" \in gate.left \/ gate.commit \in verified
    /\ gate.relanding => Asked(gate.commit)
    /\ task.state = "ReadyToLand" /\ CandidatePassed(task) => Asked(gate.commit)

OwnRound(j) == j.gate.round = task.gate.round /\ j.gate.commit = task.gate.commit

Stands(c) == Asked(c) /\ IF task.gate.overridden THEN Overruled(c) ELSE Approved(c)

(* What each job relies on, some awaits after it read the task. *)
FitsOpen(j) ==
    j.at = "open" =>
        /\ j.arg \in {"build", "retry", "replay", "overlap"}
        /\ j.arg = "retry" => task.gate.outcome = "unverified" /\ task.candidate = task.gate.commit
        /\ j.arg \in {"replay", "overlap"} => task.candidate # task.gate.commit
        /\ j.arg = "replay" => Asked(task.candidate) /\ Approved(task.candidate)
FitsInstall(j) ==
    j.at = "install" =>
        /\ j.gate.commit = j.commit /\ task.candidate = j.commit /\ j.gate.left # {}
        /\ "review" \in j.gate.left \/ Approved(j.commit)
        /\ j.gate.relanding => Asked(j.commit)
FitsAct(j) == j.at = "act" => j.gate = task.gate /\ task.candidate = task.gate.commit
FitsLand(j) ==
    /\ j.at \in {"approve", "card", "answered", "land"} => OwnRound(j)
    /\ j.at = "land" \/ (j.at = "answered" /\ j.arg = "allow") => Asked(j.gate.commit)
FitsGit(j) ==
    j.at = "git" => /\ j.commit = task.gate.commit /\ j.commit = task.candidate
                    /\ j.commit # NoCommit /\ Stands(j.commit)
                    /\ ~task.gate.overridden => j.commit \in verified
FitsReplayed(j) ==
    j.at = "replayed" => /\ j.arg \in {"replay", "overlap"} /\ task.candidate # NoCommit
                         /\ j.commit # task.gate.commit
                         /\ j.arg = "replay" => Stands(j.commit)
FitsProblem(j) ==
    j.at = "problem" /\ j.arg = "ReadyToLand" /\ CandidatePassed(task) => Asked(task.gate.commit)

Fits(j) == /\ FitsOpen(j) /\ FitsInstall(j) /\ FitsAct(j) /\ FitsLand(j)
           /\ FitsGit(j) /\ FitsReplayed(j) /\ FitsProblem(j)
JobsFit == \A j \in jobs : Fits(j)

LandingsJudged == \A c \in Landings : Asked(c) /\ ((c \in verified /\ Approved(c)) \/ Overruled(c))

Judged == RoundJudged /\ JobsFit /\ LandingsJudged

LEMMA JudgedInit == Init => Judged
  BY DEF Init, Judged, RoundJudged, JobsFit, LandingsJudged, Landings, NoGate, CandidatePassed

(* Verdicts are only added, and the target only grows. *)
VerdictsGrow ==
    /\ reviewed \subseteq reviewed' /\ verified \subseteq verified'
    /\ allowed \subseteq allowed' /\ overruled \subseteq overruled'
    /\ overlaps' \subseteq overlaps \union {tip + 1} /\ ask' = ask

LEMMA VerdictStays ==
  ASSUME Typed, NEW old, NEW new, old \subseteq CommitOrNone, old \subseteq new,
         overlaps' \subseteq overlaps \union {tip + 1},
         NEW c \in CommitOrNone, c.onto <= tip, VouchedBy(c, old, overlaps)
  PROVE  VouchedBy(c, new, overlaps')
  <1>1. PICK d \in old : /\ d.work = c.work /\ d.onto <= c.onto
                         /\ \A k \in d.onto + 1 .. c.onto : k \notin overlaps
    BY DEF VouchedBy
  <1>2. d \in CommitOrNone /\ d.onto \in Nat /\ c.onto \in Nat /\ tip \in Nat
    BY TypedParts DEF CommitOrNone
  <1>3. \A k \in d.onto + 1 .. c.onto : k \notin overlaps'
    BY <1>1, <1>2
  <1> QED
    BY <1>1, <1>3 DEF VouchedBy

LEMMA JudgedStay ==
  ASSUME Typed, VerdictsGrow
  PROVE  \A c \in CommitOrNone : c.onto <= tip =>
            /\ Asked(c) => (ask' => VouchedBy(c, allowed', overlaps'))
            /\ Approved(c) => VouchedBy(c, reviewed', overlaps')
            /\ Overruled(c) => VouchedBy(c, overruled', overlaps')
  <1> SUFFICES ASSUME NEW c \in CommitOrNone, c.onto <= tip
               PROVE  /\ Asked(c) => (ask' => VouchedBy(c, allowed', overlaps'))
                      /\ Approved(c) => VouchedBy(c, reviewed', overlaps')
                      /\ Overruled(c) => VouchedBy(c, overruled', overlaps')
    OBVIOUS
  <1>1. /\ reviewed \subseteq CommitOrNone /\ allowed \subseteq CommitOrNone
        /\ overruled \subseteq CommitOrNone
    BY TypedParts
  <1>2. Approved(c) => VouchedBy(c, reviewed', overlaps')
    BY <1>1, VerdictStays DEF Approved, VerdictsGrow
  <1>3. Overruled(c) => VouchedBy(c, overruled', overlaps')
    BY <1>1, VerdictStays DEF Overruled, VerdictsGrow
  <1>4. VouchedBy(c, allowed, overlaps) => VouchedBy(c, allowed', overlaps')
    BY <1>1, VerdictStays DEF VerdictsGrow
  <1> QED
    BY <1>2, <1>3, <1>4 DEF Asked, VerdictsGrow

(* The commits a task and its jobs have are no newer than the target. *)
LEMMA CommitsKnown ==
  ASSUME Inductive
  PROVE  /\ Typed /\ task.gate \in Gate
         /\ task.candidate \in CommitOrNone /\ task.candidate.onto <= tip
         /\ task.gate.commit \in CommitOrNone /\ task.gate.commit.onto <= tip
         /\ \A j \in jobs : /\ j \in JobType /\ j.gate \in Gate
                            /\ j.commit \in CommitOrNone /\ j.commit.onto <= tip
                            /\ j.gate.commit \in CommitOrNone /\ j.gate.commit.onto <= tip
         /\ \A c \in Landings : c \in CommitOrNone /\ c.onto <= tip
  <1>1. Typed /\ OntoTip
    BY InductiveParts
  <1>2. task \in Task /\ jobs \subseteq JobType /\ landings \subseteq [commit : CommitOrNone, nr : Nat]
    BY <1>1, TypedParts
  <1> QED
    BY <1>1, <1>2, TaskTyped, GateTyped DEF OntoTip, JobType, Landings

(* What landed stays judged, and what lands is. *)
Lands(c) == c.onto <= tip /\ Asked(c) /\ ((c \in verified /\ Approved(c)) \/ Overruled(c))

LEMMA LandingsStay ==
  ASSUME Inductive, Typed', Judged, VerdictsGrow,
         \A l \in landings' : l \in landings \/ Lands(l.commit)
  PROVE  LandingsJudged'
  <1> SUFFICES ASSUME NEW l \in landings'
               PROVE  /\ ask' => VouchedBy(l.commit, allowed', overlaps')
                      /\ \/ l.commit \in verified' /\ VouchedBy(l.commit, reviewed', overlaps')
                         \/ VouchedBy(l.commit, overruled', overlaps')
    BY DEF LandingsJudged, Landings, Asked, Approved, Overruled
  <1>1. l.commit \in CommitOrNone
    BY DEF Typed, TypeOK
  <1>2. Lands(l.commit)
    BY CommitsKnown DEF Lands, Landings, Judged, LandingsJudged
  <1> QED
    BY <1>1, <1>2, CommitsKnown, JudgedStay DEF Lands, VerdictsGrow

(* A round that does not change stays judged. *)
LEMMA RoundStays ==
  ASSUME Inductive, Judged, VerdictsGrow, task'.gate = task.gate,
         task.gate.outcome = "open" => task'.candidate = task.candidate,
         task'.state = "ReadyToLand" /\ CandidatePassed(task') =>
             (task.state = "ReadyToLand" /\ CandidatePassed(task)) \/ Asked(task.gate.commit)
  PROVE  RoundJudged'
  <1> DEFINE gate == task.gate
             c    == task.gate.commit
  <1>1. /\ Asked(c) => (ask' => VouchedBy(c, allowed', overlaps'))
        /\ Approved(c) => VouchedBy(c, reviewed', overlaps')
        /\ Overruled(c) => VouchedBy(c, overruled', overlaps')
        /\ c \in verified => c \in verified'
    BY CommitsKnown, JudgedStay DEF VerdictsGrow
  <1>2. RoundJudged
    BY DEF Judged
  <1> QED
    BY <1>1, <1>2 DEF RoundJudged, Asked, Approved, Overruled

(* Jobs that rely on nothing. *)
Plain(k) == \/ k.at \in {"build", "built", "sendBack", "fix", "escalate", "escalated", "landed"}
            \/ k.at = "problem" /\ k.arg = "Reported"

LEMMA PlainFits == ASSUME NEW k, Plain(k) PROVE Fits(k)'
  BY DEF Plain, Fits, FitsOpen, FitsInstall, FitsAct, FitsLand, FitsGit, FitsReplayed, FitsProblem

(* A step beside the job at work. *)
LEMMA FitStays ==
  ASSUME Inductive, VerdictsGrow, task'.gate = task.gate, task'.candidate = task.candidate,
         NEW k \in jobs, Fits(k)
  PROVE  Fits(k)'
  <1>1. \A c \in {k.commit, k.gate.commit, task.candidate, task.gate.commit} :
           /\ Asked(c) => (ask' => VouchedBy(c, allowed', overlaps'))
           /\ Approved(c) => VouchedBy(c, reviewed', overlaps')
           /\ Overruled(c) => VouchedBy(c, overruled', overlaps')
    BY CommitsKnown, JudgedStay
  <1>2. k.commit \in verified => k.commit \in verified'
    BY DEF VerdictsGrow
  <1>3. FitsOpen(k)' /\ FitsInstall(k)' /\ FitsAct(k)' /\ FitsLand(k)'
    BY <1>1 DEF Fits, FitsOpen, FitsInstall, FitsAct, FitsLand, OwnRound, Asked, Approved, Overruled
  <1>4. FitsGit(k)' /\ FitsReplayed(k)' /\ FitsProblem(k)'
    BY <1>1, <1>2 DEF Fits, FitsGit, FitsReplayed, FitsProblem, Stands, Asked, Approved, Overruled,
       CandidatePassed
  <1> QED
    BY <1>3, <1>4 DEF Fits

LEMMA JudgedBeside ==
  ASSUME Inductive, Typed', Judged, VerdictsGrow, landings' = landings, jobs' \subseteq jobs,
         task'.gate = task.gate, task'.candidate = task.candidate,
         task'.state = "ReadyToLand" => task.state = "ReadyToLand"
  PROVE  Judged'
  <1>1. RoundJudged'
    BY RoundStays DEF CandidatePassed
  <1>2. JobsFit'
    BY FitStays DEF Judged, JobsFit
  <1>3. LandingsJudged'
    BY LandingsStay
  <1> QED
    BY <1>1, <1>2, <1>3 DEF Judged

(* A step of the job at work that leaves the round alone. *)
LEMMA JudgedMoves ==
  ASSUME Inductive, Typed', Alone, Judged, NEW j \in jobs, j.at # "escalated",
         VerdictsGrow, landings' = landings, task'.gate = task.gate,
         task'.state = "ReadyToLand" /\ CandidatePassed(task') => Asked(task.gate.commit),
         \A k \in jobs' : k \in jobs \ {j} \/ Plain(k) \/ Fits(k)'
  PROVE  Judged'
  <1>1. task.gate.outcome # "open"
    BY Working
  <1>2. RoundJudged'
    BY <1>1, RoundStays
  <1>3. \A k \in jobs \ {j} : Plain(k)
    BY Working DEF Plain
  <1>4. JobsFit'
    BY <1>3, PlainFits DEF JobsFit
  <1>5. LandingsJudged'
    BY LandingsStay
  <1> QED
    BY <1>2, <1>4, <1>5 DEF Judged

(* One that starts a job on a task with none. *)
LEMMA JudgedStarts ==
  ASSUME Inductive, Typed', Judged, VerdictsGrow, landings' = landings, InFlight = {}, RoundJudged',
         \A k \in jobs' : k \in jobs \/ Plain(k) \/ Fits(k)'
  PROVE  Judged'
  <1>1. \A k \in jobs : Plain(k)
    BY DEF InFlight, Plain
  <1>2. JobsFit'
    BY <1>1, PlainFits DEF JobsFit
  <1> QED
    BY <1>2, LandingsStay DEF Judged

(* The steps from outside. *)
LEMMA JudgedOutside ==
  ASSUME Inductive, Typed', Judged,
         WorkerEdits \/ (\E o \in BOOLEAN : TargetMoves(o)) \/ OverrideRead \/ UNCHANGED vars
  PROVE  Judged'
  <1>1. VerdictsGrow /\ UNCHANGED <<task, jobs, landings>>
    BY DEF WorkerEdits, TargetMoves, OverrideRead, VerdictsGrow, vars, inputs, target, history
  <1> QED
    BY <1>1, JudgedBeside

LEMMA JudgedReports ==
  ASSUME Inductive, Typed', Judged, (\E n \in BOOLEAN : WorkerReports(n)) \/ Stop PROVE Judged'
  <1>1. VerdictsGrow /\ UNCHANGED <<jobs, landings>>
    BY DEF WorkerReports, Stop, VerdictsGrow, inputs, target, history
  <1>2. /\ task'.gate = task.gate /\ task'.candidate = task.candidate
        /\ task'.state \in {"Reported", "Stopped"}
    BY CommitsKnown, TypedParts DEF WorkerReports, Stop, Dispose, Task
  <1> QED
    BY <1>1, <1>2, JudgedBeside

LEMMA JudgedBegins ==
  ASSUME Inductive, Typed', Alone, Judged, NEW fresh \in BOOLEAN, BeginLanding(fresh),
         task.state \in {"Reported", "ReadyToLand"}, VerdictsGrow, landings' = landings
  PROVE  Judged'
  <1>1. task'.gate = task.gate /\ task'.state = "Reviewing"
    BY CommitsKnown, TypedParts DEF BeginLanding, Task
  <1>2. InFlight = {} /\ task.gate.outcome # "open"
    BY Idle
  <1>3. RoundJudged'
    BY <1>1, <1>2, RoundStays
  <1>4. \A k \in jobs' : k \in jobs \/ Plain(k) \/ Fits(k)'
    <2>1. CASE task.state = "ReadyToLand" /\ CandidatePassed(task)
      <3>1. \A k \in jobs' : k \in jobs \/ (k.at = "land" /\ k.gate = task'.gate)
        BY <2>1 DEF BeginLanding, Job
      <3>2. Asked(task.gate.commit)
        BY <2>1 DEF Judged, RoundJudged
      <3>3. ask' => VouchedBy(task.gate.commit, allowed', overlaps')
        BY <3>2, CommitsKnown, JudgedStay
      <3>4. ASSUME NEW k, k.at = "land", k.gate = task'.gate PROVE Fits(k)'
        BY <1>1, <3>3, <3>4
        DEF Fits, FitsOpen, FitsInstall, FitsAct, FitsLand, FitsGit, FitsReplayed, FitsProblem,
            OwnRound, Asked
      <3> QED
        BY <3>1, <3>4
    <2>2. CASE ~(task.state = "ReadyToLand" /\ CandidatePassed(task))
      BY <2>2 DEF BeginLanding, Job, Plain
    <2> QED
      BY <2>1, <2>2
  <1> QED
    BY <1>2, <1>3, <1>4, JudgedStarts

LEMMA JudgedAccept ==
  ASSUME Inductive, Typed', Alone, Judged, Accept PROVE Judged'
  <1>1. VerdictsGrow /\ landings' = landings
    BY DEF Accept, VerdictsGrow, target, history
  <1> QED
    BY <1>1, JudgedBegins DEF Accept

LEMMA JudgedRelay ==
  ASSUME Inductive, Typed', Alone, Judged, NEW r \in relays, Relay(r) PROVE Judged'
  <1>1. VerdictsGrow /\ landings' = landings
    BY DEF Relay, VerdictsGrow, inputs, target, history
  <1>2. CASE UNCHANGED <<task, jobs>>
    BY <1>1, <1>2, JudgedBeside
  <1>3. CASE task.state = "Reported" /\ BeginLanding(FALSE)
    BY <1>1, <1>3, JudgedBegins
  <1> QED
    BY <1>2, <1>3 DEF Relay

(* The user's word that a change lands despite its checks counts for it.   *)
LEMMA JudgedOverrideStart ==
  ASSUME Inductive, Typed', Alone, Judged, OverrideStart PROVE Judged'
  <1>1. VerdictsGrow /\ landings' = landings /\ overruled' = overruled \union {override}
    BY DEF OverrideStart, VerdictsGrow, inputs, target
  <1>2. /\ override = task.gate.commit /\ task.gate.outcome = "failed" /\ InFlight = {}
    BY DEF OverrideStart, Alone, Holding, Overriding
  <1>3. /\ task'.gate.commit = override /\ task'.gate.outcome = task.gate.outcome
        /\ task'.gate.overridden /\ task'.gate.relanding = task.gate.relanding
        /\ task'.state = "Reviewing"
    <2>1. task \in Task /\ task.gate \in Gate
      BY CommitsKnown, TypedParts
    <2> QED
      BY <2>1 DEF OverrideStart, Task, Gate
  <1>4. override \in CommitOrNone
    BY CommitsKnown, TypedParts
  <1>5. VouchedBy(override, overruled', overlaps')
    BY <1>1, <1>4, VouchedItself
  <1>6. task.gate.relanding => (ask' => VouchedBy(override, allowed', overlaps'))
    BY <1>1, <1>2, CommitsKnown, JudgedStay DEF Judged, RoundJudged
  <1>7. RoundJudged'
    BY <1>2, <1>3, <1>5, <1>6 DEF RoundJudged, Overruled, Asked
  <1>8. \A k \in jobs' : k \in jobs \/ (k.at = "approve" /\ k.gate = task'.gate)
    BY DEF OverrideStart, Job
  <1>9. \A k \in jobs' : k \in jobs \/ Fits(k)'
    BY <1>8 DEF Fits, FitsOpen, FitsInstall, FitsAct, FitsLand, FitsGit, FitsReplayed, FitsProblem,
       OwnRound
  <1> QED
    BY <1>1, <1>2, <1>7, <1>9, JudgedStarts

LEMMA JudgedSendBack ==
  ASSUME Inductive, Typed', Alone, Judged, Patient, SendBack PROVE Judged'
  <1>1. VerdictsGrow /\ UNCHANGED <<jobs, landings>>
    BY DEF SendBack, VerdictsGrow, target, history
  <1>2. task'.gate = task.gate /\ task'.state = "Running"
    BY CommitsKnown, TypedParts DEF SendBack, Reopened, Task
  <1>3. InFlight = {} /\ task.gate.outcome # "open"
    BY DEF SendBack, Alone, Holding, OpenRound, InHand, Final
  <1>4. RoundJudged'
    BY <1>1, <1>2, <1>3, RoundStays
  <1> QED
    BY <1>1, <1>3, <1>4, JudgedStarts

(* A round that is superseded judges nothing. *)
LEMMA JudgedStopCloseGate ==
  ASSUME Inductive, Typed', Alone, Judged, StopCloseGate PROVE Judged'
  <1>1. VerdictsGrow /\ UNCHANGED <<jobs, landings>>
    BY DEF StopCloseGate, VerdictsGrow, inputs, target, history
  <1>2. CASE task' = task
    BY <1>1, <1>2, JudgedBeside
  <1>3. CASE task' # task
    <2>1. /\ task.gate.outcome = "open" /\ task'.gate.outcome = "superseded"
          /\ task'.gate.commit = task.gate.commit /\ task'.gate.relanding = task.gate.relanding
          /\ task'.gate.overridden = task.gate.overridden
      BY <1>3, CommitsKnown, TypedParts, TaskTyped DEF StopCloseGate, Task, Gate
    <2>2. InFlight = {} /\ ~task.gate.overridden
      BY <2>1, CommitsKnown DEF Alone, Holding, Judged, RoundJudged, Gate
    <2>3. task.gate.relanding => (ask' => VouchedBy(task.gate.commit, allowed', overlaps'))
      BY <1>1, CommitsKnown, JudgedStay DEF Judged, RoundJudged
    <2>4. RoundJudged'
      BY <2>1, <2>2, <2>3 DEF RoundJudged, Asked, CandidatePassed
    <2> QED
      BY <1>1, <2>2, <2>4, JudgedStarts
  <1> QED
    BY <1>2, <1>3

(* The jobs' steps.  While a job works no round is open, and its task is   *)
(* not ready to land.                                                      *)
LEMMA WorkedOn ==
  ASSUME Alone, NEW j \in jobs, j.at # "escalated"
  PROVE  task.gate.outcome # "open" /\ task.state # "ReadyToLand"
  BY Working DEF Final

LEMMA AskedFits ==
  ASSUME task'.gate = task.gate, NEW k, k.at \in {"approve", "card", "answered", "land"}, OwnRound(k),
         k.at = "land" \/ (k.at = "answered" /\ k.arg = "allow")
             => (ask' => VouchedBy(k.gate.commit, allowed', overlaps'))
  PROVE  Fits(k)'
  BY DEF Fits, FitsOpen, FitsInstall, FitsAct, FitsLand, FitsGit, FitsReplayed, FitsProblem,
     OwnRound, Asked

LEMMA JudgedBuild ==
  ASSUME Inductive, Typed', Alone, Judged, NEW j \in jobs, Build(j) PROVE Judged'
  <1>1. VerdictsGrow /\ landings' = landings /\ j.at = "build" /\ j \in JobType
    BY CommitsKnown DEF Build, VerdictsGrow, inputs, target, history
  <1>2. task'.gate = task.gate /\ task'.state \in {task.state, "Done"}
    BY CommitsKnown, TypedParts DEF Build, Dispose, Task
  <1>3. \A k \in jobs' : k \in jobs \ {j} \/ Plain(k)
    <2>1. CASE Replace(j, {[j EXCEPT !.at = "built", !.commit = head']})
      BY <1>1, <2>1 DEF Replace, JobType, Plain
    <2>2. CASE Replace(j, {}) \/ Replace(j, {Problem(j, "Reported")})
      BY <1>1, <2>2 DEF Replace, Problem, JobType, Plain
    <2> QED
      BY <2>1, <2>2 DEF Build
  <1> QED
    BY <1>1, <1>2, <1>3, WorkedOn, JudgedMoves

LEMMA JudgedRecord ==
  ASSUME Inductive, Typed', Alone, Judged, NEW j \in jobs, Record(j) PROVE Judged'
  <1>1. VerdictsGrow /\ landings' = landings /\ j.at = "built" /\ j \in JobType
    BY CommitsKnown DEF Record, VerdictsGrow, inputs, target, history
  <1>2. task'.gate = task.gate /\ task'.state = task.state
    BY CommitsKnown, TypedParts DEF Record, Task
  <1>3. \A k \in jobs' : k \in jobs \ {j} \/ (k.at = "open" /\ k.arg = "build")
    BY <1>1 DEF Record, Replace, JobType
  <1>4. \A k \in jobs' : k \in jobs \ {j} \/ Fits(k)'
    BY <1>3 DEF Fits, FitsOpen, FitsInstall, FitsAct, FitsLand, FitsGit, FitsReplayed, FitsProblem
  <1> QED
    BY <1>1, <1>2, <1>4, WorkedOn, JudgedMoves

(* A round opens on what it leaves out having been judged before.          *)
LEMMA OpenedFits ==
  ASSUME Inductive, Judged, VerdictsGrow, NEW j \in jobs, j.at = "open", task' = task, NEW k,
         k.at = "install", k.commit = task.candidate, k.gate.commit = task.candidate,
         k.gate.left = Checkers(j.arg), k.gate.relanding = Relanding(j.arg)
  PROVE  Fits(k)'
  <1> DEFINE c == task.candidate
  <1>1. /\ Asked(c) => (ask' => VouchedBy(c, allowed', overlaps'))
        /\ Approved(c) => VouchedBy(c, reviewed', overlaps')
    BY CommitsKnown, JudgedStay
  <1>2. FitsOpen(j) /\ RoundJudged
    BY DEF Judged, JobsFit, Fits
  <1>3. CASE j.arg \in {"build", "overlap"}
    <2>1. "review" \in k.gate.left /\ ~k.gate.relanding
      BY <1>3 DEF Checkers, Roles, Relanding
    <2> QED
      BY <2>1 DEF Fits, FitsOpen, FitsInstall, FitsAct, FitsLand, FitsGit, FitsReplayed, FitsProblem
  <1>4. CASE j.arg = "replay"
    <2>1. "verify" \in k.gate.left /\ Asked(c) /\ Approved(c)
      BY <1>2, <1>4 DEF Checkers, FitsOpen
    <2> QED
      BY <1>1, <2>1
      DEF Fits, FitsOpen, FitsInstall, FitsAct, FitsLand, FitsGit, FitsReplayed, FitsProblem,
          Asked, Approved
  <1>5. CASE j.arg = "retry"
    <2>1. /\ "verify" \in k.gate.left /\ c = task.gate.commit /\ task.gate.outcome = "unverified"
          /\ k.gate.relanding => task.gate.relanding
      BY <1>2, <1>5 DEF Checkers, FitsOpen, Relanding
    <2>2. Approved(c) /\ (k.gate.relanding => Asked(c))
      BY <1>2, <2>1, CommitsKnown DEF RoundJudged, Gate
    <2> QED
      BY <1>1, <2>1, <2>2
      DEF Fits, FitsOpen, FitsInstall, FitsAct, FitsLand, FitsGit, FitsReplayed, FitsProblem,
          Asked, Approved
  <1> QED
    BY <1>2, <1>3, <1>4, <1>5 DEF FitsOpen

LEMMA JudgedOpen ==
  ASSUME Inductive, Typed', Alone, Judged, NEW j \in jobs, Open(j) PROVE Judged'
  <1>1. /\ VerdictsGrow /\ landings' = landings /\ j.at = "open" /\ j \in JobType
        /\ task' = task
    BY CommitsKnown DEF Open, VerdictsGrow, inputs, target, history
  <1>2. CASE Replace(j, {Problem(j, "Reported")})
    <2>1. \A k \in jobs' : k \in jobs \ {j} \/ Plain(k)
      BY <1>1, <1>2 DEF Replace, Problem, JobType, Plain
    <2> QED
      BY <1>1, <2>1, WorkedOn, JudgedMoves
  <1>3. CASE Unchanged /\ Replace(j, NotOpened(j))
    <2>1. j.arg # "retry"
      BY <1>1, <1>3 DEF Unchanged, Judged, JobsFit, Fits, FitsOpen
    <2>2. \A k \in jobs' : k \in jobs \ {j} \/ Plain(k)
      BY <1>1, <1>3, <2>1 DEF Replace, NotOpened, JobType, Plain
    <2> QED
      BY <1>1, <2>2, WorkedOn, JudgedMoves
  <1>4. ASSUME NEW gate, gate.commit = task.candidate, gate.left = Checkers(j.arg),
               gate.relanding = Relanding(j.arg),
               Replace(j, {Job("install", gate, gate.commit, "none")})
        PROVE  Judged'
    <2> DEFINE k == Job("install", gate, gate.commit, "none")
    <2>1. k.at = "install" /\ k.commit = gate.commit /\ k.gate = gate
      BY DEF Job
    <2>2. jobs' = (jobs \ {j}) \union {k}
      BY <1>4 DEF Replace
    <2> HIDE DEF k
    <2>3. Fits(k)'
      BY <1>1, <1>4, <2>1, OpenedFits
    <2> QED
      BY <1>1, <2>2, <2>3, WorkedOn, JudgedMoves
  <1>5. \/ Replace(j, {Problem(j, "Reported")})
        \/ Unchanged /\ Replace(j, NotOpened(j))
        \/ \E gate : /\ gate.commit = task.candidate /\ gate.left = Checkers(j.arg)
                     /\ gate.relanding = Relanding(j.arg)
                     /\ Replace(j, {Job("install", gate, gate.commit, "none")})
    <2> DEFINE round == [NoGate EXCEPT
                    !.round = task.gate.round + 1, !.commit = task.candidate, !.outcome = "open",
                    !.left = Checkers(j.arg), !.worst = "passed",
                    !.relanding = Relanding(j.arg), !.retry = j.arg = "retry"]
    <2>1. \/ Replace(j, {Problem(j, "Reported")})
          \/ Unchanged /\ Replace(j, NotOpened(j))
          \/ Replace(j, {Job("install", round, round.commit, "none")})
      BY DEF Open
    <2>2. /\ round.commit = task.candidate /\ round.left = Checkers(j.arg)
          /\ round.relanding = Relanding(j.arg)
      BY DEF NoGate
    <2> HIDE DEF round
    <2> QED
      BY <2>1, <2>2
  <1> QED
    BY <1>2, <1>3, <1>4, <1>5

LEMMA JudgedInstall ==
  ASSUME Inductive, Typed', Alone, Judged, NEW j \in jobs, Install(j) PROVE Judged'
  <1>1. /\ VerdictsGrow /\ landings' = landings /\ j.at = "install" /\ jobs' = jobs \ {j}
        /\ j.commit \in CommitOrNone /\ j.commit.onto <= tip
    BY CommitsKnown DEF Install, Replace, VerdictsGrow, inputs, target, history
  <1>2. CASE task' = task
    BY <1>1, <1>2, WorkedOn, JudgedMoves
  <1>3. CASE task.candidate = j.commit /\ task' = [task EXCEPT !.gate = j.gate, !.state = "Reviewing"]
    <2>1. task'.gate = j.gate /\ task'.state = "Reviewing" /\ task'.candidate = j.commit
      BY <1>3, CommitsKnown, TypedParts DEF Task
    <2>2. /\ j.gate.outcome = "open" /\ ~j.gate.overridden /\ "verify" \in j.gate.left
      BY <1>1, InductiveParts DEF Opening
    <2>3. FitsInstall(j)
      BY DEF Judged, JobsFit, Fits
    <2>4. /\ Asked(j.commit) => (ask' => VouchedBy(j.commit, allowed', overlaps'))
          /\ Approved(j.commit) => VouchedBy(j.commit, reviewed', overlaps')
      BY <1>1, CommitsKnown, JudgedStay
    <2>5. RoundJudged'
      BY <1>1, <2>1, <2>2, <2>3, <2>4 DEF RoundJudged, FitsInstall, Asked, Approved
    <2>6. \A k \in jobs' : Plain(k)
      BY <1>1, Working DEF Plain
    <2>7. JobsFit'
      BY <2>6, PlainFits DEF JobsFit
    <2> QED
      BY <1>1, <2>5, <2>7, LandingsStay DEF Judged
  <1> QED
    BY <1>2, <1>3 DEF Install

LEMMA JudgedAct ==
  ASSUME Inductive, Typed', Alone, Judged, NEW j \in jobs, Act(j) PROVE Judged'
  <1>1. /\ VerdictsGrow /\ landings' = landings /\ j.at = "act" /\ j \in JobType
        /\ task' = task
    BY CommitsKnown DEF Act, VerdictsGrow, inputs, target, history
  <1>2. FitsAct(j) /\ RoundJudged
    BY DEF Judged, JobsFit, Fits
  <1>3. \/ jobs' = jobs \ {j}
        \/ Replace(j, {[j EXCEPT !.at = "sendBack"]}) \/ Replace(j, {Problem(j, "Reported")})
        \/ j.gate.relanding /\ Replace(j, {[j EXCEPT !.at = "land"]})
        \/ Replace(j, {[j EXCEPT !.at = "approve"]})
        \/ j.gate.outcome = "unverified" /\ Replace(j, {Problem(j, "ReadyToLand")})
        \/ j.gate.outcome = "unverified" /\ Replace(j, {[j EXCEPT !.at = "open", !.arg = "retry"]})
    BY <1>1 DEF Act, Replace
  <1>4. CASE \/ jobs' = jobs \ {j}
             \/ Replace(j, {[j EXCEPT !.at = "sendBack"]}) \/ Replace(j, {Problem(j, "Reported")})
    <2>1. \A k \in jobs' : k \in jobs \ {j} \/ Plain(k)
      BY <1>1, <1>4 DEF Replace, Problem, JobType, Plain
    <2> QED
      BY <1>1, <2>1, WorkedOn, JudgedMoves
  <1>5. CASE \/ j.gate.relanding /\ Replace(j, {[j EXCEPT !.at = "land"]})
             \/ Replace(j, {[j EXCEPT !.at = "approve"]})
    <2>1. \A k \in jobs' : k \in jobs \ {j} \/ /\ k.at \in {"land", "approve"} /\ k.gate = task.gate
                                               /\ k.at = "land" => task.gate.relanding
      BY <1>1, <1>2, <1>5 DEF Replace, JobType, FitsAct
    <2>2. task.gate.relanding => (ask' => VouchedBy(task.gate.commit, allowed', overlaps'))
      BY <1>1, <1>2, CommitsKnown, JudgedStay DEF RoundJudged
    <2>3. \A k \in jobs' : k \in jobs \ {j} \/ Fits(k)'
      BY <1>1, <2>1, <2>2, AskedFits DEF OwnRound
    <2> QED
      BY <1>1, <2>3, WorkedOn, JudgedMoves
  <1>6. CASE j.gate.outcome = "unverified" /\ Replace(j, {Problem(j, "ReadyToLand")})
    <2>1. \A k \in jobs' : k \in jobs \ {j} \/ k.at = "problem"
      BY <1>1, <1>6 DEF Replace, Problem, JobType
    <2>2. ~CandidatePassed(task)
      BY <1>1, <1>2, <1>6 DEF FitsAct, CandidatePassed
    <2>3. \A k \in jobs' : k \in jobs \ {j} \/ Fits(k)'
      BY <1>1, <2>1, <2>2
      DEF Fits, FitsOpen, FitsInstall, FitsAct, FitsLand, FitsGit, FitsReplayed, FitsProblem,
          CandidatePassed
    <2> QED
      BY <1>1, <2>3, WorkedOn, JudgedMoves
  <1>7. CASE j.gate.outcome = "unverified" /\ Replace(j, {[j EXCEPT !.at = "open", !.arg = "retry"]})
    <2>1. \A k \in jobs' : k \in jobs \ {j} \/ (k.at = "open" /\ k.arg = "retry")
      BY <1>1, <1>7 DEF Replace, JobType
    <2>2. \A k \in jobs' : k \in jobs \ {j} \/ Fits(k)'
      BY <1>1, <1>2, <1>7, <2>1
      DEF Fits, FitsOpen, FitsInstall, FitsAct, FitsLand, FitsGit, FitsReplayed, FitsProblem
    <2> QED
      BY <1>1, <2>2, WorkedOn, JudgedMoves
  <1> QED
    BY <1>3, <1>4, <1>5, <1>6, <1>7

LEMMA JudgedFixes ==
  ASSUME Inductive, Typed', Alone, Judged, NEW j \in jobs, StartFix(j) \/ Fix(j) \/ Escalate(j)
  PROVE  Judged'
  <1>1. /\ VerdictsGrow /\ landings' = landings /\ j.at \in {"sendBack", "fix", "escalate"}
        /\ j \in JobType
    BY CommitsKnown DEF StartFix, Fix, Escalate, VerdictsGrow, inputs, target, history
  <1>2. task'.gate = task.gate /\ task'.state \in {task.state, "Running", "Reported"}
    BY CommitsKnown, TypedParts DEF StartFix, Fix, Escalate, Reopened, Task
  <1>3. \A k \in jobs' : k \in jobs \ {j} \/ Plain(k)
    <2>1. \/ jobs' = jobs \ {j} \/ Replace(j, {[j EXCEPT !.at = "fix"]})
          \/ Replace(j, {[j EXCEPT !.at = "escalate"]})
          \/ Replace(j, {[j EXCEPT !.at = "escalated", !.gate = task.gate, !.commit = task.candidate]})
      BY DEF StartFix, Fix, Escalate, Become, Replace
    <2>2. /\ [j EXCEPT !.at = "fix"].at = "fix"
          /\ [j EXCEPT !.at = "escalate"].at = "escalate"
          /\ [j EXCEPT !.at = "escalated", !.gate = task.gate,
                       !.commit = task.candidate].at = "escalated"
      BY <1>1 DEF JobType
    <2> QED
      BY <2>1, <2>2 DEF Replace, Plain
  <1> QED
    BY <1>1, <1>2, <1>3, WorkedOn, JudgedMoves

LEMMA JudgedEscalated ==
  ASSUME Inductive, Typed', Judged, NEW j \in jobs, Escalated(j) PROVE Judged'
  <1>1. VerdictsGrow /\ landings' = landings /\ jobs' \subseteq jobs
    BY DEF Escalated, Replace, VerdictsGrow, inputs, target, history
  <1>2. /\ task'.gate = task.gate /\ task'.candidate = task.candidate
        /\ task'.state = task.state
    BY CommitsKnown, TypedParts DEF Escalated, Task
  <1> QED
    BY <1>1, <1>2, JudgedBeside

LEMMA JudgedApprove ==
  ASSUME Inductive, Typed', Alone, Judged, NEW j \in jobs, Approve(j) PROVE Judged'
  <1>1. /\ VerdictsGrow /\ landings' = landings /\ j.at = "approve" /\ j \in JobType
    BY CommitsKnown DEF Approve, VerdictsGrow, inputs, target, history
  <1>2. task'.gate = task.gate /\ task'.state \in {task.state, "AwaitingApproval"}
    BY CommitsKnown, TypedParts DEF Approve, Task
  <1>3. OwnRound(j)
    BY <1>1 DEF Judged, JobsFit, Fits, FitsLand
  <1>4. \A k \in jobs' : k \in jobs \ {j} \/ /\ k.at \in {"card", "land"} /\ k.gate = j.gate
                                             /\ k.at = "land" => ~ask
    <2>1. \/ Replace(j, {[j EXCEPT !.at = "card"]})
          \/ ~ask /\ Replace(j, {[j EXCEPT !.at = "land"]})
      BY DEF Approve, Become
    <2> QED
      BY <1>1, <2>1 DEF Replace, JobType
  <1>5. ask' = ask
    BY <1>1 DEF VerdictsGrow
  <1>6. \A k \in jobs' : k \in jobs \ {j} \/ Fits(k)'
    BY <1>2, <1>3, <1>4, <1>5, AskedFits DEF OwnRound
  <1> QED
    BY <1>1, <1>2, <1>6, WorkedOn, JudgedMoves

(* The user's answer is about the commit the card showed.                  *)
LEMMA JudgedAnswer ==
  ASSUME Inductive, Typed', Alone, Judged, NEW j \in jobs, NEW answer, Answer(j, answer)
  PROVE  Judged'
  <1>1. /\ VerdictsGrow /\ landings' = landings /\ j.at = "card" /\ j \in JobType /\ task' = task
    BY CommitsKnown DEF Answer, VerdictsGrow, inputs, target, history
  <1>2. OwnRound(j)
    BY <1>1 DEF Judged, JobsFit, Fits, FitsLand
  <1>3. answer = "allow" => VouchedBy(j.gate.commit, allowed', overlaps')
    BY CommitsKnown, VouchedItself DEF Answer
  <1>4. \A k \in jobs' : k \in jobs \ {j} \/ (k.at = "answered" /\ k.gate = j.gate /\ k.arg = answer)
    BY <1>1 DEF Answer, Replace, JobType
  <1>5. \A k \in jobs' : k \in jobs \ {j} \/ Fits(k)'
    BY <1>1, <1>2, <1>3, <1>4, AskedFits DEF OwnRound
  <1> QED
    BY <1>1, <1>5, WorkedOn, JudgedMoves

LEMMA JudgedAnswered ==
  ASSUME Inductive, Typed', Alone, Judged, NEW j \in jobs, Answered(j) PROVE Judged'
  <1>1. /\ VerdictsGrow /\ landings' = landings /\ j.at = "answered" /\ j \in JobType
        /\ task' = task
    BY CommitsKnown DEF Answered, VerdictsGrow, inputs, target, history
  <1>2. OwnRound(j) /\ (j.arg = "allow" => Asked(j.gate.commit))
    BY <1>1 DEF Judged, JobsFit, Fits, FitsLand
  <1>3. CASE jobs' = jobs \ {j} \/ Replace(j, {Problem(j, "Reported")})
    <2>1. \A k \in jobs' : k \in jobs \ {j} \/ Plain(k)
      BY <1>1, <1>3 DEF Replace, Problem, JobType, Plain
    <2> QED
      BY <1>1, <2>1, WorkedOn, JudgedMoves
  <1>4. CASE j.arg = "allow" /\ Replace(j, {[j EXCEPT !.at = "land"]})
    <2>1. \A k \in jobs' : k \in jobs \ {j} \/ (k.at = "land" /\ k.gate = j.gate)
      BY <1>1, <1>4 DEF Replace, JobType
    <2>2. ask' => VouchedBy(j.gate.commit, allowed', overlaps')
      BY <1>1, <1>2, <1>4, CommitsKnown, JudgedStay
    <2>3. \A k \in jobs' : k \in jobs \ {j} \/ Fits(k)'
      BY <1>1, <1>2, <2>1, <2>2, AskedFits DEF OwnRound
    <2> QED
      BY <1>1, <2>3, WorkedOn, JudgedMoves
  <1> QED
    BY <1>3, <1>4 DEF Answered, Replace

(* What is handed to git was asked for, and the round judged it.           *)
LEMMA JudgedLand ==
  ASSUME Inductive, Typed', Alone, Judged, NEW j \in jobs, Land(j) PROVE Judged'
  <1>1. /\ VerdictsGrow /\ landings' = landings /\ j.at = "land" /\ j \in JobType
        /\ task' = task
    BY CommitsKnown DEF Land, VerdictsGrow, inputs, target, history
  <1>2. OwnRound(j) /\ Asked(j.gate.commit) /\ RoundJudged
    BY <1>1 DEF Judged, JobsFit, Fits, FitsLand
  <1>3. CASE jobs' = jobs \ {j} \/ Replace(j, {Problem(j, "Reported")})
    <2>1. \A k \in jobs' : k \in jobs \ {j} \/ Plain(k)
      BY <1>1, <1>3 DEF Replace, Problem, JobType, Plain
    <2> QED
      BY <1>1, <2>1, WorkedOn, JudgedMoves
  <1>4. CASE CandidatePassed(task) /\ Replace(j, {[j EXCEPT !.at = "git", !.commit = task.candidate]})
    <2> DEFINE c == task.candidate
    <2>1. \A k \in jobs' : k \in jobs \ {j} \/ (k.at = "git" /\ k.commit = c)
      BY <1>1, <1>4 DEF Replace, JobType
    <2>2. c = task.gate.commit /\ c # NoCommit /\ Asked(c)
      BY <1>2, <1>4 DEF CandidatePassed, OwnRound
    <2>3. IF task.gate.overridden THEN Overruled(c) ELSE Approved(c) /\ c \in verified
      BY <1>2, <1>4, <2>2, CommitsKnown DEF CandidatePassed, RoundJudged, Gate
    <2>4. /\ ask' => VouchedBy(c, allowed', overlaps')
          /\ IF task.gate.overridden THEN VouchedBy(c, overruled', overlaps')
             ELSE VouchedBy(c, reviewed', overlaps') /\ c \in verified'
      BY <1>1, <2>2, <2>3, CommitsKnown, JudgedStay DEF VerdictsGrow
    <2>5. \A k \in jobs' : k \in jobs \ {j} \/ Fits(k)'
      BY <1>1, <2>1, <2>2, <2>4
      DEF Fits, FitsOpen, FitsInstall, FitsAct, FitsLand, FitsGit, FitsReplayed, FitsProblem,
          Stands, Asked, Approved, Overruled
    <2> QED
      BY <1>1, <2>5, WorkedOn, JudgedMoves
  <1> QED
    BY <1>3, <1>4 DEF Land, Replace

(* A job that could not land hands back a change that may land later: the  *)
(* one it was asked for.                                                   *)
LEMMA ReadyFits ==
  ASSUME UNCHANGED <<task, ask>>, NEW k, k.at = "problem",
         ask' => VouchedBy(task.gate.commit, allowed', overlaps')
  PROVE  Fits(k)'
  BY DEF Fits, FitsOpen, FitsInstall, FitsAct, FitsLand, FitsGit, FitsReplayed, FitsProblem, Asked

LEMMA JudgedGitLands ==
  ASSUME Inductive, Typed', Alone, Judged, NEW j \in jobs, GitLands(j) PROVE Judged'
  <1>1. /\ VerdictsGrow /\ j.at = "git" /\ j \in JobType /\ UNCHANGED <<task, ask>>
    BY CommitsKnown DEF GitLands, VerdictsGrow, inputs, history
  <1>2. /\ j.commit = task.gate.commit /\ Stands(j.commit)
        /\ ~task.gate.overridden => j.commit \in verified
    BY <1>1 DEF Judged, JobsFit, Fits, FitsGit
  <1>3. CASE Replace(j, {Problem(j, "ReadyToLand")}) /\ landings' = landings
    <2>1. \A k \in jobs' : k \in jobs \ {j} \/ k.at = "problem"
      BY <1>1, <1>3 DEF Replace, Problem, JobType
    <2>2. ask' => VouchedBy(task.gate.commit, allowed', overlaps')
      BY <1>1, <1>2, CommitsKnown, JudgedStay DEF Stands
    <2>3. \A k \in jobs' : k \in jobs \ {j} \/ Fits(k)'
      BY <1>1, <2>1, <2>2, ReadyFits
    <2> QED
      BY <1>1, <1>3, <2>3, WorkedOn, JudgedMoves
  <1>4. CASE /\ Become(j, "landed")
             /\ landings' = landings \union {[commit |-> j.commit, nr |-> tip + 1]}
    <2>1. Lands(j.commit)
      BY <1>2, CommitsKnown DEF Lands, Stands
    <2>2. LandingsJudged'
      BY <1>1, <1>4, <2>1, LandingsStay
    <2>3. \A k \in jobs' : k.at = "landed" \/ k \in jobs \ {j}
      BY <1>1, <1>4 DEF Become, Replace, JobType
    <2>4. \A k \in jobs' : Plain(k)
      BY <1>1, <2>3, Working DEF Plain
    <2>5. JobsFit'
      BY <2>4, PlainFits DEF JobsFit
    <2>6. RoundJudged'
      BY <1>1, WorkedOn, RoundStays
    <2> QED
      BY <2>2, <2>5, <2>6 DEF Judged
  <1> QED
    BY <1>3, <1>4 DEF GitLands

(* Who judged a commit judged a clean replay of it. *)
LEMMA ReplayJudged ==
  ASSUME Typed, NEW verdicts, verdicts \subseteq CommitOrNone, NEW c \in CommitOrNone, NEW to \in Nat,
         c.onto <= to, Clean(c.onto, to), VouchedBy(c, verdicts, overlaps)
  PROVE  VouchedBy([c EXCEPT !.onto = to], verdicts, overlaps)
  <1>1. PICK d \in verdicts : /\ d.work = c.work /\ d.onto <= c.onto
                              /\ \A k \in d.onto + 1 .. c.onto : k \notin overlaps
    BY DEF VouchedBy
  <1>2. d \in CommitOrNone /\ d.onto \in Nat /\ c.onto \in Nat
    BY DEF CommitOrNone
  <1>3. [c EXCEPT !.onto = to].onto = to /\ [c EXCEPT !.onto = to].work = c.work
    BY DEF CommitOrNone
  <1>4. \A k \in d.onto + 1 .. to : k \notin overlaps
    BY <1>1, <1>2 DEF Clean
  <1>5. d.onto <= to
    BY <1>1, <1>2
  <1> QED
    BY <1>1, <1>3, <1>4, <1>5 DEF VouchedBy

LEMMA JudgedReplay ==
  ASSUME Inductive, Typed', Alone, Judged, NEW j \in jobs, Replay(j) PROVE Judged'
  <1>1. /\ VerdictsGrow /\ j.at = "git" /\ j \in JobType /\ tip # j.commit.onto
        /\ UNCHANGED <<task, landings, history, overlaps, ask>>
    BY CommitsKnown DEF Replay, VerdictsGrow, inputs, target, history
  <1>2. /\ j.commit = task.gate.commit /\ j.commit = task.candidate /\ j.commit # NoCommit
        /\ Stands(j.commit)
    BY <1>1 DEF Judged, JobsFit, Fits, FitsGit
  <1>3. CASE Replace(j, {Problem(j, "Reported")})
    <2>1. \A k \in jobs' : k \in jobs \ {j} \/ Plain(k)
      BY <1>1, <1>3 DEF Replace, Problem, JobType, Plain
    <2> QED
      BY <1>1, <2>1, WorkedOn, JudgedMoves
  <1>4. ASSUME NEW c, c = [j.commit EXCEPT !.onto = tip], NEW arg \in {"replay", "overlap"},
               arg = "replay" => Clean(j.commit.onto, tip),
               Replace(j, {[j EXCEPT !.at = "replayed", !.commit = c, !.arg = arg]})
        PROVE  Judged'
    <2>1. /\ j.commit \in CommitOrNone /\ j.commit.onto <= tip /\ tip \in Nat /\ Typed
          /\ allowed \subseteq CommitOrNone /\ reviewed \subseteq CommitOrNone
          /\ overruled \subseteq CommitOrNone
      BY CommitsKnown, TypedParts
    <2>2. c.onto = tip
      BY <1>4, <2>1 DEF CommitOrNone
    <2>3. arg = "replay" => Stands(c)
      BY <1>2, <1>4, <2>1, ReplayJudged DEF Stands, Asked, Approved, Overruled
    <2>4. arg = "replay" => Stands(c)'
      BY <1>1, <2>3 DEF Stands, Asked, Approved, Overruled, history
    <2>5. \A k \in jobs' : k \in jobs \ {j} \/ (k.at = "replayed" /\ k.commit = c /\ k.arg = arg)
      BY <1>1, <1>4 DEF Replace, JobType
    <2>6. \A k \in jobs' : k \in jobs \ {j} \/ Fits(k)'
      BY <1>1, <1>2, <1>4, <2>2, <2>4, <2>5
      DEF Fits, FitsOpen, FitsInstall, FitsAct, FitsLand, FitsGit, FitsReplayed, FitsProblem
    <2> QED
      BY <1>1, <2>6, WorkedOn, JudgedMoves
  <1> QED
    BY <1>3, <1>4 DEF Replay

LEMMA JudgedReplayed ==
  ASSUME Inductive, Typed', Alone, Judged, NEW j \in jobs, Replayed(j) PROVE Judged'
  <1>1. /\ VerdictsGrow /\ j.at = "replayed" /\ j \in JobType /\ landings' = landings
    BY CommitsKnown DEF Replayed, VerdictsGrow, inputs, target, history
  <1>2. /\ j.arg \in {"replay", "overlap"} /\ task.candidate # NoCommit
        /\ j.commit # task.gate.commit /\ (j.arg = "replay" => Stands(j.commit)) /\ RoundJudged
    BY <1>1 DEF Judged, JobsFit, Fits, FitsReplayed
  <1>3. j.commit \in CommitOrNone /\ j.commit.onto <= tip
    BY CommitsKnown
  <1>4. /\ Asked(j.commit) => (ask' => VouchedBy(j.commit, allowed', overlaps'))
        /\ Approved(j.commit) => VouchedBy(j.commit, reviewed', overlaps')
        /\ Overruled(j.commit) => VouchedBy(j.commit, overruled', overlaps')
    BY <1>1, <1>3, CommitsKnown, JudgedStay
  <1>5. task'.candidate = j.commit /\ task'.state = task.state
    BY <1>2, CommitsKnown, ReplayRecorded
  <1>6. CASE j.arg = "replay" /\ task.gate.overridden
    <2>1. /\ task'.gate.overridden /\ task'.gate.commit = j.commit
          /\ task'.gate.outcome = task.gate.outcome
          /\ Replace(j, {[j EXCEPT !.at = "land", !.gate = task'.gate]})
      BY <1>6, CommitsKnown, ReplayRecorded
    <2>2. Asked(j.commit) /\ Overruled(j.commit) /\ task.gate.outcome = "failed"
      BY <1>2, <1>6 DEF Stands, RoundJudged
    <2>3. RoundJudged'
      BY <1>4, <2>1, <2>2 DEF RoundJudged, Asked, Overruled
    <2>4. \A k \in jobs' : k \in jobs \ {j} \/ (k.at = "land" /\ k.gate = task'.gate)
      BY <1>1, <2>1 DEF Replace, JobType
    <2>5. \A k \in jobs' : Plain(k) \/ Fits(k)'
      <3>1. \A k \in jobs \ {j} : Plain(k)
        BY <1>1, Working DEF Plain
      <3>2. ASSUME NEW k, k.at = "land", k.gate = task'.gate PROVE Fits(k)'
        BY <1>4, <2>1, <2>2, <3>2
        DEF Fits, FitsOpen, FitsInstall, FitsAct, FitsLand, FitsGit, FitsReplayed, FitsProblem,
            OwnRound, Asked
      <3> QED
        BY <2>4, <3>1, <3>2
    <2>6. JobsFit'
      BY <2>5, PlainFits DEF JobsFit
    <2> QED
      BY <1>1, <2>3, <2>6, LandingsStay DEF Judged
  <1>7. CASE ~(j.arg = "replay" /\ task.gate.overridden)
    <2>1. task'.gate = task.gate /\ Become(j, "open")
      BY <1>7, CommitsKnown, ReplayRecorded
    <2>2. \A k \in jobs' : k \in jobs \ {j} \/ (k.at = "open" /\ k.arg = j.arg)
      BY <1>1, <2>1 DEF Become, Replace, JobType
    <2>3. j.arg = "replay" => Asked(j.commit) /\ Approved(j.commit)
      BY <1>2, <1>7 DEF Stands
    <2>4. \A k \in jobs' : k \in jobs \ {j} \/ Fits(k)'
      BY <1>2, <1>4, <1>5, <2>1, <2>2, <2>3
      DEF Fits, FitsOpen, FitsInstall, FitsAct, FitsLand, FitsGit, FitsReplayed, FitsProblem,
          Asked, Approved
    <2> QED
      BY <1>1, <1>5, <2>1, <2>4, WorkedOn, JudgedMoves
  <1> QED
    BY <1>6, <1>7

LEMMA JudgedEnds ==
  ASSUME Inductive, Typed', Alone, Judged, NEW j \in jobs, Landed(j) \/ HandBack(j) PROVE Judged'
  <1>1. /\ VerdictsGrow /\ landings' = landings /\ jobs' = jobs \ {j} /\ j.at # "escalated"
        /\ Landed(j) \/ j.at = "problem"
    BY DEF Landed, HandBack, Replace, VerdictsGrow, inputs, target, history
  <1>2. /\ task'.gate = task.gate /\ task'.candidate = task.candidate
        /\ task'.state \in {"Landed", task.state} \/ (j.at = "problem" /\ task'.state = j.arg)
    BY CommitsKnown, TypedParts DEF Landed, HandBack, Dispose, Task
  <1>3. FitsProblem(j)
    BY DEF Judged, JobsFit, Fits
  <1>4. task'.state = "ReadyToLand" /\ CandidatePassed(task') => Asked(task.gate.commit)
    BY <1>1, <1>2, <1>3, WorkedOn DEF FitsProblem, CandidatePassed
  <1> QED
    BY <1>1, <1>2, <1>4, JudgedMoves

(* A report that counts is about the round's commit, so that the round     *)
(* comes out well only if each of its checkers passed that commit.         *)
LEMMA WellSoFar ==
  ASSUME NEW a \in Results \union {"none"}, NEW b \in Results
  PROVE  /\ Worse(a, b) \in {"passed", "unverified"} => a \in {"passed", "unverified", "none"}
                                                     /\ b \in {"passed", "unverified"}
         /\ Worse(a, b) = "passed" => a \in {"passed", "none"} /\ b = "passed"
  BY DEF Worse, Results

LEMMA JudgedMemberReports ==
  ASSUME Inductive, Typed', Alone, Judged, NEW m \in members, NEW result \in Results,
         MemberReports(m, result)
  PROVE  Judged'
  <1>1. VerdictsGrow /\ landings' = landings
    BY DEF MemberReports, VerdictsGrow, inputs, target
  <1>2. CASE ~Counted(m)
    BY <1>1, <1>2, IgnoredReport, JudgedBeside
  <1>3. CASE Counted(m)
    <2> DEFINE old   == task.gate
               new   == task'.gate
               c     == task.gate.commit
               worst == Worse(task.gate.worst, result)
    <2>1. /\ old \in Gate /\ old.outcome = "open" /\ Typed /\ RoundJudged
          /\ m.round = old.round /\ m.role \in Roles /\ task.state = "Reviewing"
      BY <1>3, CommitsKnown, TypedParts DEF Counted, Judged
    <2>2. ~old.overridden
      BY <2>1 DEF RoundJudged
    <2>3. old.worst \in Results /\ m.commit = c
      <3>1. RoundVouched
        BY InductiveParts
      <3> QED
        BY <2>1, <2>2, <3>1 DEF RoundVouched, Gate
    <2>4. /\ new.commit = c /\ new.left = old.left \ {m.role}
          /\ new.relanding = old.relanding /\ new.overridden = old.overridden
          /\ \/ /\ old.left # {m.role} /\ new.outcome = "open" /\ new.worst = worst
                /\ jobs' = jobs
             \/ /\ old.left = {m.role} /\ new.outcome = worst
                /\ \E arg \in Args : jobs' = jobs \union {Job("act", new, NoCommit, arg)}
          /\ task'.state = "Reviewing" /\ task'.candidate = c /\ worst \in Results
      BY <1>3, <2>1, CommitsKnown, CountedReport DEF RoundJudged
    <2>5. /\ worst \in {"passed", "unverified"} => old.worst \in {"passed", "unverified"}
                                                   /\ result \in {"passed", "unverified"}
          /\ worst = "passed" => old.worst = "passed" /\ result = "passed"
      BY <2>3, WellSoFar DEF Results
    <2> HIDE DEF worst
    <2>6. worst \in {"passed", "unverified"} =>
             "review" \in new.left \/ VouchedBy(c, reviewed', overlaps')
      <3>1. CASE m.role = "review" /\ worst \in {"passed", "unverified"}
        <4>1. result = "passed" /\ c \in reviewed'
          BY <2>3, <2>5, <3>1 DEF MemberReports
        <4> QED
          BY <4>1, CommitsKnown, VouchedItself
      <3>2. CASE m.role # "review" /\ worst \in {"passed", "unverified"}
        <4>1. "review" \in old.left \/ Approved(c)
          BY <2>1, <2>5, <3>2 DEF RoundJudged
        <4>2. Approved(c) => VouchedBy(c, reviewed', overlaps')
          BY <1>1, CommitsKnown, JudgedStay
        <4> QED
          BY <2>4, <3>2, <4>1, <4>2
      <3> QED
        BY <3>1, <3>2
    <2>7. worst = "passed" => "verify" \in new.left \/ c \in verified'
      <3>1. CASE m.role = "verify" /\ worst = "passed"
        BY <2>3, <2>5, <3>1 DEF MemberReports
      <3>2. CASE m.role # "verify" /\ worst = "passed"
        BY <1>1, <2>1, <2>4, <2>5, <3>2 DEF RoundJudged, VerdictsGrow
      <3> QED
        BY <3>1, <3>2
    <2>8. old.relanding => (ask' => VouchedBy(c, allowed', overlaps'))
      BY <1>1, <2>1, CommitsKnown, JudgedStay DEF RoundJudged
    <2>9. old.left # {} /\ old.left \subseteq Roles
      BY <2>1 DEF RoundJudged, Gate
    <2>10. InFlight = {}
      BY <2>1 DEF Alone, Holding
    <2>11. CASE old.left # {m.role} /\ new.outcome = "open" /\ new.worst = worst /\ jobs' = jobs
      <3>1. new.left # {}
        BY <2>4, <2>9, <2>11
      <3>2. RoundJudged'
        BY <2>2, <2>4, <2>6, <2>7, <2>8, <2>11, <3>1 DEF RoundJudged, Asked, Approved
      <3> QED
        BY <1>1, <2>10, <2>11, <3>2, JudgedStarts
    <2>12. CASE /\ old.left = {m.role} /\ new.outcome = worst
                /\ \E arg \in Args : jobs' = jobs \union {Job("act", new, NoCommit, arg)}
      <3>1. new.left = {}
        BY <2>4, <2>12
      <3>2. new.outcome # "open"
        BY <2>4, <2>12 DEF Results
      <3>3. RoundJudged'
        BY <2>2, <2>4, <2>6, <2>7, <2>8, <2>12, <3>1, <3>2 DEF RoundJudged, Asked, Approved
      <3>4. \A k \in jobs' : k \in jobs \/ (k.at = "act" /\ k.gate = task'.gate)
        BY <2>12 DEF Job
      <3>5. \A k \in jobs' : k \in jobs \/ Fits(k)'
        BY <2>4, <3>4
        DEF Fits, FitsOpen, FitsInstall, FitsAct, FitsLand, FitsGit, FitsReplayed, FitsProblem
      <3> QED
        BY <1>1, <2>10, <3>3, <3>5, JudgedStarts
    <2> QED
      BY <2>4, <2>11, <2>12
  <1> QED
    BY <1>2, <1>3

(* A restart leaves no job, and no round open under review.                *)
LEMMA JudgedRestart ==
  ASSUME Inductive, Typed', Alone, Judged, Restart PROVE Judged'
  <1>1. VerdictsGrow /\ landings' = landings /\ jobs' = {}
    BY DEF Restart, VerdictsGrow, target, history
  <1>2. RoundJudged'
    <2> DEFINE c == task.gate.commit
    <2>1. /\ Asked(c) => (ask' => VouchedBy(c, allowed', overlaps'))
          /\ Approved(c) => VouchedBy(c, reviewed', overlaps')
          /\ Overruled(c) => VouchedBy(c, overruled', overlaps')
          /\ c \in verified => c \in verified'
      BY <1>1, CommitsKnown, JudgedStay DEF VerdictsGrow
    <2>2. CASE task' = task
      BY <1>1, <2>2, RoundStays
    <2>3. CASE task'.state # "ReadyToLand" /\ task'.gate.outcome # "open"
      <3>1. /\ task'.gate.commit = c /\ task'.gate.relanding = task.gate.relanding
            /\ task'.gate.overridden = task.gate.overridden
            /\ task'.gate.outcome \in {task.gate.outcome, "superseded"}
            /\ task'.gate.outcome = task.gate.outcome \/ task.gate.outcome = "open"
        BY CommitsKnown, Restarted
      <3> QED
        BY <2>1, <2>3, <3>1 DEF Judged, RoundJudged, Asked, Approved, Overruled
    <2>4. task' = task \/ (task'.state # "ReadyToLand" /\ task'.gate.outcome # "open")
      <3>1. task.state \in {"Reported", "Running"} => task.gate.outcome # "open"
        BY Idle
      <3> QED
        BY <3>1, CommitsKnown, Restarted
    <2> QED
      BY <2>2, <2>3, <2>4
  <1>3. JobsFit'
    BY <1>1 DEF JobsFit
  <1> QED
    BY <1>1, <1>2, <1>3, LandingsStay DEF Judged

LEMMA JudgedStep ==
  ASSUME Patient, Inductive, Typed', Alone, Judged, [Next]_vars PROVE Judged'
  <1>1. ASSUME NEW j \in jobs, JobSteps(j) \/ \E a \in {"allow", "deny", "withdrawn"} : Answer(j, a)
        PROVE  Judged'
    BY <1>1, JudgedBuild, JudgedRecord, JudgedOpen, JudgedInstall, JudgedAct, JudgedFixes,
       JudgedEscalated, JudgedApprove, JudgedAnswer, JudgedAnswered, JudgedLand, JudgedGitLands,
       JudgedReplay, JudgedReplayed, JudgedEnds, Zenon DEF JobSteps
  <1> QED
    BY <1>1, JudgedOutside, JudgedReports, JudgedAccept, JudgedRelay, JudgedOverrideStart,
       JudgedSendBack, JudgedStopCloseGate, JudgedMemberReports, JudgedRestart, Zenon DEF Next

-----------------------------------------------------------------------------
(* The checkers.  Each works on the open round, for a result that is yet   *)
(* to come, or on the round that is opening; and each such result has its  *)
(* checker, as long as the change was not disposed of.                     *)

InOpenRound(m) ==
    m.round = task.gate.round /\ task.gate.outcome = "open" /\ m.role \in task.gate.left
Opened(m, j) == j.at = "install" /\ m.round = j.gate.round /\ m.role \in j.gate.left

Placed == \A m \in members : InOpenRound(m) \/ \E j \in jobs : Opened(m, j)

HeldToOpen == gates = "held" => \E j \in jobs : j.at = "install"

Staffed ==
    worktree /\ task.gate.outcome = "open" =>
        \A r \in task.gate.left : \E m \in members : m.round = task.gate.round /\ m.role = r

StaffedOpening ==
    \A j \in jobs : j.at = "install" =>
        \A r \in j.gate.left : \E m \in members : m.round = j.gate.round /\ m.role = r

Staffing == Placed /\ HeldToOpen /\ Staffed /\ StaffedOpening /\ NoOrphans

LEMMA StaffingInit == Init => Staffing
  BY DEF Init, Staffing, Placed, HeldToOpen, Staffed, StaffedOpening, NoOrphans, NoGate

(* With no round open or opening, nobody checks. *)
LEMMA Unstaffed ==
  ASSUME Typed, Staffing, task.gate.outcome # "open", \A j \in jobs : j.at # "install"
  PROVE  members = {} /\ gates = "free"
  BY TypedParts DEF Staffing, Placed, HeldToOpen, InOpenRound, Opened

LEMMA NobodyChecks ==
  ASSUME members' = {}, gates' = "free", worktree' => task'.gate.outcome # "open",
         \A j \in jobs' : j.at # "install"
  PROVE  Staffing'
  BY DEF Staffing, Placed, HeldToOpen, Staffed, StaffedOpening, NoOrphans

(* A step of a job that opens no round. *)
LEMMA StaffingMoves ==
  ASSUME Typed, Alone, Staffing, NEW j \in jobs, j.at \notin {"escalated", "install"},
         UNCHANGED <<members, gates>>, task'.gate.outcome = task.gate.outcome,
         \A k \in jobs' : k \in jobs \ {j} \/ k.at # "install"
  PROVE  Staffing'
  <1>1. \A k \in jobs : k.at # "install"
    BY Working
  <1>2. task.gate.outcome # "open"
    BY Working
  <1> QED
    BY <1>1, <1>2, Unstaffed, NobodyChecks

(* One that starts a job on a task nobody checks. *)
LEMMA StaffingStarts ==
  ASSUME Typed, Staffing, InFlight = {}, task.gate.outcome # "open", UNCHANGED <<members, gates>>,
         task'.gate.outcome = task.gate.outcome, \A k \in jobs' : k \in jobs \/ k.at # "install"
  PROVE  Staffing'
  <1>1. \A k \in jobs : k.at # "install"
    BY DEF InFlight
  <1> QED
    BY <1>1, Unstaffed, NobodyChecks

(* One beside the checkers. *)
LEMMA StaffingBeside ==
  ASSUME Staffing, UNCHANGED <<members, gates>>, jobs' \subseteq jobs,
         \A k \in jobs : k.at = "install" => k \in jobs',
         task'.gate = task.gate, worktree' => worktree,
         task'.state \in Final /\ stop' = "none" => task.state \in Final /\ stop = "none"
  PROVE  Staffing'
  <1>1. Placed'
    BY DEF Staffing, Placed, InOpenRound, Opened
  <1>2. HeldToOpen' /\ Staffed' /\ StaffedOpening'
    BY DEF Staffing, HeldToOpen, Staffed, StaffedOpening
  <1>3. NoOrphans'
    BY DEF Staffing, NoOrphans
  <1> QED
    BY <1>1, <1>2, <1>3 DEF Staffing

LEMMA StaffingOutside ==
  ASSUME Typed, Staffing,
         \/ WorkerEdits \/ (\E o \in BOOLEAN : TargetMoves(o)) \/ OverrideRead \/ UNCHANGED vars
         \/ (\E n \in BOOLEAN : WorkerReports(n)) \/ SendBack \/ Stop
  PROVE  Staffing'
  <1>1. UNCHANGED <<members, gates, jobs>>
    BY DEF WorkerEdits, TargetMoves, OverrideRead, vars, WorkerReports, SendBack, Stop
  <1>2. CASE \/ WorkerEdits \/ (\E o \in BOOLEAN : TargetMoves(o)) \/ OverrideRead \/ UNCHANGED vars
    <2>1. UNCHANGED <<task, worktree, stop>>
      BY <1>2 DEF WorkerEdits, TargetMoves, OverrideRead, vars, tree
    <2> QED
      BY <1>1, <2>1, StaffingBeside
  <1>3. CASE (\E n \in BOOLEAN : WorkerReports(n)) \/ SendBack \/ Stop
    <2>1. CASE (\E n \in BOOLEAN : WorkerReports(n)) \/ SendBack
      <3>1. /\ task'.gate = task.gate /\ worktree' = worktree
            /\ task'.state \in {"Reported", "Running"}
        BY <2>1, TypedParts DEF WorkerReports, SendBack, Reopened, tree, Task
      <3> QED
        BY <1>1, <3>1, StaffingBeside DEF Final
    <2>2. CASE Stop
      <3>1. task'.gate = task.gate /\ worktree' = FALSE /\ stop' = "recorded"
        BY <2>2, TypedParts DEF Stop, Dispose, Task
      <3> QED
        BY <1>1, <3>1, StaffingBeside
    <2> QED
      BY <1>3, <2>1, <2>2
  <1> QED
    BY <1>2, <1>3

LEMMA StaffingBegins ==
  ASSUME Typed, Alone, Staffing, NEW fresh \in BOOLEAN, BeginLanding(fresh),
         task.state \in {"Reported", "ReadyToLand"}, UNCHANGED <<members, gates>>
  PROVE  Staffing'
  <1>1. task'.gate = task.gate
    BY TypedParts DEF BeginLanding, Task
  <1>2. \A k \in jobs' : k \in jobs \/ k.at \in {"land", "build"}
    BY DEF BeginLanding, Job
  <1> QED
    BY <1>1, <1>2, Idle, StaffingStarts

LEMMA StaffingAccept ==
  ASSUME Typed, Alone, Staffing, Accept PROVE Staffing'
  BY StaffingBegins DEF Accept

LEMMA StaffingRelay ==
  ASSUME Typed, Alone, Staffing, NEW r \in relays, Relay(r) PROVE Staffing'
  <1>1. UNCHANGED <<members, gates, worktree, stop>>
    BY DEF Relay, tree
  <1>2. CASE UNCHANGED <<task, jobs>>
    BY <1>1, <1>2, StaffingBeside
  <1>3. CASE task.state = "Reported" /\ BeginLanding(FALSE)
    BY <1>1, <1>3, StaffingBegins
  <1> QED
    BY <1>2, <1>3 DEF Relay

LEMMA StaffingOverrideStart ==
  ASSUME Typed, Alone, Staffing, OverrideStart PROVE Staffing'
  <1>1. InFlight = {} /\ task.gate.outcome = "failed" /\ UNCHANGED <<members, gates>>
    BY DEF OverrideStart, Alone, Holding, Overriding
  <1>2. task'.gate.outcome = task.gate.outcome
    BY TypedParts, TaskTyped DEF OverrideStart, Task, Gate
  <1>3. \A k \in jobs' : k \in jobs \/ k.at = "approve"
    BY DEF OverrideStart, Job
  <1> QED
    BY <1>1, <1>2, <1>3, StaffingStarts

(* A stop closes the open round, and leaves no checker behind. *)
LEMMA StaffingStopCloseGate ==
  ASSUME Inductive, Alone, Staffing, StopCloseGate PROVE Staffing'
  <1>1. gates = "free" /\ UNCHANGED <<gates, jobs, worktree>>
    BY DEF StopCloseGate, tree
  <1>2. \A k \in jobs : k.at # "install"
    BY <1>1, InductiveParts DEF Opening
  <1>3. CASE task.gate.outcome = "open"
    <2>1. members' = {m \in members : m.round # task.gate.round} /\ task'.gate.outcome = "superseded"
      BY <1>3, InductiveParts, TypedParts, TaskTyped DEF StopCloseGate, StopCheckers, Task, Gate
    <2>2. members' = {}
      BY <1>2, <2>1 DEF Staffing, Placed, InOpenRound, Opened
    <2> QED
      BY <1>1, <1>2, <2>1, <2>2, NobodyChecks
  <1>4. CASE task.gate.outcome # "open"
    BY <1>1, <1>2, <1>4, InductiveParts, Unstaffed, NobodyChecks DEF StopCloseGate
  <1> QED
    BY <1>3, <1>4

(* The jobs that open no round. *)
LEMMA StaffingBuild ==
  ASSUME Typed, Alone, Staffing, NEW j \in jobs, Build(j) \/ Record(j) PROVE Staffing'
  <1>1. j.at \in {"build", "built"} /\ UNCHANGED <<members, gates>> /\ j \in JobType
    BY TypedParts DEF Build, Record
  <1>2. task'.gate = task.gate
    BY TypedParts DEF Build, Record, Dispose, Task
  <1>3. \A k \in jobs' : k \in jobs \ {j} \/ k.at \in {"built", "problem", "open"}
    <2>1. \/ Replace(j, {[j EXCEPT !.at = "built", !.commit = head']}) \/ Replace(j, {})
          \/ Replace(j, {Problem(j, "Reported")})
          \/ Replace(j, {[j EXCEPT !.at = "open", !.arg = "build"]})
      BY DEF Build, Record
    <2>2. CASE Replace(j, {}) \/ Replace(j, {Problem(j, "Reported")})
      BY <1>1, <2>2 DEF Replace, Problem, JobType
    <2>3. CASE Replace(j, {[j EXCEPT !.at = "built", !.commit = head']})
      BY <1>1, <2>3 DEF Replace, JobType
    <2>4. CASE Replace(j, {[j EXCEPT !.at = "open", !.arg = "build"]})
      BY <1>1, <2>4 DEF Replace, JobType
    <2> QED
      BY <2>1, <2>2, <2>3, <2>4
  <1> QED
    BY <1>1, <1>2, <1>3, StaffingMoves

LEMMA StaffingAct ==
  ASSUME Typed, Alone, Staffing, NEW j \in jobs, Act(j) PROVE Staffing'
  <1>1. j.at = "act" /\ UNCHANGED <<members, gates, task>> /\ j \in JobType
    BY TypedParts DEF Act
  <1>2. \A k \in jobs' : k \in jobs \ {j} \/ k.at \in {"land", "approve", "sendBack", "problem", "open"}
    BY <1>1 DEF Act, Replace, Problem, JobType
  <1> QED
    BY <1>1, <1>2, StaffingMoves

LEMMA StaffingFixes ==
  ASSUME Typed, Alone, Staffing, NEW j \in jobs, StartFix(j) \/ Fix(j) \/ Escalate(j)
  PROVE  Staffing'
  <1>1. j.at \in {"sendBack", "fix", "escalate"} /\ UNCHANGED <<members, gates>> /\ j \in JobType
    BY TypedParts DEF StartFix, Fix, Escalate
  <1>2. task'.gate = task.gate
    BY TypedParts DEF StartFix, Fix, Escalate, Reopened, Task
  <1>3. \A k \in jobs' : k \in jobs \ {j} \/ k.at \in {"fix", "escalate", "escalated"}
    <2>1. \/ jobs' = jobs \ {j} \/ Replace(j, {[j EXCEPT !.at = "fix"]})
          \/ Replace(j, {[j EXCEPT !.at = "escalate"]})
          \/ Replace(j, {[j EXCEPT !.at = "escalated", !.gate = task.gate, !.commit = task.candidate]})
      BY DEF StartFix, Fix, Escalate, Become, Replace
    <2> QED
      BY <1>1, <2>1 DEF Replace, JobType
  <1> QED
    BY <1>1, <1>2, <1>3, StaffingMoves

LEMMA StaffingEscalated ==
  ASSUME Typed, Staffing, NEW j \in jobs, Escalated(j) PROVE Staffing'
  <1>1. /\ UNCHANGED <<members, gates, worktree, stop>> /\ jobs' = jobs \ {j}
        /\ j.at = "escalated"
    BY DEF Escalated, Replace, tree
  <1>2. task'.gate = task.gate /\ task'.state = task.state
    BY TypedParts DEF Escalated, Task
  <1> QED
    BY <1>1, <1>2, StaffingBeside

LEMMA StaffingAsks ==
  ASSUME Typed, Alone, Staffing, NEW j \in jobs, NEW answer,
         Approve(j) \/ Answer(j, answer) \/ Answered(j) \/ Land(j)
  PROVE  Staffing'
  <1>1. /\ j.at \in {"approve", "card", "answered", "land"} /\ UNCHANGED <<members, gates>>
        /\ j \in JobType
    BY TypedParts DEF Approve, Answer, Answered, Land
  <1>2. task'.gate = task.gate
    BY TypedParts DEF Approve, Answer, Answered, Land, Task
  <1>3. \A k \in jobs' : k \in jobs \ {j} \/ k.at \in {"card", "land", "answered", "problem", "git"}
    <2>1. CASE Approve(j)
      BY <1>1, <2>1 DEF Approve, Become, Replace, JobType
    <2>2. CASE Answer(j, answer)
      BY <1>1, <2>2 DEF Answer, Replace, JobType
    <2>3. CASE Answered(j)
      BY <1>1, <2>3 DEF Answered, Replace, Problem, JobType
    <2>4. CASE Land(j)
      BY <1>1, <2>4 DEF Land, Replace, Problem, JobType
    <2> QED
      BY <2>1, <2>2, <2>3, <2>4
  <1> QED
    BY <1>1, <1>2, <1>3, StaffingMoves

LEMMA StaffingGit ==
  ASSUME Typed, Alone, Staffing, NEW j \in jobs, GitLands(j) \/ Replay(j) PROVE Staffing'
  <1>1. j.at = "git" /\ UNCHANGED <<members, gates, task>> /\ j \in JobType
    BY TypedParts DEF GitLands, Replay
  <1>2. \/ Replace(j, {[j EXCEPT !.at = "landed"]})
        \/ \E to : Replace(j, {Problem(j, to)})
        \/ \E c, arg : Replace(j, {[j EXCEPT !.at = "replayed", !.commit = c, !.arg = arg]})
    <2>1. CASE GitLands(j)
      BY <2>1 DEF GitLands, Become
    <2>2. CASE Replay(j)
      BY <2>2 DEF Replay
    <2> QED
      BY <2>1, <2>2
  <1>3. \A k \in jobs' : k \in jobs \ {j} \/ k.at \in {"landed", "problem", "replayed"}
    <2>1. CASE Replace(j, {[j EXCEPT !.at = "landed"]})
      BY <1>1, <2>1 DEF Replace, JobType
    <2>2. CASE \E to : Replace(j, {Problem(j, to)})
      BY <1>1, <2>2 DEF Replace, Problem, JobType
    <2>3. CASE \E c, arg : Replace(j, {[j EXCEPT !.at = "replayed", !.commit = c, !.arg = arg]})
      BY <1>1, <2>3 DEF Replace, JobType
    <2> QED
      BY <1>2, <2>1, <2>2, <2>3
  <1> QED
    BY <1>1, <1>3, StaffingMoves

LEMMA StaffingReplayed ==
  ASSUME Typed, Alone, Staffing, NEW j \in jobs, Replayed(j) PROVE Staffing'
  <1>1. j.at = "replayed" /\ UNCHANGED <<members, gates>> /\ j \in JobType
    BY TypedParts DEF Replayed
  <1>2. /\ task'.gate.outcome = task.gate.outcome
        /\ (\E g : Replace(j, {[j EXCEPT !.at = "land", !.gate = g]})) \/ Become(j, "open")
    BY ReplayRecorded
  <1>3. \A k \in jobs' : k \in jobs \ {j} \/ k.at \in {"land", "open"}
    BY <1>1, <1>2 DEF Become, Replace, JobType
  <1> QED
    BY <1>1, <1>2, <1>3, StaffingMoves

LEMMA StaffingEnds ==
  ASSUME Typed, Alone, Staffing, NEW j \in jobs, Landed(j) \/ HandBack(j) PROVE Staffing'
  <1>1. /\ j.at \in {"landed", "problem"} /\ UNCHANGED <<members, gates>>
        /\ jobs' = jobs \ {j}
    BY DEF Landed, HandBack, Replace
  <1>2. task'.gate = task.gate
    BY TypedParts DEF Landed, HandBack, Dispose, Task
  <1> QED
    BY <1>1, <1>2, StaffingMoves

(* A round that opens has a checker for each of its results. *)
LEMMA StaffingOpen ==
  ASSUME Typed, Alone, Staffing, NEW j \in jobs, Open(j) PROVE Staffing'
  <1>1. /\ j.at = "open" /\ gates = "free" /\ j \in JobType /\ task' = task
        /\ task.gate.outcome # "open" /\ \A k \in jobs : k.at # "install"
    BY TypedParts, Working DEF Open
  <1>2. members = {}
    BY <1>1, Unstaffed
  <1>3. CASE /\ Replace(j, {Problem(j, "Reported")}) \/ Replace(j, NotOpened(j))
             /\ UNCHANGED <<gates, members>>
    <2>1. \A k \in jobs' : k \in jobs \ {j} \/ k.at \in {"problem", "escalate"}
      BY <1>1, <1>3 DEF Replace, NotOpened, Problem, JobType
    <2> QED
      BY <1>1, <1>3, <2>1, StaffingMoves
  <1>4. ASSUME NEW gate, gate.left = Checkers(j.arg), gates' = "held",
               members' = members \union
                   {[round |-> gate.round, role |-> r, commit |-> gate.commit] : r \in Checkers(j.arg)},
               Replace(j, {Job("install", gate, gate.commit, "none")})
        PROVE  Staffing'
    <2> DEFINE k == Job("install", gate, gate.commit, "none")
    <2>1. k.at = "install" /\ k.gate = gate
      BY DEF Job
    <2>2. jobs' = (jobs \ {j}) \union {k}
      BY <1>4 DEF Replace
    <2> HIDE DEF k
    <2>3. \A m \in members' : m.round = gate.round /\ m.role \in gate.left
      BY <1>2, <1>4
    <2>4. \A r \in gate.left : \E m \in members' : m.round = gate.round /\ m.role = r
      <3> TAKE r \in gate.left
      <3> DEFINE m == [round |-> gate.round, role |-> r, commit |-> gate.commit]
      <3>1. m \in members' /\ m.round = gate.round /\ m.role = r
        BY <1>4
      <3> HIDE DEF m
      <3> QED
        BY <3>1
    <2>5. Placed' /\ HeldToOpen'
      BY <2>1, <2>2, <2>3 DEF Placed, HeldToOpen, Opened
    <2>6. \A i \in jobs' : i.at = "install" => i = k
      BY <1>1, <2>2
    <2>7. StaffedOpening' /\ Staffed' /\ NoOrphans'
      BY <1>1, <1>4, <2>1, <2>4, <2>6 DEF StaffedOpening, Staffed, NoOrphans
    <2> QED
      BY <2>5, <2>7 DEF Staffing
  <1>5. \/ /\ Replace(j, {Problem(j, "Reported")}) \/ Replace(j, NotOpened(j))
           /\ UNCHANGED <<gates, members>>
        \/ \E gate :
              /\ gate.left = Checkers(j.arg) /\ gates' = "held"
              /\ members' = members \union
                   {[round |-> gate.round, role |-> r, commit |-> gate.commit] : r \in Checkers(j.arg)}
              /\ Replace(j, {Job("install", gate, gate.commit, "none")})
    <2> DEFINE round == [NoGate EXCEPT
                    !.round = task.gate.round + 1, !.commit = task.candidate, !.outcome = "open",
                    !.left = Checkers(j.arg), !.worst = "passed",
                    !.relanding = Relanding(j.arg), !.retry = j.arg = "retry"]
    <2>1. \/ /\ Replace(j, {Problem(j, "Reported")}) \/ Replace(j, NotOpened(j))
             /\ UNCHANGED <<gates, members>>
          \/ /\ gates' = "held"
             /\ members' = members \union
                  {[round |-> round.round, role |-> r, commit |-> round.commit] : r \in Checkers(j.arg)}
             /\ Replace(j, {Job("install", round, round.commit, "none")})
      BY DEF Open
    <2>2. round.left = Checkers(j.arg)
      BY DEF NoGate
    <2> HIDE DEF round
    <2> QED
      BY <2>1, <2>2
  <1> QED
    BY <1>3, <1>4, <1>5

(* Once it is open its checkers are the task's; one that does not count is *)
(* closed, its checkers with it.                                           *)
LEMMA StaffingInstall ==
  ASSUME Inductive, Alone, Staffing, NEW j \in jobs, Install(j) PROVE Staffing'
  <1>1. /\ j.at = "install" /\ jobs' = jobs \ {j} /\ gates' = "free" /\ worktree' = worktree
        /\ task.gate.outcome # "open" /\ \A k \in jobs \ {j} : k.at # "install"
    BY Working DEF Install, Replace, tree
  <1>2. \A m \in members : m.round = j.gate.round /\ m.role \in j.gate.left
    BY <1>1 DEF Staffing, Placed, InOpenRound, Opened
  <1>3. CASE task' = task /\ StopCheckers(j.gate.round)
    <2>1. members' = {}
      BY <1>2, <1>3 DEF StopCheckers
    <2> QED
      BY <1>1, <1>3, <2>1, NobodyChecks
  <1>4. CASE task' = [task EXCEPT !.gate = j.gate, !.state = "Reviewing"] /\ members' = members
    <2>1. task'.gate = j.gate /\ task'.state = "Reviewing"
      BY <1>4, InductiveParts, TypedParts DEF Task
    <2>2. j.gate.outcome = "open"
      BY <1>1, InductiveParts DEF Opening
    <2>3. Placed' /\ Staffed'
      BY <1>1, <1>2, <1>4, <2>1, <2>2 DEF Staffing, Placed, InOpenRound, Staffed, StaffedOpening
    <2>4. HeldToOpen' /\ StaffedOpening' /\ NoOrphans'
      BY <1>1, <2>1 DEF HeldToOpen, StaffedOpening, NoOrphans, Final
    <2> QED
      BY <2>3, <2>4 DEF Staffing
  <1> QED
    BY <1>3, <1>4 DEF Install

(* A result that counts ends its checker's work: no other checker works on *)
(* the same result.                                                        *)
LEMMA OneChecker ==
  ASSUME Typed, NEW m \in members, NEW n \in members, m.round = n.round, m.role = n.role,
         m.commit = n.commit
  PROVE  m = n
  <1>1. /\ m \in [round : 1 .. MaxRounds, role : Roles, commit : CommitOrNone]
        /\ n \in [round : 1 .. MaxRounds, role : Roles, commit : CommitOrNone]
    BY TypedParts
  <1> QED
    BY <1>1

LEMMA StaffingMemberReports ==
  ASSUME Inductive, Alone, Judged, Staffing, NEW m \in members, NEW result \in Results,
         MemberReports(m, result)
  PROVE  Staffing'
  <1>1. /\ gates = "free" /\ UNCHANGED <<gates, worktree, stop>> /\ members' = members \ {m}
    BY DEF MemberReports, tree
  <1>2. \A k \in jobs : k.at # "install"
    BY <1>1, InductiveParts DEF Opening
  <1>3. \A n \in members : InOpenRound(n)
    BY <1>2 DEF Staffing, Placed, Opened
  <1>4. CASE ~Counted(m)
    <2>1. UNCHANGED <<task, jobs>>
      BY <1>4, IgnoredReport
    <2>2. ~worktree
      BY <1>3, <1>4 DEF InOpenRound, Counted, Alone, OpenRound, EndedBare
    <2>3. Placed' /\ Staffed' /\ NoOrphans'
      BY <1>1, <1>3, <2>1, <2>2 DEF Placed, InOpenRound, Staffed, Staffing, NoOrphans
    <2> QED
      BY <1>1, <1>2, <2>1, <2>3 DEF Staffing, HeldToOpen, StaffedOpening
  <1>5. CASE Counted(m)
    <2> DEFINE old == task.gate
               new == task'.gate
    <2>1. /\ Typed /\ old \in Gate /\ m.round = old.round /\ old.outcome = "open" /\ RoundJudged
      BY <1>5, CommitsKnown DEF Counted, Judged
    <2>2. /\ new.round = old.round /\ new.left = old.left \ {m.role}
          /\ \/ old.left # {m.role} /\ new.outcome = "open" /\ jobs' = jobs
             \/ /\ old.left = {m.role} /\ new.outcome # "open"
                /\ \E arg \in Args : jobs' = jobs \union {Job("act", new, NoCommit, arg)}
          /\ task'.state = "Reviewing"
      BY <1>5, <2>1, CountedReport DEF Counted, Results
    <2>3. \A n \in members \ {m} : n.role # m.role
      <3>1. RoundVouched /\ ~old.overridden
        BY <2>1, InductiveParts DEF RoundJudged
      <3>2. \A n \in members : n.commit = old.commit /\ n.round = old.round
        BY <1>3, <2>1, <3>1 DEF RoundVouched, InOpenRound
      <3> QED
        BY <2>1, <3>2, OneChecker
    <2>4. \A k \in jobs' : k.at # "install"
      BY <1>2, <2>2 DEF Job
    <2>5. CASE old.left # {m.role} /\ new.outcome = "open"
      <3>1. Placed'
        BY <1>1, <1>3, <2>2, <2>3, <2>5 DEF Placed, InOpenRound
      <3>2. Staffed'
        <4> SUFFICES ASSUME worktree', NEW r \in new.left
                     PROVE  \E n \in members' : n.round = new.round /\ n.role = r
          BY DEF Staffed
        <4>1. r \in old.left /\ r # m.role
          BY <2>2
        <4>2. PICK n \in members : n.round = old.round /\ n.role = r
          BY <1>1, <2>1, <4>1 DEF Staffing, Staffed
        <4> QED
          BY <1>1, <2>2, <4>1, <4>2
      <3> QED
        BY <1>1, <2>2, <2>4, <3>1, <3>2
        DEF Staffing, HeldToOpen, StaffedOpening, NoOrphans, Final
    <2>6. CASE old.left = {m.role} /\ new.outcome # "open"
      <3>1. members' = {}
        BY <1>1, <1>3, <2>3, <2>6 DEF InOpenRound
      <3> QED
        BY <1>1, <2>4, <2>6, <3>1, NobodyChecks
    <2> QED
      BY <2>2, <2>5, <2>6
  <1> QED
    BY <1>4, <1>5

LEMMA StaffingRestart ==
  ASSUME Typed, Alone, Restart PROVE Staffing'
  <1>1. jobs' = {} /\ members' = {} /\ gates' = "free"
    BY Restarted
  <1>2. worktree' => task'.gate.outcome # "open"
    <2>1. task.gate.outcome = "open" => task.state \in Final \union {"Reviewing"}
      BY DEF Alone, OpenRound
    <2>2. task.state \in Final => ~worktree
      BY DEF Alone, EndedBare
    <2> QED
      BY <2>1, <2>2, Restarted DEF Final
  <1> QED
    BY <1>1, <1>2, NobodyChecks

LEMMA StaffingStep ==
  ASSUME Inductive, Alone, Judged, Staffing, [Next]_vars PROVE Staffing'
  <1>1. Typed
    BY InductiveParts
  <1>2. ASSUME NEW j \in jobs, JobSteps(j) \/ \E a \in {"allow", "deny", "withdrawn"} : Answer(j, a)
        PROVE  Staffing'
    BY <1>1, <1>2, StaffingBuild, StaffingOpen, StaffingInstall, StaffingAct, StaffingFixes,
       StaffingEscalated, StaffingAsks, StaffingGit, StaffingReplayed, StaffingEnds,
       Zenon DEF JobSteps
  <1> QED
    BY <1>1, <1>2, StaffingOutside, StaffingAccept, StaffingRelay, StaffingOverrideStart,
       StaffingStopCloseGate, StaffingMemberReports, StaffingRestart, Zenon DEF Next

-----------------------------------------------------------------------------
(* The change moves on.  Under review there is a job at work or a round    *)
(* open; reported and Brigadier's to land, its report is being relayed.    *)

StoppedBare == stop # "none" => ~worktree
UnderWay ==
    worktree /\ task.state \in {"Reviewing", "AwaitingApproval"} =>
        InFlight # {} \/ task.gate.outcome = "open"
FixRelayed == task.state = "Reported" /\ task.landing => task.report \in relays

Moving == StoppedBare /\ UnderWay /\ FixRelayed

LEMMA MovingInit == Init => Moving
  BY DEF Init, Moving, StoppedBare, UnderWay, FixRelayed

LEMMA MovingBeside ==
  ASSUME Moving, UNCHANGED <<stop, worktree, relays, jobs>>,
         task'.state = task.state, task'.gate.outcome = task.gate.outcome,
         task'.landing = task.landing, task'.report = task.report
  PROVE  Moving'
  BY DEF Moving, StoppedBare, UnderWay, FixRelayed, InFlight

(* A step after which some job works on the change. *)
Busy == \E k \in jobs : k.at # "escalated"

LEMMA MovingGoesOn ==
  ASSUME Moving, UNCHANGED <<stop, worktree>>, task'.state # "Reported", Busy'
  PROVE  Moving'
  BY DEF Moving, StoppedBare, UnderWay, FixRelayed, InFlight, Busy

(* What becomes of a job when it goes on. *)
LEMMA BusyWith ==
  ASSUME NEW j, NEW k, Replace(j, {k}), k.at # "escalated" PROVE Busy'
  BY DEF Replace, Busy

LEMMA BusyBecome ==
  ASSUME NEW j \in JobType, NEW at, at # "escalated", Become(j, at) PROVE Busy'
  <1>1. [j EXCEPT !.at = at].at = at
    BY DEF JobType
  <1> QED
    BY <1>1, BusyWith DEF Become

LEMMA BusyProblem ==
  ASSUME NEW j \in JobType, NEW to, Replace(j, {Problem(j, to)}) PROVE Busy'
  <1>1. Problem(j, to).at = "problem"
    BY DEF JobType, Problem
  <1> QED
    BY <1>1, BusyWith

LEMMA BusyOpen ==
  ASSUME NEW j \in JobType, NEW arg, Replace(j, {[j EXCEPT !.at = "open", !.arg = arg]})
  PROVE  Busy'
  <1>1. [j EXCEPT !.at = "open", !.arg = arg].at = "open"
    BY DEF JobType
  <1> QED
    BY <1>1, BusyWith

LEMMA BusyJob ==
  ASSUME NEW j, NEW at, NEW gate, NEW commit, NEW arg, at # "escalated",
         Replace(j, {Job(at, gate, commit, arg)})
  PROVE  Busy'
  <1>1. Job(at, gate, commit, arg).at = at
    BY DEF Job
  <1> QED
    BY <1>1, BusyWith

LEMMA BusyNew ==
  ASSUME NEW at, NEW gate, NEW commit, NEW arg, at # "escalated",
         jobs' = jobs \union {Job(at, gate, commit, arg)}
  PROVE  Busy'
  <1>1. Job(at, gate, commit, arg).at = at
    BY DEF Job
  <1> QED
    BY <1>1 DEF Busy

(* One after which nothing has to. *)
LEMMA MovingEnds ==
  ASSUME Moving, stop' = stop, worktree' => worktree,
         worktree' => task'.state \notin {"Reviewing", "AwaitingApproval"},
         task'.state = "Reported" => ~task'.landing
  PROVE  Moving'
  BY DEF Moving, StoppedBare, UnderWay, FixRelayed

LEMMA MovingOutside ==
  ASSUME Typed, Moving,
         \/ WorkerEdits \/ (\E o \in BOOLEAN : TargetMoves(o)) \/ OverrideRead \/ UNCHANGED vars
  PROVE  Moving'
  <1>1. UNCHANGED <<task, stop, worktree, relays, jobs>>
    BY DEF WorkerEdits, TargetMoves, OverrideRead, vars, tree
  <1> QED
    BY <1>1, MovingBeside

LEMMA MovingReports ==
  ASSUME Typed, Moving, NEW n \in BOOLEAN, WorkerReports(n) PROVE Moving'
  <1>1. /\ UNCHANGED <<stop, worktree>> /\ task'.state = "Reported"
        /\ task'.landing = (task.landing /\ ~n) /\ task'.report = task.report + 1
        /\ task'.landing => relays' = relays \union {task.report + 1}
    BY TypedParts DEF WorkerReports, Task, tree
  <1> QED
    BY <1>1 DEF Moving, StoppedBare, UnderWay, FixRelayed

LEMMA MovingBegins ==
  ASSUME Typed, Moving, NEW fresh \in BOOLEAN, BeginLanding(fresh), UNCHANGED <<stop, worktree>>
  PROVE  Moving'
  <1>1. task'.state = "Reviewing"
    BY TypedParts DEF BeginLanding, Task
  <1>2. Busy'
    BY BusyNew DEF BeginLanding
  <1> QED
    BY <1>1, <1>2, MovingGoesOn

LEMMA MovingAccept == ASSUME Typed, Moving, Accept PROVE Moving'
  BY MovingBegins DEF Accept, tree

LEMMA MovingRelay == ASSUME Typed, Moving, NEW r \in relays, Relay(r) PROVE Moving'
  <1>1. UNCHANGED <<stop, worktree>> /\ relays' = relays \ {r}
    BY DEF Relay, tree
  <1>2. CASE /\ ~(task.state = "Reported" /\ task.landing /\ task.report = r)
             /\ UNCHANGED <<task, jobs>>
    BY <1>1, <1>2 DEF Moving, StoppedBare, UnderWay, FixRelayed, InFlight
  <1>3. CASE BeginLanding(FALSE)
    BY <1>1, <1>3, MovingBegins
  <1> QED
    BY <1>2, <1>3 DEF Relay

LEMMA MovingOverrideStart == ASSUME Typed, Moving, OverrideStart PROVE Moving'
  <1>1. task'.state = "Reviewing" /\ UNCHANGED <<stop, worktree>>
    BY TypedParts DEF OverrideStart, Task, tree
  <1>2. Busy'
    BY BusyNew DEF OverrideStart
  <1> QED
    BY <1>1, <1>2, MovingGoesOn

LEMMA MovingStops ==
  ASSUME Typed, Moving, SendBack \/ Stop \/ StopCloseGate PROVE Moving'
  <1>1. CASE SendBack
    <2>1. task'.state = "Running" /\ UNCHANGED <<stop, worktree>>
      BY <1>1, TypedParts DEF SendBack, Reopened, Task, tree
    <2> QED
      BY <2>1, MovingEnds
  <1>2. CASE Stop
    <2>1. task'.state = "Stopped" /\ worktree' = FALSE
      BY <1>2, TypedParts DEF Stop, Dispose, Task
    <2> QED
      BY <2>1 DEF Moving, StoppedBare, UnderWay, FixRelayed
  <1>3. CASE StopCloseGate
    <2>1. /\ stop = "recorded" /\ stop' = "none" /\ UNCHANGED <<worktree, relays>>
      BY <1>3 DEF StopCloseGate, tree
    <2>2. UNCHANGED <<task.state, task.landing, task.report>>
      BY <1>3, TypedParts DEF StopCloseGate, Task
    <2> QED
      BY <2>1, <2>2 DEF Moving, StoppedBare, UnderWay, FixRelayed
  <1> QED
    BY <1>1, <1>2, <1>3

(* A job of a task that ended has nothing left to dispose of.              *)
LEMMA EndedJob ==
  ASSUME Alone, NEW j \in jobs, j.at # "escalated",
         worktree => task.state \notin {"Reviewing", "AwaitingApproval"}
  PROVE  ~worktree /\ task.state # "Reported"
  BY Working DEF Alone, EndedBare, Final

LEMMA MovingBuild ==
  ASSUME Typed, Alone, Moving, NEW j \in jobs, Build(j) \/ Record(j) PROVE Moving'
  <1>1. /\ stop' = stop /\ j.at \in {"build", "built"} /\ j \in JobType
        /\ task.state # "Reported"
    BY TypedParts, Working DEF Build, Record, Final
  <1>2. CASE Dispose("Done")
    <2>1. task'.state = "Done" /\ worktree' = FALSE
      BY <1>2, TypedParts DEF Dispose, Task
    <2> QED
      BY <1>1, <2>1, MovingEnds
  <1>3. CASE /\ task'.state = task.state /\ worktree' = worktree
             /\ \/ Replace(j, {[j EXCEPT !.at = "built", !.commit = head']})
                \/ Replace(j, {Problem(j, "Reported")})
                \/ Replace(j, {[j EXCEPT !.at = "open", !.arg = "build"]})
    <2>1. Busy'
      <3>1. [j EXCEPT !.at = "built", !.commit = head'].at = "built"
        BY <1>1 DEF JobType
      <3> QED
        BY <1>1, <1>3, <3>1, BusyWith, BusyProblem, BusyOpen
    <2> QED
      BY <1>1, <1>3, <2>1, MovingGoesOn
  <1>4. Record(j) => task'.state = task.state /\ worktree' = worktree
    BY TypedParts DEF Record, tree, Task
  <1> QED
    BY <1>2, <1>3, <1>4 DEF Build, Record

(* A round that is not opened, because it would end as the last one did,   *)
(* is never one of a replayed commit: somebody else takes over.            *)
LEMMA MovingOpen ==
  ASSUME Typed, Alone, Judged, Moving, NEW j \in jobs, Open(j) PROVE Moving'
  <1>1. /\ UNCHANGED <<stop, worktree, task>> /\ j.at = "open" /\ j \in JobType
        /\ task.state # "Reported"
    BY TypedParts, Working DEF Open, tree, Final
  <1>2. Unchanged => j.arg \in {"build", "retry"}
    BY <1>1 DEF Judged, JobsFit, Fits, FitsOpen, Unchanged
  <1>3. Busy'
    <2>1. CASE Replace(j, {Problem(j, "Reported")})
      BY <1>1, <2>1, BusyProblem
    <2>2. CASE Unchanged /\ Replace(j, NotOpened(j))
      <3>1. CASE j.arg = "build"
        BY <1>1, <2>2, <3>1, BusyBecome DEF NotOpened, Become
      <3>2. CASE j.arg = "retry"
        BY <1>1, <2>2, <3>2, BusyProblem DEF NotOpened
      <3> QED
        BY <1>2, <2>2, <3>1, <3>2
    <2>3. CASE \E gate, commit : Replace(j, {Job("install", gate, commit, "none")})
      BY <2>3, BusyJob
    <2> QED
      BY <2>1, <2>2, <2>3 DEF Open
  <1> QED
    BY <1>1, <1>3, MovingGoesOn

LEMMA MovingInstall ==
  ASSUME Inductive, Alone, Judged, Moving, NEW j \in jobs, Install(j) PROVE Moving'
  <1>1. UNCHANGED <<stop, worktree>> /\ j.at = "install" /\ task.state # "Reported"
    BY Working DEF Install, tree, Final
  <1>2. task.candidate = j.commit
    BY <1>1 DEF Judged, JobsFit, Fits, FitsInstall
  <1>3. CASE task.state \in Final /\ task' = task
    BY <1>1, <1>3, MovingEnds DEF Alone, EndedBare
  <1>4. CASE task' = [task EXCEPT !.gate = j.gate, !.state = "Reviewing"]
    <2>1. task'.gate = j.gate /\ task'.state = "Reviewing"
      BY <1>4, InductiveParts, TypedParts DEF Task
    <2>2. task'.gate.outcome = "open"
      BY <1>1, <2>1, InductiveParts DEF Opening
    <2> QED
      BY <1>1, <2>1, <2>2 DEF Moving, StoppedBare, UnderWay, FixRelayed
  <1> QED
    BY <1>2, <1>3, <1>4 DEF Install

(* A job that finds that the task moved on finds that it ended.            *)
LEMMA MovedOn ==
  ASSUME Alone, NEW j \in jobs, j.at # "escalated", OwnRound(j), ~Current(j.gate)
  PROVE  ~worktree
  BY EndedJob DEF OwnRound, Current

LEMMA MovingAct ==
  ASSUME Typed, Alone, Judged, Moving, NEW j \in jobs, Act(j) PROVE Moving'
  <1>1. /\ UNCHANGED <<stop, worktree, task>> /\ j.at = "act" /\ j \in JobType
        /\ task.state # "Reported"
    BY TypedParts, Working DEF Act, tree, Final
  <1>2. j.gate = task.gate
    BY <1>1 DEF Judged, JobsFit, Fits, FitsAct
  <1>3. CASE ~Current(j.gate)
    BY <1>1, <1>2, <1>3, MovedOn, MovingEnds DEF OwnRound
  <1>4. CASE Current(j.gate)
    <2>1. CASE j.gate.outcome = "passed"
      <3>1. Become(j, "land") \/ Become(j, "approve")
        BY <1>1, <1>2, <1>4, <2>1 DEF Act, Become
      <3> QED
        BY <1>1, <3>1, BusyBecome, MovingGoesOn
    <2>2. CASE j.gate.outcome = "failed"
      <3>1. Become(j, "sendBack")
        BY <1>1, <1>2, <1>4, <2>2 DEF Act, Become
      <3> QED
        BY <1>1, <3>1, BusyBecome, MovingGoesOn
    <2>3. CASE j.gate.outcome = "unverified"
      <3>1. \/ Replace(j, {Problem(j, "ReadyToLand")})
            \/ Replace(j, {[j EXCEPT !.at = "open", !.arg = "retry"]})
        BY <1>1, <1>2, <1>4, <2>3 DEF Act
      <3> QED
        BY <1>1, <3>1, BusyProblem, BusyOpen, MovingGoesOn
    <2>4. CASE j.gate.outcome \notin {"passed", "failed", "unverified"}
      <3>1. Replace(j, {Problem(j, "Reported")})
        BY <1>1, <1>2, <1>4, <2>4 DEF Act
      <3> QED
        BY <1>1, <3>1, BusyProblem, MovingGoesOn
    <2> QED
      BY <2>1, <2>2, <2>3, <2>4
  <1> QED
    BY <1>3, <1>4

LEMMA MovingFixes ==
  ASSUME Typed, Alone, Moving, NEW j \in jobs, StartFix(j) \/ Fix(j) \/ Escalate(j) PROVE Moving'
  <1>1. /\ UNCHANGED <<stop, worktree>> /\ j.at \in {"sendBack", "fix", "escalate"}
        /\ j \in JobType /\ task.state # "Reported"
    BY TypedParts, Working DEF StartFix, Fix, Escalate, tree, Final
  <1>2. CASE task'.state = task.state /\ \E at \in {"fix", "escalate"} : Become(j, at)
    <2>1. Busy'
      BY <1>1, <1>2, BusyBecome
    <2> QED
      BY <1>1, <1>2, <2>1, MovingGoesOn
  <1>3. CASE task'.state = "Running" \/ (task'.state = "Reported" /\ ~task'.landing)
    BY <1>1, <1>3, MovingEnds
  <1>4. \/ task'.state = task.state /\ \E at \in {"fix", "escalate"} : Become(j, at)
        \/ task'.state = "Running" \/ (task'.state = "Reported" /\ ~task'.landing)
    <2>1. CASE StartFix(j)
      BY <2>1, TypedParts DEF StartFix, Task
    <2>2. CASE Fix(j)
      BY <2>2, TypedParts DEF Fix, Reopened, Task
    <2>3. CASE Escalate(j)
      BY <2>3, TypedParts DEF Escalate, Task
    <2> QED
      BY <2>1, <2>2, <2>3
  <1> QED
    BY <1>2, <1>3, <1>4

LEMMA MovingEscalated ==
  ASSUME Typed, Moving, NEW j \in jobs, Escalated(j) PROVE Moving'
  <1>1. /\ UNCHANGED <<stop, worktree, relays>> /\ InFlight' = InFlight
    BY DEF Escalated, Replace, tree, InFlight
  <1>2. /\ task'.gate = task.gate /\ task'.state = task.state /\ task'.landing = task.landing
        /\ task'.report = task.report
    BY TypedParts DEF Escalated, Task
  <1> QED
    BY <1>1, <1>2 DEF Moving, StoppedBare, UnderWay, FixRelayed

LEMMA MovingAsks ==
  ASSUME Typed, Alone, Judged, Moving, NEW j \in jobs, NEW answer,
         Approve(j) \/ Answer(j, answer) \/ Answered(j) \/ Land(j)
  PROVE  Moving'
  <1>1. /\ UNCHANGED <<stop, worktree>> /\ j.at \in {"approve", "card", "answered", "land"}
        /\ j \in JobType /\ task.state # "Reported"
    BY TypedParts, Working DEF Approve, Answer, Answered, Land, tree, Final
  <1>2. OwnRound(j)
    BY <1>1 DEF Judged, JobsFit, Fits, FitsLand
  <1>3. task'.state \in {task.state, "AwaitingApproval"}
    BY TypedParts DEF Approve, Answer, Answered, Land, Task
  <1>4. CASE ~Current(j.gate) /\ task' = task
    BY <1>1, <1>2, <1>4, MovedOn, MovingEnds
  <1>5. CASE Busy'
    BY <1>1, <1>3, <1>5, MovingGoesOn
  <1>6. (~Current(j.gate) /\ task' = task) \/ Busy'
    <2>1. CASE Approve(j)
      BY <1>1, <2>1, BusyBecome DEF Approve
    <2>2. CASE Answer(j, answer)
      <3>1. [j EXCEPT !.at = "answered", !.arg = answer].at = "answered"
        BY <1>1 DEF JobType
      <3> QED
        BY <2>2, <3>1, BusyWith DEF Answer
    <2>3. CASE Answered(j)
      BY <1>1, <2>3, BusyBecome, BusyProblem DEF Answered, Become
    <2>4. CASE Land(j)
      <3>1. [j EXCEPT !.at = "git", !.commit = task.candidate].at = "git"
        BY <1>1 DEF JobType
      <3> QED
        BY <1>1, <2>4, <3>1, BusyWith, BusyProblem DEF Land
    <2> QED
      BY <2>1, <2>2, <2>3, <2>4
  <1> QED
    BY <1>4, <1>5, <1>6

LEMMA MovingGit ==
  ASSUME Typed, Alone, Moving, NEW j \in jobs, GitLands(j) \/ Replay(j) \/ Replayed(j)
  PROVE  Moving'
  <1>1. /\ UNCHANGED <<stop, worktree>> /\ j.at \in {"git", "replayed"}
        /\ j \in JobType /\ task.state # "Reported"
    BY TypedParts, Working DEF GitLands, Replay, Replayed, tree, Final
  <1>2. task'.state = task.state
    BY ReplayRecorded DEF GitLands, Replay
  <1>3. Busy'
    <2>1. CASE GitLands(j)
      BY <1>1, <2>1, BusyBecome, BusyProblem DEF GitLands
    <2>2. CASE Replay(j)
      <3> DEFINE Onto(arg) == [j EXCEPT !.at = "replayed", !.commit = head', !.arg = arg]
      <3>1. \A arg : Onto(arg).at = "replayed"
        BY <1>1 DEF JobType
      <3>2. (\E arg : Replace(j, {Onto(arg)})) \/ Replace(j, {Problem(j, "Reported")})
        BY <2>2 DEF Replay
      <3> QED
        BY <1>1, <3>1, <3>2, BusyWith, BusyProblem
    <2>3. CASE Replayed(j)
      <3>1. (\E g : Replace(j, {[j EXCEPT !.at = "land", !.gate = g]})) \/ Become(j, "open")
        BY <2>3, ReplayRecorded
      <3>2. \A g : [j EXCEPT !.at = "land", !.gate = g].at = "land"
        BY <1>1 DEF JobType
      <3> QED
        BY <1>1, <3>1, <3>2, BusyWith, BusyBecome
    <2> QED
      BY <2>1, <2>2, <2>3
  <1> QED
    BY <1>1, <1>2, <1>3, MovingGoesOn

LEMMA MovingLanded == ASSUME Typed, Moving, NEW j \in jobs, Landed(j) PROVE Moving'
  <1>1. task'.state = "Landed" /\ worktree' = FALSE /\ stop' = stop
    BY TypedParts DEF Landed, Dispose, Task
  <1> QED
    BY <1>1, MovingEnds

LEMMA MovingHandBack ==
  ASSUME Typed, Alone, Moving, NEW j \in jobs, HandBack(j) PROVE Moving'
  <1>1. UNCHANGED <<stop, worktree>> /\ j.at = "problem" /\ task.state # "Reported"
    BY Working DEF HandBack, tree, Final
  <1>2. CASE (task.state \in Final \/ stop # "none") /\ task' = task
    BY <1>1, <1>2, MovingEnds DEF Alone, EndedBare, Moving, StoppedBare
  <1>3. CASE task' = [task EXCEPT !.state = j.arg, !.landing = FALSE]
    <2>1. task'.state = j.arg /\ ~task'.landing
      BY <1>3, TypedParts DEF Task
    <2>2. j.arg \in {"Reported", "ReadyToLand"}
      BY <1>1, TypedParts DEF ProblemsTyped
    <2> QED
      BY <1>1, <2>1, <2>2, MovingEnds
  <1> QED
    BY <1>2, <1>3 DEF HandBack

LEMMA MovingMemberReports ==
  ASSUME Typed, Moving, NEW m \in members, NEW result \in Results, MemberReports(m, result)
  PROVE  Moving'
  <1>1. UNCHANGED <<stop, worktree, relays>>
    BY DEF MemberReports, tree
  <1>2. CASE ~Counted(m)
    BY <1>1, <1>2, IgnoredReport, MovingBeside
  <1>3. CASE Counted(m)
    <2>1. task'.state = "Reviewing"
      BY <1>3, CountedReport DEF Counted
    <2>2. task'.gate.outcome = "open" \/ Busy'
      BY <1>3, CountedReport, BusyNew
    <2>3. CASE task'.gate.outcome = "open"
      BY <1>1, <2>1, <2>3 DEF Moving, StoppedBare, UnderWay, FixRelayed
    <2> QED
      BY <1>1, <2>1, <2>2, <2>3, MovingGoesOn
  <1> QED
    BY <1>2, <1>3

LEMMA MovingRestart == ASSUME Typed, Moving, Restart PROVE Moving'
  <1>1. stop' = "none"
    BY Restarted
  <1>2. worktree' => task'.state \notin {"Reviewing", "AwaitingApproval"}
    BY Restarted
  <1>3. task'.state = "Reported" => ~task'.landing
    BY Restarted
  <1> QED
    BY <1>1, <1>2, <1>3 DEF Moving, StoppedBare, UnderWay, FixRelayed

LEMMA MovingStep ==
  ASSUME Inductive, Alone, Judged, Moving, [Next]_vars PROVE Moving'
  <1>1. Typed
    BY InductiveParts
  <1>2. ASSUME NEW j \in jobs, JobSteps(j) \/ \E a \in {"allow", "deny", "withdrawn"} : Answer(j, a)
        PROVE  Moving'
    BY <1>1, <1>2, MovingBuild, MovingOpen, MovingInstall, MovingAct, MovingFixes,
       MovingEscalated, MovingAsks, MovingGit, MovingLanded, MovingHandBack, Zenon DEF JobSteps
  <1> QED
    BY <1>1, <1>2, MovingOutside, MovingReports, MovingAccept, MovingRelay, MovingOverrideStart,
       MovingStops, MovingMemberReports, MovingRestart, Zenon DEF Next

-----------------------------------------------------------------------------
(* Together: what holds of one change while the orchestrator leaves it     *)
(* alone as long as Brigadier has it in hand.                              *)

Orderly == Inductive /\ Alone /\ Versions /\ Judged /\ Staffing /\ Moving

LEMMA OrderlyInit == Init => Orderly
  BY InductiveInit, AloneInit, VersionsInit, JudgedInit, StaffingInit, MovingInit DEF Orderly

LEMMA OrderlyStep == ASSUME Patient, Orderly, [Next]_vars PROVE Orderly'
  <1>1. Inductive /\ Typed /\ Inductive'
    BY InductiveStep, InductiveParts DEF Orderly
  <1>2. Typed'
    BY <1>1 DEF Inductive, Typed
  <1> QED
    BY <1>1, <1>2, AloneStep, VersionsStep, JudgedStep, StaffingStep, MovingStep DEF Orderly

(* Only a candidate whose checks all passed lands, or one the user had     *)
(* land despite them (gates.rs, landing.rs): a verifier passed that very   *)
(* commit and a reviewer approved it or what it is a clean replay of.      *)
THEOREM OnlyCheckedLands == ASSUME Patient PROVE Spec => []NothingUnchecked
  <1>1. Orderly => NothingUnchecked
    BY DEF Orderly, Judged, LandingsJudged, NothingUnchecked, Approved, Overruled, VouchedBy,
       SameChange, Clean
  <1>2. Orderly /\ [Next]_vars => Orderly'
    BY OrderlyStep
  <1> QED
    BY <1>1, <1>2, OrderlyInit, PTL DEF Spec

(* Under "Ask for approval" a change lands only once the user allowed that *)
(* commit, or the one it is a clean replay of (landing.rs).                *)
THEOREM OnlyAllowedLands == ASSUME Patient PROVE Spec => []UserDecides
  <1>1. Orderly => UserDecides
    BY DEF Orderly, Judged, LandingsJudged, UserDecides, Asked, VouchedBy, SameChange, Clean
  <1>2. Orderly /\ [Next]_vars => Orderly'
    BY OrderlyStep
  <1> QED
    BY <1>1, <1>2, OrderlyInit, PTL DEF Spec

(* A version of the change lands at most once, restarts included.          *)
THEOREM VersionsLandOnce == ASSUME Patient PROVE Spec => []LandsOnce
  <1>1. Orderly => LandsOnce
    BY DEF Orderly, Versions
  <1>2. Orderly /\ [Next]_vars => Orderly'
    BY OrderlyStep
  <1> QED
    BY <1>1, <1>2, OrderlyInit, PTL DEF Spec

(* No checker works on a task that has ended, however its end raced with a *)
(* round that was opening (gates.rs, still_checks and close_gate).         *)
THEOREM CheckersEndWithTask == ASSUME Patient PROVE Spec => []NoOrphans
  <1>1. Orderly => NoOrphans
    BY DEF Orderly, Staffing
  <1>2. Orderly /\ [Next]_vars => Orderly'
    BY OrderlyStep
  <1> QED
    BY <1>1, <1>2, OrderlyInit, PTL DEF Spec

(* A change Brigadier has in hand always has a job, a checker or a relay   *)
(* that will move it on.                                                   *)
THEOREM ChangeMovesOn == ASSUME Patient PROVE Spec => []NothingStranded
  <1>1. Orderly => NothingStranded
    <2> SUFFICES ASSUME Orderly, worktree
                 PROVE  /\ task.state \in {"Reviewing", "AwaitingApproval"} =>
                              \/ jobs # {} \/ stop # "none"
                              \/ /\ task.gate.outcome = "open"
                                 /\ \E m \in members : m.round = task.gate.round
                        /\ task.state = "Reported" /\ task.landing =>
                              task.report \in relays \/ stop # "none"
      BY DEF NothingStranded
    <2>1. task.gate.outcome = "open" => \E m \in members : m.round = task.gate.round
      BY DEF Orderly, Judged, RoundJudged, Staffing, Staffed
    <2>2. InFlight # {} => jobs # {}
      BY DEF InFlight
    <2> QED
      BY <2>1, <2>2 DEF Orderly, Moving, UnderWay, FixRelayed
  <1>2. Orderly /\ [Next]_vars => Orderly'
    BY OrderlyStep
  <1> QED
    BY <1>1, <1>2, OrderlyInit, PTL DEF Spec

=============================================================================

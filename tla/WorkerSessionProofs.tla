------------------------ MODULE WorkerSessionProofs ------------------------
(***************************************************************************)
(* What holds of a task's sessions for any number of errors handed on and  *)
(* of limits, exits, messages, pauses, resumes and stops.                  *)
(***************************************************************************)
EXTENDS WorkerSession, TLAPS, FiniteSetTheorems

(* The types, those of the jobs among them. *)
Ends == {"none", "limit", "error"}

TaskType == [state : Final \union {"Starting", "Running", "Reported", "Paused"},
             open : BOOLEAN, errors : Nat, wait : BOOLEAN, report : BOOLEAN]
LiveType == [cli : Nat, busy : BOOLEAN, stopping : BOOLEAN, nudged : BOOLEAN, cutoff : Ends,
             asked : BOOLEAN, held : BOOLEAN, generation : Nat, stalls : 0 .. 1,
             stallNudged : BOOLEAN, full : BOOLEAN]
CliType == [id : Sessions, alive : BOOLEAN, turn : {"none", "running", "interrupted"},
            ended : {"none", "completed", "interrupted"}, decides : BOOLEAN,
            nudge : BOOLEAN, asked : BOOLEAN, from : Nat]
Steps == {"launch", "install", "mark", "send", "exited", "handOff", "handOffClose", "continue",
          "routed", "handOver", "overClose", "fresh", "stalledClose", "replaceClose", "messageClose",
          "restartClose", "pause", "fail", "failClose", "failEnd", "failSweep", "stopClose", "stopEnd",
          "stopSweep"}
JobType == [at : Steps, from : Nat, cli : Nat, end : Ends, pending : BOOLEAN, lock : BOOLEAN,
            caller : {"task", "call"}, watch : BOOLEAN, new : BOOLEAN]

TypedTask == task \in TaskType /\ known \in BOOLEAN
TypedLive == live \in LiveType
TypedClis == clis \subseteq CliType
TypedJobs == jobs \subseteq JobType
Typed == TypedTask /\ TypedLive /\ TypedClis /\ TypedJobs /\ started \in Nat

LEMMA JobTyped ==
    ASSUME NEW at \in Steps, NEW from \in Nat
    PROVE  Job(at, from) \in JobType
BY DEF Job, JobType, Steps, Ends

LEMMA CliTyped ==
    ASSUME NEW id \in Sessions
    PROVE  Cli(id) \in CliType
BY DEF Cli, CliType, Sessions

LEMMA DetachTyped ==
    ASSUME Typed, NEW j \in jobs, NEW at \in Steps, Detach(j, at)
    PROVE  TypedLive' /\ TypedJobs'
<1> DEFINE n == [j EXCEPT !.at = at, !.cli = live.cli, !.lock = @ \/ at \in Rerouting]
<1>1. n \in JobType
  BY DEF Typed, TypedJobs, TypedLive, JobType, LiveType
<1>2. jobs' = (jobs \ {j}) \union {n}
  BY DEF Detach, Replace
<1>3. live' \in LiveType
  BY DEF Detach, Detached, Typed, TypedLive, LiveType
<1> HIDE DEF n
<1> QED
  BY <1>1, <1>2, <1>3 DEF Typed, TypedJobs, TypedLive

LEMMA ReplaceTyped ==
    ASSUME Typed, NEW j, NEW N \in SUBSET JobType, Replace(j, N)
    PROVE  TypedJobs'
BY DEF Typed, TypedJobs, Replace

LEMMA BecomeTyped ==
    ASSUME Typed, NEW j \in jobs, NEW at \in Steps
    PROVE  /\ [j EXCEPT !.at = at] \in JobType
           /\ [j EXCEPT !.at = at, !.from = 0, !.cli = 0, !.end = "none", !.pending = FALSE] \in JobType
<1>1. j \in JobType
  BY DEF Typed, TypedJobs
<1> QED
  BY <1>1 DEF JobType, Ends

LEMMA FailingTyped ==
    ASSUME Typed, NEW j \in jobs
    PROVE  Failing(j) \in SUBSET JobType
<1> DEFINE f == Job("fail", 0)
           n == [f EXCEPT !.lock = j.lock, !.watch = j.watch]
<1>1. j \in JobType /\ f \in JobType
  BY DEF Typed, TypedJobs, Job, JobType, Steps, Ends
<1> HIDE DEF f
<1>2. n \in JobType
  BY <1>1 DEF JobType
<1>3. Failing(j) \subseteq {n}
  BY DEF Failing, f
<1> HIDE DEF n
<1> QED
  BY <1>2, <1>3

LEMMA TypedInit == Init => Typed
<1> SUFFICES ASSUME Init PROVE Typed
  OBVIOUS
<1>1. TypedTask /\ TypedLive /\ TypedClis /\ started \in Nat
  BY DEF Init, TypedTask, TypedLive, TypedClis, TaskType, LiveType, Ends, Final
<1>2. jobs = {Job("launch", 0)} /\ Job("launch", 0) \in JobType
  BY DEF Init, Job, JobType, Steps, Ends
<1> QED
  BY <1>1, <1>2 DEF Typed, TypedJobs

-----------------------------------------------------------------------------
(* Every step keeps the types. *)

LEMMA WithTyped ==
    ASSUME Typed, NEW c \in clis, NEW d \in CliType, With(c, d)
    PROVE  TypedClis'
BY DEF Typed, TypedClis, With

LEMMA SendTyped ==
    ASSUME Typed, NEW c \in clis, Send(c)
    PROVE  TypedClis'
<1> DEFINE d == [c EXCEPT !.turn = IF @ = "none" THEN "running" ELSE @]
<1>1. c \in CliType
  BY DEF Typed, TypedClis
<1>2. d \in CliType
  BY <1>1 DEF CliType
<1> QED
  BY <1>2, WithTyped DEF Send

LEMMA TypedCli ==
    ASSUME Typed, NEW c \in clis,
           \/ Speaks(c) \/ ContextFull(c) \/ Report(c) \/ TurnEnds(c) \/ Exits(c)
           \/ \E end \in {"limit", "error"} : CutOff(c, end)
    PROVE  Typed'
<1>0. c \in CliType
  BY DEF Typed, TypedClis
<1>1. CASE Speaks(c) \/ ContextFull(c) \/ \E end \in {"limit", "error"} : CutOff(c, end)
  <2>1. TypedLive'
    BY <1>1 DEF Speaks, ContextFull, CutOff, Typed, TypedLive, LiveType, Ends
  <2> QED
    BY <1>1, <2>1 DEF Speaks, ContextFull, CutOff, Typed, TypedTask, TypedClis, TypedJobs
<1>2. CASE Report(c)
  <2>1. TypedLive' /\ TypedTask'
    BY <1>2 DEF Report, Typed, TypedLive, LiveType, TypedTask, TaskType
  <2> QED
    BY <1>2, <2>1 DEF Report, Typed, TypedClis, TypedJobs
<1>3. CASE TurnEnds(c)
  <2> DEFINE d == [c EXCEPT !.turn = "none",
                            !.ended = IF c.turn = "running" THEN "completed" ELSE "interrupted"]
  <2>1. d \in CliType
    BY <1>0 DEF CliType
  <2>2. TypedClis'
    BY <1>3, <2>1, WithTyped DEF TurnEnds
  <2> QED
    BY <1>3, <2>2 DEF TurnEnds, Typed, TypedTask, TypedLive, TypedJobs
<1>4. CASE Exits(c)
  <2> DEFINE d == [c EXCEPT !.alive = FALSE, !.turn = "none"]
  <2>1. d \in CliType
    BY <1>0 DEF CliType
  <2>2. TypedClis'
    BY <1>4, <2>1, WithTyped DEF Exits
  <2> QED
    BY <1>4, <2>2 DEF Exits, Typed, TypedTask, TypedLive, TypedJobs
<1> QED
  BY <1>1, <1>2, <1>3, <1>4

LEMMA DecidedTyped ==
    ASSUME Typed, NEW c \in clis
    PROVE  Decided(c) \in CliType /\ [Decided(c) EXCEPT !.turn = "running"] \in CliType
<1>1. c \in CliType
  BY DEF Typed, TypedClis
<1>2. Decided(c) \in CliType
  BY <1>1 DEF Decided, CliType
<1> QED
  BY <1>2 DEF CliType

LEMMA TypedTurn ==
    ASSUME Typed, NEW c \in clis, TurnCompleted(c) \/ TurnDecided(c) \/ PumpEnds(c)
    PROVE  Typed'
<1>0. c \in CliType /\ live \in LiveType
  BY DEF Typed, TypedClis, TypedLive
<1>1. CASE TurnCompleted(c)
  <2> DEFINE d == [c EXCEPT !.decides = TRUE, !.nudge = ~live.nudged, !.asked = live.asked,
                            !.from = live.generation]
             e == [c EXCEPT !.ended = "none"]
  <2>1. d \in CliType /\ e \in CliType
    BY <1>0 DEF CliType, LiveType
  <2>2. With(c, d) \/ With(c, e)
    BY <1>1 DEF TurnCompleted
  <2>3. TypedClis'
    BY <2>1, <2>2, WithTyped
  <2>4. TypedLive'
    BY <1>1 DEF TurnCompleted, Typed, TypedLive, LiveType
  <2> QED
    BY <1>1, <2>3, <2>4 DEF TurnCompleted, Typed, TypedTask, TypedJobs
<1>2. CASE TurnDecided(c)
  <2>1. With(c, Decided(c)) \/ With(c, [Decided(c) EXCEPT !.turn = "running"])
    BY <1>2 DEF TurnDecided
  <2>2. TypedClis'
    BY <2>1, WithTyped, DecidedTyped
  <2>3. \/ UNCHANGED live
        \/ live' = [live EXCEPT !.cutoff = "none"]
        \/ live' = [live EXCEPT !.cutoff = "none", !.stopping = TRUE]
        \/ live' = [live EXCEPT !.busy = TRUE, !.stallNudged = FALSE]
    BY <1>2 DEF TurnDecided
  <2>4. TypedLive'
    BY <1>0, <2>3 DEF TypedLive, LiveType, Ends
  <2> DEFINE h == [Job("handOff", c.from) EXCEPT !.end = live.cutoff]
             o == Job("handOver", c.from)
             f == Job("fail", 0)
  <2>5. h \in JobType /\ o \in JobType /\ f \in JobType
    BY <1>0 DEF CliType, LiveType, Job, JobType, Steps, Ends
  <2>6. \/ UNCHANGED jobs \/ jobs' = jobs \union {h} \/ jobs' = jobs \union {o}
        \/ jobs' = jobs \union {f}
    BY <1>2 DEF TurnDecided
  <2> HIDE DEF h, o, f
  <2>7. TypedJobs'
    BY <2>5, <2>6 DEF Typed, TypedJobs
  <2> QED
    BY <1>2, <2>2, <2>4, <2>7 DEF TurnDecided, Typed, TypedTask
<1>3. CASE PumpEnds(c)
  <2> DEFINE e == Job("exited", live.generation)
  <2>1. e \in JobType
    BY <1>0 DEF LiveType, Job, JobType, Steps, Ends
  <2>2. jobs' \subseteq jobs \union {e}
    BY <1>3 DEF PumpEnds
  <2> HIDE DEF e
  <2>3. TypedJobs'
    BY <2>1, <2>2 DEF Typed, TypedJobs
  <2>4. TypedLive'
    BY <1>3 DEF PumpEnds, Typed, TypedLive, LiveType
  <2> QED
    BY <1>3, <2>3, <2>4 DEF PumpEnds, Typed, TypedTask, TypedClis
<1> QED
  BY <1>1, <1>2, <1>3

LEMMA TypedHandOff ==
    ASSUME Typed, NEW j \in jobs,
           Exited(j) \/ HandOff(j) \/ EndAttempt(j) \/ Continue(j) \/ Routed(j)
    PROVE  Typed'
<1>0. j \in JobType /\ live \in LiveType
  BY DEF Typed, TypedJobs, TypedLive
<1>1. CASE Exited(j)
  <2> DEFINE n == [j EXCEPT !.at = "handOff",
                            !.end = IF live.cutoff = "none" THEN "error" ELSE live.cutoff]
  <2>1. n \in JobType
    BY <1>0 DEF JobType, LiveType, Steps, Ends
  <2>2. Replace(j, {}) \/ Replace(j, {n})
    BY <1>1 DEF Exited
  <2> HIDE DEF n
  <2>3. TypedJobs'
    BY <2>1, <2>2 DEF Typed, TypedJobs, Replace
  <2>4. TypedLive'
    BY <1>1 DEF Exited, Typed, TypedLive, LiveType, Ends
  <2> QED
    BY <1>1, <2>3, <2>4 DEF Exited, Typed, TypedTask, TypedClis
<1>2. CASE HandOff(j)
  <2> DEFINE n == [Job("fail", 0) EXCEPT !.lock = TRUE, !.watch = j.watch]
  <2>1. n \in JobType
    BY <1>0 DEF Job, JobType, Steps, Ends
  <2>2. \/ Replace(j, {}) /\ UNCHANGED live
        \/ Replace(j, {n}) /\ UNCHANGED live
        \/ Detach(j, "handOffClose")
    BY <1>2 DEF HandOff
  <2> HIDE DEF n
  <2>3. TypedLive' /\ TypedJobs'
    BY <2>1, <2>2, DetachTyped DEF Typed, TypedLive, TypedJobs, Replace, Steps
  <2> QED
    BY <1>2, <2>3 DEF HandOff, Typed, TypedTask, TypedClis
<1>3. CASE EndAttempt(j)
  <2>1. TypedTask'
    <3>1. task \in TaskType
      BY DEF Typed, TypedTask
    <3>2. CASE task.open /\ j.end = "error"
      <4> DEFINE errors == task.errors + 1
      <4>1. task' = [task EXCEPT !.open = FALSE, !.errors = errors] /\ UNCHANGED known
        BY <1>3, <3>2 DEF EndAttempt
      <4>2. errors \in Nat
        BY <3>1 DEF TaskType
      <4> HIDE DEF errors
      <4> QED
        BY <3>1, <4>1, <4>2 DEF Typed, TypedTask, TaskType
    <3>3. CASE ~(task.open /\ j.end = "error")
      <4>1. task' = [task EXCEPT !.open = FALSE, !.errors = @] /\ UNCHANGED known
        BY <1>3, <3>3 DEF EndAttempt
      <4> QED
        BY <3>1, <4>1 DEF Typed, TypedTask, TaskType
    <3> QED
      BY <3>2, <3>3
  <2>2. TypedLive'
    BY <1>3 DEF EndAttempt, Typed, TypedLive, LiveType
  <2>3. TypedJobs'
    BY <1>3, BecomeTyped DEF EndAttempt, Onwards, Typed, TypedJobs, Replace, Steps
  <2> QED
    BY <1>3, <2>1, <2>2, <2>3 DEF EndAttempt, Typed, TypedClis
<1>4. CASE Continue(j)
  <2> DEFINE n == [j EXCEPT !.at = "routed", !.lock = TRUE]
  <2>1. n \in JobType
    BY <1>0 DEF JobType, Steps
  <2>2. Replace(j, {}) \/ Replace(j, {n})
    BY <1>4 DEF Continue
  <2> HIDE DEF n
  <2>3. TypedJobs'
    BY <2>1, <2>2 DEF Typed, TypedJobs, Replace
  <2> QED
    BY <1>4, <2>3 DEF Continue, Typed, TypedTask, TypedLive, TypedClis
<1>5. CASE Routed(j)
  <2>1. TypedTask'
    BY <1>5 DEF Routed, Typed, TypedTask, TaskType
  <2>2. TypedLive'
    BY <1>5 DEF Routed, Typed, TypedLive, LiveType
  <2>3. TypedJobs'
    <3> DEFINE n == [j EXCEPT !.at = "launch"]
    <3>1. n \in JobType
      BY <1>0 DEF JobType, Steps
    <3>2. Replace(j, {n}) \/ Replace(j, {})
      BY <1>5 DEF Routed, Become
    <3> HIDE DEF n
    <3> QED
      BY <3>1, <3>2 DEF Typed, TypedJobs, Replace
  <2> QED
    BY <1>5, <2>1, <2>2, <2>3 DEF Routed, Typed, TypedClis
<1> QED
  BY <1>1, <1>2, <1>3, <1>4, <1>5

LEMMA TypedLaunch ==
    ASSUME Typed, NEW j \in jobs, Launch(j) \/ Install(j) \/ Mark(j) \/ SendFirst(j)
    PROVE  Typed'
<1>0. j \in JobType /\ live \in LiveType /\ started \in Nat
  BY DEF Typed, TypedJobs, TypedLive
<1>1. CASE Launch(j)
  <2> DEFINE id == started + 1
             n == [j EXCEPT !.at = "install", !.cli = id]
  <2>1. n \in JobType /\ Cli(started + 1) \in CliType
    <3>0. id \in Nat
      BY <1>0
    <3>1. n \in JobType
      <4> HIDE DEF id
      <4> QED
        BY <1>0, <3>0 DEF JobType, Steps
    <3>2. started + 1 \in Sessions
      BY <1>0 DEF Sessions
    <3> QED
      BY <3>1, <3>2, CliTyped
  <2>2. \/ Replace(j, {n}) /\ clis' = clis \union {Cli(started + 1)} /\ started' = started + 1
        \/ Replace(j, Failing(j)) /\ UNCHANGED <<clis, started>>
    BY <1>1 DEF Launch
  <2> HIDE DEF n
  <2>3. TypedJobs' /\ TypedClis' /\ started' \in Nat
    BY <1>0, <2>1, <2>2, FailingTyped DEF Typed, TypedJobs, TypedClis, Replace
  <2> QED
    BY <1>1, <2>3 DEF Launch, Typed, TypedTask, TypedLive
<1>2. CASE Install(j)
  <2> DEFINE full == live.full /\ ~j.new
  <2>0. full \in BOOLEAN /\ j.cli \in Nat /\ live.generation + 1 \in Nat
    BY <1>0 DEF LiveType, JobType
  <2>a. live' = [live EXCEPT !.cli = j.cli, !.busy = TRUE, !.nudged = FALSE, !.stopping = FALSE,
                             !.asked = FALSE, !.held = FALSE, !.generation = live.generation + 1,
                             !.stallNudged = FALSE, !.full = full]
    BY <1>2 DEF Install
  <2> HIDE DEF full
  <2>1. TypedLive'
    BY <1>0, <2>0, <2>a DEF TypedLive, LiveType
  <2>2. TypedJobs'
    BY <1>2, BecomeTyped DEF Install, Become, Typed, TypedJobs, Replace, Steps
  <2> QED
    BY <1>2, <2>1, <2>2 DEF Install, Typed, TypedTask, TypedClis
<1>3. CASE Mark(j)
  <2>1. TypedTask'
    BY <1>3 DEF Mark, Typed, TypedTask, TaskType
  <2>2. TypedJobs'
    BY <1>3, BecomeTyped DEF Mark, Become, Typed, TypedJobs, Replace, Steps
  <2> QED
    BY <1>3, <2>1, <2>2 DEF Mark, Typed, TypedLive, TypedClis
<1>4. CASE SendFirst(j)
  <2>1. \/ Replace(j, {}) /\ \E c \in clis : Send(c)
        \/ Replace(j, Failing(j)) /\ UNCHANGED clis
    BY <1>4 DEF SendFirst, CliOf
  <2>2. TypedJobs'
    BY <2>1, FailingTyped DEF Typed, TypedJobs, Replace
  <2>3. TypedClis'
    BY <2>1, SendTyped DEF Typed, TypedClis
  <2> QED
    BY <1>4, <2>2, <2>3 DEF SendFirst, Typed, TypedTask, TypedLive
<1> QED
  BY <1>1, <1>2, <1>3, <1>4

LEMMA TypedHandOver ==
    ASSUME Typed, NEW j \in jobs, HandOver(j) \/ HandedOver(j) \/ Fresh(j)
    PROVE  Typed'
<1>0. j \in JobType /\ live \in LiveType
  BY DEF Typed, TypedJobs, TypedLive
<1>1. CASE HandOver(j)
  <2> DEFINE n == [Job("fresh", 0) EXCEPT !.lock = TRUE, !.caller = j.caller, !.watch = j.watch]
  <2>1. n \in JobType
    BY <1>0 DEF Job, JobType, Steps, Ends
  <2>2. (\E c \in clis : Send(c)) \/ UNCHANGED clis
    BY <1>1 DEF HandOver, CliOf
  <2>3. TypedClis'
    BY <2>2, SendTyped DEF Typed, TypedClis
  <2>4. CASE live.generation # j.from
    <3>1. TypedLive'
      BY <1>1, <2>4 DEF HandOver, Typed, TypedLive, LiveType
    <3>2. Replace(j, {})
      BY <1>1, <2>4 DEF HandOver
    <3> QED
      BY <1>1, <2>3, <3>1, <3>2 DEF HandOver, Typed, TypedTask, TypedJobs, Replace
  <2>5. CASE live.generation = j.from /\ live.held
    <3>1. live' = [live EXCEPT !.held = FALSE] /\ Replace(j, {n})
      BY <1>1, <2>5 DEF HandOver
    <3> HIDE DEF n
    <3>2. TypedLive' /\ TypedJobs'
      BY <2>1, <3>1 DEF Typed, TypedLive, LiveType, TypedJobs, Replace
    <3> QED
      BY <1>1, <2>3, <3>2 DEF HandOver, Typed, TypedTask
  <2>6. CASE live.generation = j.from /\ ~live.held
    <3>1. (Replace(j, {}) /\ UNCHANGED live) \/ Detach(j, "overClose")
      BY <1>1, <2>6 DEF HandOver
    <3>2. TypedLive' /\ TypedJobs'
      BY <3>1, DetachTyped DEF Typed, TypedLive, TypedJobs, Replace, Steps
    <3> QED
      BY <1>1, <2>3, <3>2 DEF HandOver, Typed, TypedTask
  <2> QED
    BY <2>4, <2>5, <2>6
<1>2. CASE HandedOver(j)
  <2>1. TypedLive'
    BY <1>2 DEF HandedOver, Typed, TypedLive, LiveType
  <2>2. TypedJobs'
    BY <1>2, BecomeTyped DEF HandedOver, Onwards, Typed, TypedJobs, Replace, Steps
  <2> QED
    BY <1>2, <2>1, <2>2 DEF HandedOver, Typed, TypedTask, TypedClis
<1>3. CASE Fresh(j)
  <2>1. TypedLive'
    BY <1>3 DEF Fresh, Typed, TypedLive, LiveType
  <2>2. TypedJobs'
    BY <1>3, BecomeTyped DEF Fresh, Become, Typed, TypedJobs, Replace, Steps
  <2> QED
    BY <1>3, <2>1, <2>2 DEF Fresh, Typed, TypedTask, TypedClis
<1> QED
  BY <1>1, <1>2, <1>3

LEMMA RevivedTyped == Typed => Revived \in JobType
<1> SUFFICES ASSUME Typed PROVE Revived \in JobType
  OBVIOUS
<1> DEFINE h == [Job("handOver", live.generation) EXCEPT !.pending = TRUE, !.caller = "call"]
           l == [Job("launch", 0) EXCEPT !.new = FALSE, !.caller = "call"]
<1>1. h \in JobType /\ l \in JobType
  BY DEF Typed, TypedLive, LiveType, Job, JobType, Steps, Ends
<1> QED
  BY <1>1 DEF Revived

LEMMA TellTyped ==
    ASSUME Typed, NEW c \in clis, Tell(c)
    PROVE  task' \in TaskType /\ TypedClis' /\ TypedLive'
<1>0. live \in LiveType /\ task \in TaskType
  BY DEF Typed, TypedLive, TypedTask
<1> DEFINE nudged == IF c.alive /\ ~(live.busy /\ AtWork) THEN FALSE ELSE live.nudged
           stalled == live.stallNudged /\ live.busy
<1>a. nudged \in BOOLEAN /\ stalled \in BOOLEAN
  BY <1>0 DEF LiveType
<1>b. live' = [live EXCEPT !.busy = TRUE, !.stallNudged = stalled, !.nudged = nudged]
  BY DEF Tell
<1> HIDE DEF nudged, stalled
<1>c. TypedLive'
  BY <1>0, <1>a, <1>b DEF TypedLive, LiveType
<1>d. task' = task \/ task' = [task EXCEPT !.state = "Running"]
  BY DEF Tell
<1>1. task' \in TaskType /\ TypedLive'
  BY <1>0, <1>c, <1>d DEF TaskType
<1>2. TypedClis'
  BY SendTyped DEF Tell, Typed, TypedClis
<1> QED
  BY <1>1, <1>2

LEMMA TypedEnd ==
    ASSUME Typed, NEW j \in jobs,
           \/ MessageClosed(j) \/ PauseRecorded(j) \/ Restarted(j) \/ Fail(j) \/ Dispose(j)
           \/ EndRecorded(j) \/ Sweep(j) \/ EndCli(j)
    PROVE  Typed'
<1>0. j \in JobType /\ live \in LiveType
  BY DEF Typed, TypedJobs, TypedLive
<1>1. CASE MessageClosed(j)
  <2>1. CASE live.cli = 0
    BY <1>1, <2>1, RevivedTyped DEF MessageClosed, Typed, TypedTask, TypedLive, TypedClis, TypedJobs, Replace
  <2>2. CASE live.cli # 0
    <3>1. Replace(j, {}) /\ \E c \in clis : Tell(c)
      BY <1>1, <2>2 DEF MessageClosed
    <3> QED
      BY <1>1, <3>1, TellTyped DEF MessageClosed, Typed, TypedTask, TypedJobs, Replace
  <2> QED
    BY <2>1, <2>2
<1>2. CASE PauseRecorded(j)
  <2>1. TypedTask'
    BY <1>2 DEF PauseRecorded, Typed, TypedTask, TaskType
  <2> QED
    BY <1>2, <2>1 DEF PauseRecorded, Typed, TypedLive, TypedClis, TypedJobs, Replace
<1>3. CASE Restarted(j)
  <2> DEFINE n == [j EXCEPT !.at = "launch", !.cli = 0, !.new = FALSE]
  <2>1. n \in JobType
    BY <1>0 DEF JobType, Steps
  <2>2. Replace(j, {n})
    BY <1>3 DEF Restarted
  <2> HIDE DEF n
  <2> QED
    BY <1>3, <2>1, <2>2 DEF Restarted, Typed, TypedTask, TypedLive, TypedClis, TypedJobs, Replace
<1>4. CASE Fail(j) \/ Dispose(j)
  <2>1. Detach(j, "failClose") \/ Detach(j, "stopEnd") \/ Detach(j, "failEnd")
    BY <1>4 DEF Fail, Dispose
  <2>2. TypedLive' /\ TypedJobs'
    BY <2>1, DetachTyped DEF Steps
  <2> QED
    BY <1>4, <2>2 DEF Fail, Dispose, Typed, TypedTask, TypedClis
<1>5. CASE EndRecorded(j)
  <2>1. TypedTask'
    BY <1>5 DEF EndRecorded, Typed, TypedTask, TaskType, Final
  <2>2. Onwards(j, "stopSweep") \/ Onwards(j, "failSweep")
    BY <1>5 DEF EndRecorded
  <2>3. TypedJobs'
    BY <2>2, BecomeTyped DEF Onwards, Typed, TypedJobs, Replace, Steps
  <2> QED
    BY <1>5, <2>1, <2>3 DEF EndRecorded, Typed, TypedLive, TypedClis
<1>6. CASE Sweep(j)
  <2>1. \A c \in clis : [c EXCEPT !.alive = FALSE, !.turn = "none"] \in CliType
    BY DEF Typed, TypedClis, CliType
  <2> QED
    BY <1>6, <2>1 DEF Sweep, Typed, TypedTask, TypedLive, TypedClis, TypedJobs, Replace
<1>7. CASE EndCli(j)
  <2>1. PICK c \in clis : With(c, [c EXCEPT !.alive = FALSE, !.turn = "none"])
    BY <1>7 DEF EndCli, CliOf
  <2> DEFINE d == [c EXCEPT !.alive = FALSE, !.turn = "none"]
  <2>2. d \in CliType
    BY DEF Typed, TypedClis, CliType
  <2>3. TypedClis'
    BY <2>1, <2>2, WithTyped
  <2> QED
    BY <1>7, <2>3 DEF EndCli, Typed, TypedTask, TypedLive, TypedJobs
<1> QED
  BY <1>1, <1>2, <1>3, <1>4, <1>5, <1>6, <1>7

LEMMA DetachedTyped ==
    ASSUME live \in LiveType
    PROVE  /\ Detached \in LiveType
           /\ [Detached EXCEPT !.cutoff = "none"] \in LiveType
           /\ live.stalls = 0 => [Detached EXCEPT !.stalls = @ + 1] \in LiveType
<1>1. Detached \in LiveType /\ Detached.stalls = live.stalls
  BY DEF Detached, LiveType
<1>2. [Detached EXCEPT !.cutoff = "none"] \in LiveType
  BY <1>1 DEF LiveType, Ends
<1>3. ASSUME live.stalls = 0 PROVE [Detached EXCEPT !.stalls = @ + 1] \in LiveType
  <2>1. [Detached EXCEPT !.stalls = @ + 1] = [Detached EXCEPT !.stalls = 1]
    BY <1>1, <1>3
  <2> QED
    BY <1>1, <2>1 DEF LiveType
<1> QED
  BY <1>1, <1>2, <1>3

LEMMA TypedOutside ==
    ASSUME Typed, Nudge \/ TakeStalled \/ RetryWaiting \/ Message \/ Pause \/ Resume \/ Stop
    PROVE  Typed'
<1>0. live \in LiveType /\ task \in TaskType
  BY DEF Typed, TypedTask, TypedLive
<1>1. CASE Nudge
  BY <1>1 DEF Nudge, Typed, TypedTask, TypedLive, LiveType, TypedClis, TypedJobs
<1>2. CASE TakeStalled
  <2> DEFINE job == [Job("stall", live.generation) EXCEPT !.cli = live.cli, !.lock = TRUE, !.watch = TRUE]
             h == [job EXCEPT !.at = "stalledClose"]
             r == [job EXCEPT !.at = "replaceClose",
                              !.end = IF live.cutoff = "none" THEN "error" ELSE live.cutoff]
  <2>1. h \in JobType /\ r \in JobType
    BY <1>0 DEF Job, JobType, Steps, Ends, LiveType
  <2>2. \/ jobs' = jobs \union {h} /\ live' = [Detached EXCEPT !.stalls = @ + 1] /\ Verdict(TRUE) = "handOver"
        \/ jobs' = jobs \union {r} /\ live' = [Detached EXCEPT !.cutoff = "none"]
    BY <1>2 DEF TakeStalled
  <2> HIDE DEF h, r
  <2>3. TypedJobs'
    BY <2>1, <2>2 DEF Typed, TypedJobs
  <2>4. Verdict(TRUE) = "handOver" => live.stalls = 0
    BY DEF Verdict
  <2>5. TypedLive'
    BY <1>0, <2>2, <2>4, DetachedTyped DEF TypedLive
  <2> QED
    BY <1>2, <2>3, <2>5 DEF TakeStalled, Typed, TypedTask, TypedClis
<1>3. CASE RetryWaiting
  <2>1. Job("continue", 0) \in JobType
    BY DEF Job, JobType, Steps, Ends
  <2> QED
    BY <1>3, <2>1 DEF RetryWaiting, Typed, TypedTask, TypedLive, TypedClis, TypedJobs
<1>4. CASE Message
  <2> DEFINE m == [Job("messageClose", 0) EXCEPT !.cli = live.cli, !.caller = "call"]
  <2>1. m \in JobType /\ Revived \in JobType
    BY <1>0, RevivedTyped DEF Job, JobType, Steps, Ends, LiveType
  <2>2. \/ jobs' = jobs \union {Revived} /\ UNCHANGED <<task, live, clis>>
        \/ jobs' = jobs \union {m} /\ live' = Detached /\ UNCHANGED <<task, clis>>
        \/ UNCHANGED jobs /\ \E c \in clis : Tell(c)
    BY <1>4 DEF Message
  <2> HIDE DEF m
  <2>3. TypedJobs'
    BY <2>1, <2>2 DEF Typed, TypedJobs
  <2>4. TypedTask' /\ TypedLive' /\ TypedClis'
    <3>1. CASE \E c \in clis : Tell(c)
      BY <1>4, <3>1, TellTyped DEF Message, Typed, TypedTask
    <3>2. CASE (live' = live \/ live' = Detached) /\ UNCHANGED <<task, clis>>
      BY <1>0, <1>4, <3>2, DetachedTyped DEF Message, Typed, TypedTask, TypedLive, TypedClis
    <3> QED
      BY <2>2, <3>1, <3>2
  <2> QED
    BY <1>4, <2>3, <2>4 DEF Message, Typed
<1>5. CASE Pause
  <2>1. Job("pause", 0) \in JobType
    BY DEF Job, JobType, Steps, Ends
  <2>2. TypedClis'
    <3>1. CASE UNCHANGED clis
      BY <3>1 DEF Typed, TypedClis
    <3>2. ASSUME NEW c \in clis, With(c, [c EXCEPT !.turn = "interrupted"]) PROVE TypedClis'
      <4> DEFINE d == [c EXCEPT !.turn = "interrupted"]
      <4>1. d \in CliType
        BY DEF Typed, TypedClis, CliType
      <4> QED
        BY <3>2, <4>1, WithTyped
    <3> QED
      BY <1>5, <3>1, <3>2 DEF Pause, CliOf
  <2> QED
    BY <1>5, <2>1, <2>2 DEF Pause, Typed, TypedTask, TypedLive, TypedJobs
<1>6. CASE Resume
  <2> DEFINE h == [Job("handOff", live.generation) EXCEPT !.end = live.cutoff]
             f == [Job("fresh", 0) EXCEPT !.lock = TRUE, !.caller = "call"]
             r == [Job("restartClose", 0) EXCEPT !.cli = live.cli, !.lock = TRUE, !.caller = "call"]
             o == Job("continue", 0)
  <2>1. h \in JobType /\ f \in JobType /\ r \in JobType /\ o \in JobType
    BY <1>0 DEF Job, JobType, Steps, Ends, LiveType
  <2>2. \/ UNCHANGED jobs
        \/ jobs' = jobs \union {h} \/ jobs' = jobs \union {f} \/ jobs' = jobs \union {r}
        \/ jobs' = jobs \union {o}
    BY <1>6 DEF Resume
  <2> HIDE DEF h, f, r, o
  <2>3. TypedJobs'
    BY <2>1, <2>2 DEF Typed, TypedJobs
  <2>4. task' = task \/ task' = [task EXCEPT !.state = "Running"]
    BY <1>6 DEF Resume
  <2>5. \/ live' = live \/ live' = [live EXCEPT !.cutoff = "none"]
        \/ live' = [live EXCEPT !.held = FALSE] \/ live' = Detached
        \/ live' = [live EXCEPT !.busy = TRUE, !.nudged = FALSE, !.stallNudged = FALSE]
    BY <1>6 DEF Resume
  <2>6. TypedLive'
    <3>1. CASE live' = live \/ live' = Detached
      BY <1>0, <3>1, DetachedTyped DEF TypedLive
    <3>2. CASE \/ live' = [live EXCEPT !.cutoff = "none"] \/ live' = [live EXCEPT !.held = FALSE]
               \/ live' = [live EXCEPT !.busy = TRUE, !.nudged = FALSE, !.stallNudged = FALSE]
      BY <1>0, <3>2 DEF TypedLive, LiveType, Ends
    <3> QED
      BY <2>5, <3>1, <3>2
  <2>7. task' \in TaskType
    BY <1>0, <2>4 DEF TaskType
  <2>8. (\E c \in clis : Send(c)) \/ UNCHANGED clis
    BY <1>6 DEF Resume, CliOf
  <2>9. TypedClis'
    BY <2>8, SendTyped DEF Typed, TypedClis
  <2> QED
    BY <1>6, <2>3, <2>6, <2>7, <2>9 DEF Resume, Typed, TypedTask
<1>7. CASE Stop
  <2> DEFINE s == [Job("stopClose", 0) EXCEPT !.cli = live.cli]
  <2>1. s \in JobType
    BY <1>0 DEF Job, JobType, Steps, Ends, LiveType
  <2>2. jobs' = jobs \union {s} /\ live' = Detached
    BY <1>7 DEF Stop
  <2> HIDE DEF s
  <2>3. TypedJobs' /\ TypedLive'
    BY <1>0, <2>1, <2>2 DEF Typed, TypedJobs, TypedLive, LiveType, Detached
  <2> QED
    BY <1>7, <2>3 DEF Stop, Typed, TypedTask, TypedClis
<1> QED
  BY <1>1, <1>2, <1>3, <1>4, <1>5, <1>6, <1>7

LEMMA TypedStep == Typed /\ [Next]_vars => Typed'
<1> SUFFICES ASSUME Typed, [Next]_vars PROVE Typed'
  OBVIOUS
<1>1. ASSUME NEW j \in jobs, JobStep(j) PROVE Typed'
  BY <1>1, TypedHandOff, TypedLaunch, TypedHandOver, TypedEnd DEF JobStep
<1>2. CASE UNCHANGED vars
  BY <1>2 DEF vars, Typed, TypedTask, TypedLive, TypedClis, TypedJobs
<1> QED
  BY <1>1, <1>2, TypedCli, TypedTurn, TypedOutside DEF Next, Daemon

THEOREM WorkerTypes == Spec => []Typed
BY TypedInit, TypedStep, PTL DEF Spec

-----------------------------------------------------------------------------
(***************************************************************************)
(* The inductive invariant.  First what holds at any time: at most one job *)
(* closes a session to start another, and nobody else starts one beside    *)
(* it.                                                                     *)
(***************************************************************************)
Pending(j) == j.at = "handOver" /\ j.pending
Marks == {"mark", "send"}
Apart == Stopping \union {"pause", "fail", "failClose", "failEnd", "failSweep"}

(* A job that closes a session for the next, starts it, or holds the lock  *)
(* to.                                                                     *)
Starter(j) == \/ j.at \in Rerouting \union {"routed", "fresh", "messageClose", "launch", "install"}
              \/ j.at = "continue" /\ j.lock
              \/ Pending(j)

(* Nothing was said to the session, or everything it said was read. *)
Idle(c) == c.turn = "none" /\ c.ended = "none" /\ ~c.decides

OneLock == \A i, j \in jobs : i.lock /\ j.lock => i = j
Locked ==
    /\ \A j \in jobs : j.at \in Rerouting \union {"routed", "fresh"} => j.lock
    /\ \A j \in jobs : j.at = "messageClose" => ~j.lock

(* Without the reroute lock only the task's first start and a message's    *)
(* start a session, and no other job but a pause or the task's end runs    *)
(* meanwhile.                                                              *)
Unlocked(u) ==
    /\ live.cli = 0 /\ ~task.wait /\ \A c \in clis : ~c.decides
    /\ live.stopping \/ (task.state # "Running" /\ \A c \in clis : u.at = "install" /\ c.id = u.cli)
    /\ \A j \in jobs \ {u} : j.at \in Apart /\ ~j.lock
Alone == \A u \in jobs : Starter(u) /\ ~u.lock => Unlocked(u)

(* How sessions, generations and the jobs about them are numbered. *)
Generations ==
    /\ live.cli \in {0, live.generation}
    /\ \A j \in jobs : j.at = "install" => j.cli = live.generation + 1 /\ started = j.cli
    /\ (\A j \in jobs : j.at # "install") => started = live.generation
Decisions ==
    /\ \A j \in jobs : j.from <= live.generation
    /\ \A c \in clis : c.from <= live.generation
    /\ \A j \in jobs : j.at \in {"replaceClose", "stalledClose", "handOffClose", "overClose"} \/ Pending(j)
                           => j.from = live.generation
Numbers ==
    /\ \A c \in clis : c.id <= started
    /\ \A c, d \in clis : c.id = d.id => c = d
    /\ \A j \in jobs : j.at # "install" => j.cli <= live.generation
    /\ \A j \in jobs : j.at \in Rerouting \union {"messageClose"} => j.cli \in {0, live.generation}
Unread ==
    /\ \A j \in jobs : j.at = "install" => \A c \in clis : c.id = j.cli => Idle(c)
    /\ \A c \in clis : c.decides => c.ended # "none"

(* What is left of a task that is gone, of its errors and its attempts. *)
Gone == ~known => \A c \in clis : ~c.alive
Errors ==
    /\ task.errors < ErrorHandoffs
    /\ \A j \in jobs : j.at = "handOffClose" /\ j.end = "error" => task.errors + 1 < ErrorHandoffs
Bare ==
    /\ \A j \in jobs : j.at = "routed" => ~task.open
    /\ task.wait => ~task.open

Always ==
    /\ OneLock /\ Locked /\ Alone
    /\ Generations /\ Decisions /\ Numbers /\ Unread
    /\ Gone /\ Errors /\ Bare

(***************************************************************************)
(* Then what holds until the task's end is under way.  Once(k): a          *)
(* hand-over decided for the session that works, without a message.        *)
(***************************************************************************)
Steady == known /\ ~Ending
Once(k) == k.at = "handOver" /\ ~k.pending /\ k.from = live.generation
Routing == \E j \in jobs : j.at \in {"continue", "routed"} /\ j.lock
ClosedFor(c, j) == Starter(j) /\ j.cli = c.id /\ j.at \in Closing \union {"install"}

(* The jobs of an attempt under way. *)
Attempting(j) == \/ j.at \in {"launch", "install", "messageClose", "restartClose", "stalledClose",
                              "replaceClose", "fresh"}
                 \/ Pending(j)
                 \/ j.at = "overClose" /\ j.pending

Followed ==
    /\ \A c \in clis : c.id = live.cli \/ \E j \in jobs : ClosedFor(c, j)
    /\ (\E j \in jobs : Starter(j)) => live.cli = 0
Opened ==
    /\ task.state \notin Final
    /\ \A j \in jobs : Attempting(j) => task.open
    /\ ~task.open => live.cli = 0 /\ (task.wait \/ Routing)
Waiting ==
    /\ task.wait => task.state = "Paused"
    /\ task.wait \/ Routing => \A k \in jobs : k.at # "mark"
Turns == \A c \in clis : c.ended # "none" => c.turn = "none"
HandedOnce ==
    /\ \A k \in jobs : Once(k) => /\ \A c \in clis : Idle(c)
                                  /\ \A j \in jobs : j.at \in Marks => j.cli # live.generation
    /\ \A i, k \in jobs : Once(i) /\ Once(k) => i = k
    /\ (\E j \in jobs : j.at \in {"stalledClose", "overClose"}) =>
           live.stopping /\ (\A c \in clis : ~c.decides) /\ \A k \in jobs : ~Once(k)
Held ==
    live.held => /\ live.cli = 0 /\ \A k \in jobs : ~Once(k)
                 /\ \A c \in clis : \E j \in jobs : j.at = "install" /\ j.cli = c.id
FirstMessage ==
    /\ \A j \in jobs : j.at \in Marks => \A c \in clis : c.id = j.cli => Idle(c)
    /\ \A i, j \in jobs : i.at \in Marks /\ j.at \in Marks /\ i.cli = j.cli => i = j

Ongoing == Followed /\ Opened /\ Waiting /\ Turns /\ HandedOnce /\ Held /\ FirstMessage
Inductive == Always /\ (Steady => Ongoing)

-----------------------------------------------------------------------------
(* Where nothing but the lock, the job's place or its session matters. *)

LEMMA OneStarter ==
    ASSUME Always, NEW i \in jobs, NEW j \in jobs, Starter(i), Starter(j)
    PROVE  i = j
<1>1. CASE i.lock /\ j.lock
  BY <1>1 DEF Always, OneLock
<1>2. ASSUME NEW u \in jobs, NEW w \in jobs, Starter(u), Starter(w), ~u.lock, u # w PROVE FALSE
  <2>1. w.at \in Apart
    BY <1>2 DEF Always, Alone, Unlocked
  <2> QED
    BY <1>2, <2>1 DEF Apart, Stopping, Starter, Pending, Rerouting
<1> QED
  BY <1>1, <1>2

(* With the reroute lock free, only a job that is itself about to take it  *)
(* can be a starter, next to one that is not apart.                        *)
LEMMA FreeAlone ==
    ASSUME Always, RerouteFree, NEW j \in jobs, j.at \notin Apart
    PROVE  \A u \in jobs : Starter(u) => u = j
<1> SUFFICES ASSUME NEW u \in jobs, Starter(u), u # j PROVE FALSE
  OBVIOUS
<1>1. ~u.lock
  BY DEF RerouteFree
<1> QED
  BY <1>1 DEF Always, Alone, Unlocked

(* What a session becomes when nobody starts or closes one: it may end its *)
(* turn, have it read, exit or be interrupted, and it may be spoken to when*)
(* no hand-over is decided and no first message waits.                     *)
Spoken(c) ==
    /\ \A k \in jobs' : k.at = "install" => k.cli # c.id
    /\ Ongoing => /\ \A k \in jobs : ~Once(k)
                  /\ \A k \in jobs' : k.at \in Marks => k.cli # c.id
Quieter(c, d) ==
    /\ d.id = c.id /\ (d.alive => c.alive) /\ d.from <= live.generation
    /\ (Idle(c) => Idle(d)) \/ Spoken(c)
    /\ d.decides => d.ended # "none" /\ (c.decides \/ (~live.stopping /\ ~Idle(c)))
    /\ Ongoing => (d.ended # "none" => d.turn = "none")
QuieterClis ==
    /\ \A d \in clis' : \E c \in clis : Quieter(c, d)
    /\ \A d, e \in clis' : d.id = e.id => d = e

(* A job that joins the others: apart from them, or with no session about  *)
(* to start beside them.                                                   *)
Joins(J, n) ==
    /\ ~Starter(n) /\ n.at \notin Marks
    /\ n.from <= live.generation /\ n.cli <= live.generation
    /\ n.lock => \A k \in jobs \ J : ~k.lock
    /\ (n.at \in Apart /\ ~n.lock) \/ \A u \in jobs \ J : Starter(u) => u.lock

(* A step that starts and closes no session. *)
Aside(J, n) ==
    /\ J \subseteq jobs /\ \A j \in J : j.at # "install"
    /\ jobs' = jobs \ J \/ (jobs' = (jobs \ J) \union {n} /\ Joins(J, n))
    /\ (task'.open => task.open) /\ (task'.wait => task.wait) /\ task'.errors = task.errors
    /\ live'.generation = live.generation /\ live'.cli \in {0, live.cli}
    /\ live.stopping => live'.stopping
    /\ known' => known
    /\ started' = started
    /\ QuieterClis

LEMMA AsideAlways ==
    ASSUME Typed, Typed', Always, NEW J, NEW n, Aside(J, n),
           task'.state = task.state \/ task'.state # "Running" \/ \A u \in jobs : Starter(u) => u.lock,
           ~known' => \A d \in clis' : ~d.alive
    PROVE  Always'
<1>0. jobs \subseteq JobType /\ live \in LiveType /\ live' \in LiveType /\ clis \subseteq CliType
      /\ started \in Nat
  BY DEF Typed, TypedJobs, TypedLive, TypedClis
<1>1. \A k \in jobs' : k \in jobs \ J \/ (k = n /\ Joins(J, n))
  BY DEF Aside
<1>2. ASSUME NEW k \in jobs', Starter(k) PROVE k \in jobs \ J
  BY <1>1, <1>2 DEF Joins
<1>3. \A k \in jobs : k.at = "install" => k \in jobs'
  BY DEF Aside
<1>4. OneLock' /\ Locked'
  <2>1. OneLock'
    BY <1>1 DEF Always, OneLock, Joins
  <2>2. Locked'
    BY <1>2 DEF Always, Locked, Starter
  <2> QED
    BY <2>1, <2>2
<1>5. Alone'
  <2> SUFFICES ASSUME NEW u \in jobs', Starter(u), ~u.lock PROVE Unlocked(u)'
    BY DEF Alone, Starter, Pending, Rerouting
  <2>1. u \in jobs \ J /\ Unlocked(u)
    BY <1>2 DEF Always, Alone
  <2>2. live'.cli = 0 /\ ~task'.wait
    BY <2>1 DEF Unlocked, Aside
  <2>3. \A d \in clis' : ~d.decides
    <3> SUFFICES ASSUME NEW d \in clis', d.decides PROVE FALSE
      OBVIOUS
    <3>1. PICK c \in clis : Quieter(c, d)
      BY DEF Aside, QuieterClis
    <3>2. ~live.stopping /\ ~Idle(c)
      BY <2>1, <3>1 DEF Quieter, Unlocked
    <3> QED
      BY <2>1, <3>2 DEF Unlocked, Always, Unread
  <2>4. live'.stopping \/ (task'.state # "Running" /\ \A d \in clis' : u.at = "install" /\ d.id = u.cli)
    <3>1. CASE live.stopping
      BY <3>1 DEF Aside
    <3>2. CASE task.state # "Running" /\ \A d \in clis : u.at = "install" /\ d.id = u.cli
      <4>1. \A d \in clis' : \E c \in clis : d.id = c.id
        BY DEF Aside, QuieterClis, Quieter
      <4> QED
        BY <2>1, <3>2, <4>1
    <3> QED
      BY <2>1, <3>1, <3>2 DEF Unlocked
  <2>5. \A k \in jobs' \ {u} : k.at \in Apart /\ ~k.lock
    <3> SUFFICES ASSUME NEW k \in jobs' \ {u} PROVE k.at \in Apart /\ ~k.lock
      OBVIOUS
    <3>1. CASE k \in jobs
      BY <2>1, <3>1 DEF Unlocked
    <3>2. CASE k \notin jobs
      BY <1>1, <2>1, <3>2 DEF Joins
    <3> QED
      BY <3>1, <3>2
  <2> QED
    BY <2>2, <2>3, <2>4, <2>5 DEF Unlocked
<1>6. Generations'
  <2>1. live'.cli \in {0, live'.generation}
    BY DEF Always, Generations, Aside
  <2>2. \A k \in jobs' : k.at = "install" => k.cli = live'.generation + 1 /\ started' = k.cli
    BY <1>2 DEF Always, Generations, Aside, Starter
  <2>3. (\A k \in jobs' : k.at # "install") => started' = live'.generation
    BY <1>3 DEF Always, Generations, Aside, Starter
  <2> QED
    BY <2>1, <2>2, <2>3 DEF Generations
<1>7. Decisions'
  <2>1. \A d \in clis' : d.from <= live'.generation
    BY DEF Aside, QuieterClis, Quieter
  <2>2. \A k \in jobs' : k.from <= live'.generation
    BY <1>1 DEF Aside, Joins, Always, Decisions
  <2>3. \A k \in jobs' : k.at \in {"replaceClose", "stalledClose", "handOffClose", "overClose"} \/ Pending(k)
                             => k.from = live'.generation
    BY <1>2 DEF Aside, Always, Decisions, Starter, Rerouting
  <2> QED
    BY <2>1, <2>2, <2>3 DEF Decisions, Pending
<1>8. Numbers'
  <2>1. \A d \in clis' : d.id <= started'
    BY DEF Aside, QuieterClis, Quieter, Always, Numbers
  <2>2. \A d, e \in clis' : d.id = e.id => d = e
    BY DEF Aside, QuieterClis
  <2>3. \A k \in jobs' : k.at # "install" => k.cli <= live'.generation
    BY <1>1 DEF Aside, Joins, Always, Numbers
  <2>4. \A k \in jobs' : k.at \in Rerouting \union {"messageClose"} => k.cli \in {0, live'.generation}
    BY <1>2 DEF Aside, Always, Numbers, Starter
  <2> QED
    BY <2>1, <2>2, <2>3, <2>4 DEF Numbers
<1>9. Unread'
  <2>1. \A d \in clis' : d.decides => d.ended # "none"
    BY DEF Aside, QuieterClis, Quieter
  <2>2. ASSUME NEW k \in jobs', k.at = "install", NEW d \in clis', d.id = k.cli PROVE Idle(d)
    <3>1. PICK c \in clis : Quieter(c, d)
      BY DEF Aside, QuieterClis
    <3>2. k \in jobs
      BY <1>2, <2>2 DEF Starter
    <3> QED
      BY <2>2, <3>1, <3>2 DEF Quieter, Spoken, Always, Unread
  <2> QED
    BY <2>1, <2>2 DEF Unread, Idle
<1>10. Gone'
  BY DEF Gone
<1>11. Errors' /\ Bare'
  <2>1. Errors'
    BY <1>2 DEF Aside, Always, Errors, Starter, Rerouting
  <2>2. Bare'
    BY <1>2 DEF Aside, Always, Bare, Starter
  <2> QED
    BY <2>1, <2>2
<1> QED
  BY <1>4, <1>5, <1>6, <1>7, <1>8, <1>9, <1>10, <1>11 DEF Always

(* A hand-over is decided once for a session that has nothing to do.       *)
Asks(n) ==
    Once(n) =>
        /\ \A d \in clis' : Idle(d)
        /\ \A k \in jobs : ~Once(k) /\ k.at \notin {"stalledClose", "overClose"}
        /\ \A k \in jobs : k.at \in Marks => k.cli # live.generation
        /\ ~live.held

LEMMA AsideSteady ==
    ASSUME Typed, Typed', Always, Ongoing, NEW J, NEW n, Aside(J, n),
           task'.open = task.open, task'.wait = task.wait,
           live'.cli = 0 => \A d \in clis' : d.id # live.cli,
           live'.held = live.held, jobs' # jobs \ J => Asks(n),
           \A j \in J : /\ \A c \in clis : ~ClosedFor(c, j)
                        /\ j.at \in {"continue", "routed"} /\ j.lock => task.open,
           task'.state \notin Final, task'.wait => task'.state = "Paused"
    PROVE  Ongoing'
<1>0. jobs \subseteq JobType /\ live \in LiveType /\ live' \in LiveType /\ clis \subseteq CliType
      /\ started \in Nat
  BY DEF Typed, TypedJobs, TypedLive, TypedClis
<1>1. \A k \in jobs' : k \in jobs \ J \/ (k = n /\ Joins(J, n) /\ Asks(n))
  BY DEF Aside
<1>2. ASSUME NEW k \in jobs', Starter(k) \/ k.at \in Marks PROVE k \in jobs
  BY <1>1, <1>2 DEF Joins
<1>3. \A k \in jobs : (\E c \in clis : ClosedFor(c, k)) \/ k.at = "install" => k \in jobs'
  BY DEF Aside
<1>4. \A d \in clis' : \E c \in clis : Quieter(c, d)
  BY DEF Aside, QuieterClis
<1>5. live'.generation = live.generation /\ live'.held = live.held
      /\ (live'.cli = live.cli \/ (live'.cli = 0 /\ \A d \in clis' : d.id # live.cli))
      /\ task'.open = task.open /\ task'.wait = task.wait /\ (live.stopping => live'.stopping)
  BY DEF Aside
<1>6. Followed'
  <2>1. ASSUME NEW d \in clis', d.id # live'.cli PROVE \E k \in jobs' : ClosedFor(d, k)'
    <3>1. PICK c \in clis : Quieter(c, d)
      BY <1>4
    <3>2. c.id # live.cli
      BY <1>5, <2>1, <3>1 DEF Quieter
    <3>3. PICK k \in jobs : ClosedFor(c, k)
      BY <3>2 DEF Ongoing, Followed
    <3> QED
      BY <1>3, <3>1, <3>3 DEF ClosedFor, Quieter, Starter, Pending
  <2>2. (\E k \in jobs' : Starter(k)) => live'.cli = 0
    BY <1>2, <1>5 DEF Ongoing, Followed
  <2> QED
    BY <2>1, <2>2 DEF Followed, Starter, Pending, Rerouting
<1>7. (Routing' => Routing) /\ (~task.open /\ Routing => Routing')
  <2>1. Routing' => Routing
    BY <1>2 DEF Routing, Starter
  <2>2. ASSUME ~task.open, NEW k \in jobs, k.at \in {"continue", "routed"}, k.lock PROVE k \in jobs'
    BY <2>2 DEF Aside
  <2> QED
    BY <2>1, <2>2 DEF Routing
<1>8. Opened'
  <2>1. \A k \in jobs' : Attempting(k) => task'.open
    BY <1>2, <1>5 DEF Ongoing, Opened, Attempting, Starter, Rerouting
  <2>2. ~task'.open => live'.cli = 0 /\ (task'.wait \/ Routing')
    BY <1>5, <1>7 DEF Ongoing, Opened
  <2> QED
    BY <2>1, <2>2 DEF Opened, Pending
<1>9. Waiting'
  BY <1>2, <1>5, <1>7 DEF Ongoing, Waiting, Marks
<1>10. Turns'
  BY <1>4 DEF Quieter, Turns
<1>11. \A k \in jobs' : Once(k)' => Once(k) /\ (k \in jobs \/ (k = n /\ Asks(n)))
  BY <1>1, <1>5 DEF Once
<1>12. HandedOnce'
  <2>1. ASSUME NEW k \in jobs', Once(k)' PROVE /\ \A d \in clis' : Idle(d)
                                              /\ \A j \in jobs' : j.at \in Marks => j.cli # live'.generation
    <3>1. CASE k \in jobs
      BY <1>2, <1>4, <1>5, <1>11, <2>1, <3>1 DEF Quieter, Spoken, Ongoing, HandedOnce
    <3>2. CASE Asks(n) /\ k = n
      BY <1>2, <1>5, <1>11, <2>1, <3>2 DEF Asks
    <3> QED
      BY <1>11, <2>1, <3>1, <3>2
  <2>2. \A i, k \in jobs' : Once(i)' /\ Once(k)' => i = k
    BY <1>11 DEF Ongoing, HandedOnce, Asks
  <2>3. ASSUME NEW j \in jobs', j.at \in {"stalledClose", "overClose"}
        PROVE  live'.stopping /\ (\A d \in clis' : ~d.decides) /\ \A k \in jobs' : ~Once(k)'
    <3>1. j \in jobs /\ live.stopping /\ (\A c \in clis : ~c.decides) /\ \A k \in jobs : ~Once(k)
      BY <1>2, <2>3 DEF Starter, Rerouting, Ongoing, HandedOnce
    <3> QED
      BY <1>4, <1>5, <1>11, <2>3, <3>1 DEF Quieter, Asks
  <2> QED
    BY <2>1, <2>2, <2>3 DEF HandedOnce, Once, Idle
<1>14. Held'
  <2> SUFFICES ASSUME live'.held
               PROVE  /\ live'.cli = 0 /\ \A k \in jobs' : ~Once(k)'
                      /\ \A d \in clis' : \E j \in jobs' : j.at = "install" /\ j.cli = d.id
    BY DEF Held, Once
  <2>1. live.held /\ live'.cli = 0
    BY <1>5 DEF Ongoing, Held
  <2>2. \A k \in jobs' : ~Once(k)'
    BY <1>11, <2>1 DEF Ongoing, Held, Asks
  <2>3. \A d \in clis' : \E j \in jobs' : j.at = "install" /\ j.cli = d.id
    BY <1>3, <1>4, <2>1 DEF Ongoing, Held, Quieter, Starter
  <2> QED
    BY <2>1, <2>2, <2>3
<1>13. FirstMessage'
  <2>1. ASSUME NEW j \in jobs', j.at \in Marks, NEW d \in clis', d.id = j.cli PROVE Idle(d)
    <3>1. PICK c \in clis : Quieter(c, d)
      BY <1>4
    <3> QED
      BY <1>2, <2>1, <3>1 DEF Quieter, Spoken, Ongoing, FirstMessage
  <2>2. \A i, j \in jobs' : i.at \in Marks /\ j.at \in Marks /\ i.cli = j.cli => i = j
    BY <1>2 DEF Ongoing, FirstMessage
  <2> QED
    BY <2>1, <2>2 DEF FirstMessage, Idle
<1> QED
  BY <1>6, <1>8, <1>9, <1>10, <1>12, <1>13, <1>14 DEF Ongoing

(* A step aside that loses nothing the task still needs. *)
Harmless(J, n) ==
    /\ Aside(J, n)
    /\ task'.open = task.open /\ task'.wait = task.wait
    /\ known' = known /\ live'.held = live.held
    /\ live'.cli = 0 => \A d \in clis' : d.id # live.cli
    /\ Ongoing /\ jobs' # jobs \ J => Asks(n)
    /\ Ongoing => \A j \in J : /\ \A c \in clis : ~ClosedFor(c, j)
                               /\ j.at \in {"continue", "routed"} /\ j.lock => task.open
    /\ \/ task'.state = task.state \/ task'.state = "Paused"
       \/ task'.state = "Reported" /\ task.state # "Paused"
       \/ task'.state = "Running" /\ ~task.wait /\ \A u \in jobs : Starter(u) => u.lock

LEMMA HarmlessStep ==
    ASSUME Typed, Typed', Inductive, Steady' => Steady, NEW J, NEW n, Harmless(J, n)
    PROVE  Inductive'
<1>1. task'.state = task.state \/ task'.state # "Running" \/ \A u \in jobs : Starter(u) => u.lock
  BY DEF Harmless
<1>2. ~known' => \A d \in clis' : ~d.alive
  BY DEF Harmless, Aside, QuieterClis, Quieter, Inductive, Always, Gone
<1>3. Always'
  BY <1>1, <1>2, AsideAlways DEF Harmless, Inductive
<1>4. ASSUME Steady' PROVE Ongoing'
  <2>1. Ongoing
    BY <1>4 DEF Inductive
  <2>2. task'.state \notin Final /\ (task'.wait => task'.state = "Paused")
    BY <2>1 DEF Harmless, Aside, Ongoing, Opened, Waiting, Final
  <2> QED
    BY <2>1, <2>2, AsideSteady DEF Harmless, Inductive
<1> QED
  BY <1>3, <1>4 DEF Inductive

LEMMA QuietSame ==
    ASSUME Typed, Always, clis' = clis
    PROVE  QuieterClis
<1>1. \A c \in clis : Quieter(c, c)
  BY DEF Quieter, Always, Decisions, Unread, Ongoing, Turns
<1> QED
  BY <1>1 DEF QuieterClis, Always, Numbers

LEMMA QuietWith ==
    ASSUME Typed, Always, NEW c \in clis, NEW d, With(c, d), Quieter(c, d)
    PROVE  QuieterClis
<1>1. \A e \in clis : Quieter(e, e)
  BY DEF Quieter, Always, Decisions, Unread, Ongoing, Turns
<1>2. clis' = (clis \ {c}) \union {d} /\ d.id = c.id
  BY DEF With, Quieter
<1> QED
  BY <1>1, <1>2 DEF QuieterClis, Always, Numbers

(* A job step leaves the other jobs alone. *)
LEMMA OthersStay ==
    ASSUME NEW j \in jobs, JobStep(j)
    PROVE  jobs \ {j} \subseteq jobs'
<1> USE DEF Replace, Become, Onwards, Detach
<1>1. CASE Exited(j) \/ HandOff(j) \/ EndAttempt(j) \/ Continue(j) \/ Routed(j)
  BY <1>1 DEF Exited, HandOff, EndAttempt, Continue, Routed
<1>2. CASE Launch(j) \/ Install(j) \/ Mark(j) \/ SendFirst(j)
  BY <1>2 DEF Launch, Install, Mark, SendFirst
<1>3. CASE HandOver(j) \/ HandedOver(j) \/ Fresh(j) \/ MessageClosed(j) \/ PauseRecorded(j)
  BY <1>3 DEF HandOver, HandedOver, Fresh, MessageClosed, PauseRecorded
<1>4. CASE Restarted(j) \/ Fail(j) \/ Dispose(j) \/ EndRecorded(j) \/ Sweep(j) \/ EndCli(j)
  BY <1>4 DEF Restarted, Fail, Dispose, EndRecorded, Sweep, EndCli
<1> QED
  BY <1>1, <1>2, <1>3, <1>4 DEF JobStep

(* A stop or a failure under way stays so until the task is gone. *)
EndingAt == Stopping \union {"failClose", "failEnd", "failSweep"}

LEMMA EndingStep ==
    ASSUME Typed, NEW j \in jobs, j.at \in EndingAt, JobStep(j)
    PROVE  ~known' \/ \E k \in jobs' : k.at \in EndingAt
<1>0. j \in JobType
  BY DEF Typed, TypedJobs
<1>1. CASE EndCli(j)
  BY <1>1 DEF EndCli
<1>2. CASE Sweep(j)
  BY <1>2 DEF Sweep
<1>3. CASE EndRecorded(j)
  <2> DEFINE n == [j EXCEPT !.at = IF j.at = "stopEnd" THEN "stopSweep" ELSE "failSweep",
                            !.from = 0, !.cli = 0, !.end = "none", !.pending = FALSE]
  <2>1. n.at \in EndingAt
    BY <1>0 DEF JobType, EndingAt, Stopping
  <2>2. n \in jobs'
    BY <1>3 DEF EndRecorded, Onwards, Replace
  <2> QED
    BY <2>1, <2>2
<1>4. CASE Dispose(j)
  <2>1. PICK at \in {"stopEnd", "failEnd"} : Detach(j, at)
    BY <1>4 DEF Dispose
  <2> DEFINE n == [j EXCEPT !.at = at, !.cli = live.cli, !.lock = @ \/ at \in Rerouting]
  <2>2. n.at \in EndingAt
    BY <1>0 DEF JobType, EndingAt, Stopping
  <2>3. n \in jobs'
    BY <2>1 DEF Detach, Replace
  <2> QED
    BY <2>2, <2>3
<1>5. ASSUME ~EndCli(j), ~Sweep(j), ~EndRecorded(j), ~Dispose(j) PROVE FALSE
  <2>1. ~(Exited(j) \/ HandOff(j) \/ EndAttempt(j) \/ Continue(j) \/ Routed(j) \/ Launch(j) \/ Install(j)
          \/ Mark(j) \/ SendFirst(j))
    BY DEF Exited, HandOff, EndAttempt, Continue, Routed, Launch, Install, Mark, SendFirst, AtEnd,
           EndingAt, Stopping
  <2>2. ~(HandOver(j) \/ HandedOver(j) \/ Fresh(j) \/ MessageClosed(j) \/ PauseRecorded(j)
          \/ Restarted(j) \/ Fail(j))
    BY DEF HandOver, HandedOver, Fresh, MessageClosed, PauseRecorded, Restarted, Fail, AtEnd, EndingAt,
           Stopping
  <2> QED
    BY <1>5, <2>1, <2>2 DEF JobStep
<1> QED
  BY <1>1, <1>2, <1>3, <1>4, <1>5

LEMMA SteadyBefore ==
    ASSUME Typed, [Next]_vars, Steady'
    PROVE  Steady
<1> SUFFICES ASSUME ~Steady PROVE FALSE
  OBVIOUS
<1>1. known' => known
  <2>1. ASSUME NEW j \in jobs, JobStep(j) PROVE known' => known
    <3>1. CASE Exited(j) \/ HandOff(j) \/ EndAttempt(j) \/ Continue(j) \/ Routed(j) \/ Launch(j) \/ Install(j)
               \/ Mark(j) \/ SendFirst(j) \/ HandOver(j)
      BY <3>1 DEF Exited, HandOff, EndAttempt, Continue, Routed, Launch, Install, Mark, SendFirst, HandOver
    <3>2. CASE HandedOver(j) \/ Fresh(j) \/ MessageClosed(j) \/ PauseRecorded(j) \/ Restarted(j) \/ Fail(j)
               \/ Dispose(j) \/ EndRecorded(j) \/ Sweep(j) \/ EndCli(j)
      BY <3>2 DEF HandedOver, Fresh, MessageClosed, PauseRecorded, Restarted, Fail, Dispose, EndRecorded,
                  Sweep, EndCli
    <3> QED
      BY <2>1, <3>1, <3>2 DEF JobStep
  <2>2. ASSUME NEW c \in clis,
               \/ TurnCompleted(c) \/ TurnDecided(c) \/ PumpEnds(c) \/ Speaks(c) \/ ContextFull(c)
               \/ Report(c) \/ TurnEnds(c) \/ Exits(c) \/ \E end \in {"limit", "error"} : CutOff(c, end)
        PROVE  known' => known
    BY <2>2 DEF TurnCompleted, TurnDecided, PumpEnds, Speaks, ContextFull, Report, TurnEnds, Exits, CutOff
  <2>3. CASE Nudge \/ TakeStalled \/ RetryWaiting \/ Message \/ Pause \/ Resume \/ Stop \/ UNCHANGED vars
    BY <2>3 DEF Nudge, TakeStalled, RetryWaiting, Message, Pause, Resume, Stop, vars
  <2> QED
    BY <2>1, <2>2, <2>3 DEF Next, Daemon
<1>2. PICK e \in jobs : e.at \in EndingAt
  BY <1>1 DEF Steady, Ending, EndingAt
<1>3. \A k \in jobs' : k.at \notin EndingAt
  BY DEF Steady, Ending, EndingAt
<1>4. ASSUME NEW j \in jobs, JobStep(j) PROVE FALSE
  <2>1. CASE j = e
    BY <1>1, <1>2, <1>3, <1>4, <2>1, EndingStep DEF Steady
  <2>2. CASE j # e
    BY <1>2, <1>3, <1>4, <2>2, OthersStay
  <2> QED
    BY <2>1, <2>2
<1>5. ASSUME NEW c \in clis,
             \/ TurnCompleted(c) \/ TurnDecided(c) \/ PumpEnds(c) \/ Speaks(c) \/ ContextFull(c)
             \/ Report(c) \/ TurnEnds(c) \/ Exits(c) \/ \E end \in {"limit", "error"} : CutOff(c, end)
      PROVE  e \in jobs'
  BY <1>5 DEF TurnCompleted, TurnDecided, PumpEnds, Speaks, ContextFull, Report, TurnEnds, Exits, CutOff
<1>6. CASE Nudge \/ TakeStalled \/ RetryWaiting \/ Message \/ Pause \/ Resume \/ Stop \/ UNCHANGED vars
  <2>1. e \in jobs'
    BY <1>6 DEF Nudge, TakeStalled, RetryWaiting, Message, Pause, Resume, Stop, vars
  <2> QED
    BY <1>2, <1>3, <2>1
<1> QED
  BY <1>2, <1>3, <1>4, <1>5, <1>6 DEF Next, Daemon

LEMMA InductiveInit == Init => Inductive
<1> SUFFICES ASSUME Init PROVE Inductive
  OBVIOUS
<1>1. jobs = {Job("launch", 0)} /\ clis = {} /\ started = 0
      /\ task.state = "Starting" /\ task.open /\ task.errors = 0 /\ ~task.wait
      /\ live.cli = 0 /\ live.generation = 0 /\ ~live.held /\ known
  BY DEF Init
<1> DEFINE n == Job("launch", 0)
<1>2. n.at = "launch" /\ n.from = 0 /\ n.cli = 0 /\ ~n.lock /\ ~n.pending
  BY DEF Job
<1>3. jobs = {n}
  BY <1>1
<1> HIDE DEF n
<1> USE DEF Rerouting, Pending, Starter
<1>4. OneLock /\ Locked /\ Alone
  BY <1>1, <1>2, <1>3 DEF OneLock, Locked, Alone, Unlocked
<1>5. Generations /\ Decisions /\ Numbers /\ Unread
  BY <1>1, <1>2, <1>3 DEF Generations, Decisions, Numbers, Unread
<1>6. Gone /\ Errors /\ Bare
  BY <1>1, <1>2, <1>3, WorkerAssumption DEF Gone, Errors, Bare
<1>7. Followed /\ Opened /\ Waiting /\ Turns
  BY <1>1, <1>2, <1>3 DEF Followed, Opened, Waiting, Turns, Routing, Final
<1>8. HandedOnce /\ Held /\ FirstMessage
  BY <1>1, <1>2, <1>3 DEF HandedOnce, Held, FirstMessage, Once, Marks
<1> QED
  BY <1>4, <1>5, <1>6, <1>7, <1>8 DEF Inductive, Always, Ongoing

-----------------------------------------------------------------------------
(* The CLI's steps, and those of its pump. *)

LEMMA InductiveCli ==
    ASSUME Typed, Typed', Inductive, Steady' => Steady, NEW c \in clis,
           \/ Speaks(c) \/ ContextFull(c) \/ Report(c) \/ TurnEnds(c) \/ Exits(c)
           \/ \E end \in {"limit", "error"} : CutOff(c, end)
    PROVE  Inductive'
<1>0. c \in CliType /\ live \in LiveType /\ task \in TaskType
  BY DEF Typed, TypedClis, TypedLive, TypedTask
<1>a. \A d \in clis : d.id # 0
  BY DEF Typed, TypedClis, CliType, Sessions
<1>b. c.from <= live.generation /\ (c.decides => c.ended # "none")
  BY DEF Inductive, Always, Decisions, Unread
<1>1. CASE Speaks(c) \/ ContextFull(c) \/ \E end \in {"limit", "error"} : CutOff(c, end)
  <2>1. UNCHANGED <<task, known, clis, started, jobs>>
    BY <1>1 DEF Speaks, ContextFull, CutOff
  <2>2. /\ live'.cli = live.cli /\ live'.generation = live.generation
        /\ live'.stopping = live.stopping /\ live'.held = live.held
    BY <1>0, <1>1 DEF Speaks, ContextFull, CutOff, LiveType
  <2>3. Harmless({}, 0)
    BY <1>a, <2>1, <2>2, QuietSame DEF Harmless, Aside, Inductive
  <2> QED
    BY <2>3, HarmlessStep
<1>2. CASE Report(c)
  <2>1. UNCHANGED <<known, clis, started, jobs>>
    BY <1>2 DEF Report
  <2>2. /\ live'.cli = live.cli /\ live'.generation = live.generation
        /\ live'.stopping = live.stopping /\ live'.held = live.held
    BY <1>0, <1>2 DEF Report, LiveType
  <2>3. /\ task.state # "Paused" /\ task'.state = "Reported"
        /\ task'.open = task.open /\ task'.wait = task.wait /\ task'.errors = task.errors
    BY <1>0, <1>2 DEF Report, TaskType
  <2>4. Harmless({}, 0)
    BY <1>a, <2>1, <2>2, <2>3, QuietSame DEF Harmless, Aside, Inductive
  <2> QED
    BY <2>4, HarmlessStep
<1>3. CASE TurnEnds(c)
  <2> DEFINE d == [c EXCEPT !.turn = "none",
                            !.ended = IF c.turn = "running" THEN "completed" ELSE "interrupted"]
  <2>1. UNCHANGED <<task, live, known, started, jobs>> /\ With(c, d) /\ c.turn # "none"
    BY <1>3 DEF TurnEnds
  <2>2. d.id = c.id /\ d.alive = c.alive /\ d.from = c.from /\ d.decides = c.decides
        /\ d.turn = "none" /\ d.ended # "none"
    BY <1>0 DEF CliType
  <2> HIDE DEF d
  <2>3. Quieter(c, d)
    BY <1>b, <2>1, <2>2 DEF Quieter, Idle, Ongoing, Turns
  <2>4. QuieterClis
    BY <2>1, <2>3, QuietWith DEF Inductive
  <2>5. \A e \in clis' : e.id # 0
    BY <1>a, <2>4 DEF QuieterClis, Quieter
  <2>6. Harmless({}, 0)
    BY <2>1, <2>4, <2>5 DEF Harmless, Aside
  <2> QED
    BY <2>6, HarmlessStep
<1>4. CASE Exits(c)
  <2> DEFINE d == [c EXCEPT !.alive = FALSE, !.turn = "none"]
  <2>1. UNCHANGED <<task, live, known, started, jobs>> /\ With(c, d)
    BY <1>4 DEF Exits
  <2>2. d.id = c.id /\ ~d.alive /\ d.from = c.from /\ d.decides = c.decides
        /\ d.turn = "none" /\ d.ended = c.ended
    BY <1>0 DEF CliType
  <2> HIDE DEF d
  <2>3. Quieter(c, d)
    BY <1>b, <2>2 DEF Quieter, Idle, Ongoing, Turns
  <2>4. QuieterClis
    BY <2>1, <2>3, QuietWith DEF Inductive
  <2>5. \A e \in clis' : e.id # 0
    BY <1>a, <2>4 DEF QuieterClis, Quieter
  <2>6. Harmless({}, 0)
    BY <2>1, <2>4, <2>5 DEF Harmless, Aside
  <2> QED
    BY <2>6, HarmlessStep
<1> QED
  BY <1>1, <1>2, <1>3, <1>4

LEMMA InductiveRead ==
    ASSUME Typed, Typed', Inductive, Steady' => Steady, NEW c \in clis,
           TurnCompleted(c) \/ PumpEnds(c)
    PROVE  Inductive'
<1>0. c \in CliType /\ live \in LiveType
  BY DEF Typed, TypedClis, TypedLive
<1>a. \A d \in clis : d.id # 0
  BY DEF Typed, TypedClis, CliType, Sessions
<1>b. c.from <= live.generation /\ (c.decides => c.ended # "none")
  BY DEF Inductive, Always, Decisions, Unread
<1>1. CASE TurnCompleted(c)
  <2> DEFINE d == IF live.stopping THEN [c EXCEPT !.ended = "none"]
                  ELSE [c EXCEPT !.decides = TRUE, !.nudge = ~live.nudged, !.asked = live.asked,
                                 !.from = live.generation]
  <2>1. UNCHANGED <<task, known, started, jobs>> /\ With(c, d) /\ c.ended # "none" /\ ~c.decides
    BY <1>1 DEF TurnCompleted
  <2>2. /\ d.id = c.id /\ d.alive = c.alive /\ d.turn = c.turn
        /\ live.stopping => d.decides = c.decides /\ d.ended = "none" /\ d.from = c.from
        /\ ~live.stopping => d.ended = c.ended /\ d.from = live.generation
    BY <1>0 DEF CliType
  <2>3. /\ live'.cli = live.cli /\ live'.generation = live.generation
        /\ live'.stopping = live.stopping /\ live'.held = live.held
    BY <1>0, <1>1 DEF TurnCompleted, LiveType
  <2> HIDE DEF d
  <2>4. Quieter(c, d)
    <3>1. live.generation \in Nat
      BY <1>0 DEF LiveType
    <3>2. CASE live.stopping
      BY <1>b, <2>1, <2>2, <3>2 DEF Quieter, Idle, Ongoing, Turns
    <3>3. CASE ~live.stopping
      BY <1>b, <2>1, <2>2, <3>1, <3>3 DEF Quieter, Idle, Ongoing, Turns
    <3> QED
      BY <3>2, <3>3
  <2>5. QuieterClis
    BY <2>1, <2>4, QuietWith DEF Inductive
  <2>6. \A e \in clis' : e.id # 0
    BY <1>a, <2>5 DEF QuieterClis, Quieter
  <2>7. Harmless({}, 0)
    BY <2>1, <2>3, <2>5, <2>6 DEF Harmless, Aside
  <2> QED
    BY <2>7, HarmlessStep
<1>2. CASE PumpEnds(c)
  <2> DEFINE n == Job("exited", live.generation)
  <2>1. /\ UNCHANGED <<task, known, started>> /\ clis' = clis \ {c}
        /\ jobs' = IF live.stopping THEN jobs ELSE jobs \union {n}
        /\ \A j \in jobs : ~(j.at = "install" /\ j.cli = c.id)
    BY <1>2 DEF PumpEnds
  <2>2. n.at = "exited" /\ n.from = live.generation /\ n.cli = 0 /\ ~n.lock
    BY DEF Job
  <2>3. /\ live'.cli = (IF live.cli = c.id THEN 0 ELSE live.cli) /\ live'.generation = live.generation
        /\ live'.stopping = live.stopping /\ live'.held = live.held
    BY <1>0, <1>2 DEF PumpEnds, LiveType
  <2> HIDE DEF n
  <2>4. \A d \in clis' : d.id # c.id
    BY <2>1 DEF Inductive, Always, Numbers
  <2>5. QuieterClis
    <3>1. \A e \in clis : Quieter(e, e)
      BY DEF Quieter, Inductive, Always, Decisions, Unread, Ongoing, Turns
    <3> QED
      BY <2>1, <3>1 DEF QuieterClis, Inductive, Always, Numbers
  <2>6. ~live.stopping => Joins({}, n)
    <3> SUFFICES ASSUME ~live.stopping, NEW u \in jobs, Starter(u), ~u.lock PROVE FALSE
      BY <1>0, <2>2 DEF Joins, Starter, Pending, Rerouting, Marks, LiveType
    <3>1. Unlocked(u)
      BY DEF Inductive, Always, Alone
    <3>2. u.at = "install" /\ c.id = u.cli
      BY <3>1 DEF Unlocked
    <3> QED
      BY <2>1, <3>2
  <2>7. Harmless({}, n)
    BY <1>a, <2>1, <2>2, <2>3, <2>4, <2>5, <2>6 DEF Harmless, Aside, Asks, Once
  <2> QED
    BY <2>7, HarmlessStep
<1> QED
  BY <1>1, <1>2

LEMMA InductiveDecided ==
    ASSUME Typed, Typed', Inductive, Steady' => Steady, NEW c \in clis, TurnDecided(c)
    PROVE  Inductive'
<1>0. c \in CliType /\ live \in LiveType
  BY DEF Typed, TypedClis, TypedLive
<1>a. \A d \in clis : d.id # 0
  BY DEF Typed, TypedClis, CliType, Sessions
<1>b. c.decides /\ c.ended # "none" /\ c.from <= live.generation /\ c.from \in Nat
      /\ UNCHANGED <<task, known, started>>
  BY <1>0 DEF TurnDecided, Inductive, Always, Decisions, Unread, CliType
<1>1. PICK d : /\ With(c, d)
               /\ d = Decided(c) \/ (d = [Decided(c) EXCEPT !.turn = "running"] /\ UNCHANGED jobs)
  BY DEF TurnDecided
<1>2. d.id = c.id /\ d.alive = c.alive /\ d.from = 0 /\ ~d.decides /\ d.ended = "none"
  BY <1>0, <1>1 DEF Decided, CliType
<1>3. Quieter(c, d)
  BY <1>0, <1>b, <1>2 DEF Quieter, Idle, LiveType, Ongoing, Turns
<1>4. QuieterClis
  BY <1>1, <1>3, QuietWith DEF Inductive
<1>5. \A e \in clis' : e.id # 0
  BY <1>a, <1>4 DEF QuieterClis, Quieter
<1>6. \A u \in jobs : Starter(u) => u.lock
  BY <1>b DEF Inductive, Always, Alone, Unlocked
<1>7. /\ live'.cli = live.cli /\ live'.generation = live.generation
      /\ live'.held = live.held /\ (live.stopping => live'.stopping)
  <2>1. \/ UNCHANGED live
        \/ live' = [live EXCEPT !.cutoff = "none"]
        \/ live' = [live EXCEPT !.cutoff = "none", !.stopping = TRUE]
        \/ live' = [live EXCEPT !.busy = TRUE, !.stallNudged = FALSE]
    BY DEF TurnDecided
  <2> QED
    BY <1>0, <2>1 DEF LiveType
<1>8. ASSUME NEW n, jobs' = jobs \union {n}, n.at \in {"handOff", "handOver", "fail"}, ~n.pending,
             n.from \in {0, c.from}, n.cli = 0, ~n.lock, Ongoing => Asks(n)
      PROVE  Harmless({}, n)
  <2>1. Joins({}, n)
    BY <1>0, <1>b, <1>6, <1>8 DEF Joins, Starter, Pending, Rerouting, Marks, LiveType
  <2> QED
    BY <1>b, <1>4, <1>5, <1>7, <1>8, <2>1 DEF Harmless, Aside
<1>9. CASE UNCHANGED jobs
  <2>1. Harmless({}, 0)
    BY <1>b, <1>4, <1>5, <1>7, <1>9 DEF Harmless, Aside
  <2> QED
    BY <2>1, HarmlessStep
<1>10. CASE jobs' = jobs \union {[Job("handOff", c.from) EXCEPT !.end = live.cutoff]}
            \/ jobs' = jobs \union {Job("fail", 0)}
  <2>1. PICK n : /\ jobs' = jobs \union {n}
                 /\ n = [Job("handOff", c.from) EXCEPT !.end = live.cutoff] \/ n = Job("fail", 0)
    BY <1>10
  <2>2. n.at \in {"handOff", "fail"} /\ ~n.pending /\ n.from \in {0, c.from} /\ n.cli = 0 /\ ~n.lock
    BY <2>1 DEF Job
  <2>3. Harmless({}, n)
    BY <1>8, <2>1, <2>2 DEF Asks, Once
  <2> QED
    BY <2>3, HarmlessStep
<1>11. CASE jobs' = jobs \union {Job("handOver", c.from)} /\ d = Decided(c) 
  <2> DEFINE n == Job("handOver", c.from)
  <2>1. n.at = "handOver" /\ ~n.pending /\ n.from = c.from /\ n.cli = 0 /\ ~n.lock
    BY DEF Job
  <2>2. d.turn = c.turn
    BY <1>0, <1>11 DEF Decided, CliType
  <2> HIDE DEF n
  <2>3. ASSUME Ongoing, Once(n) PROVE Asks(n)
    <3>1. ~Idle(c) /\ \A e \in clis : e.id = c.id => e = c
      BY <1>b DEF Idle, Inductive, Always, Numbers
    <3>2. \A k \in jobs : k.at = "install" => k.cli # c.id
      BY <3>1 DEF Inductive, Always, Unread
    <3>3. c.id = live.generation
      <4>1. CASE c.id = live.cli
        BY <1>a, <4>1 DEF Inductive, Always, Generations
      <4>2. ASSUME NEW k \in jobs, ClosedFor(c, k) PROVE c.id = live.generation
        <5>1. k.at \in Rerouting \union {"messageClose"}
          BY <3>2, <4>2 DEF ClosedFor, Closing, Starter, Pending, Rerouting
        <5> QED
          BY <1>a, <4>2, <5>1 DEF ClosedFor, Inductive, Always, Numbers
      <4> QED
        BY <2>3, <4>1, <4>2 DEF Ongoing, Followed
    <3>4. \A e \in clis : e = c
      <4> SUFFICES ASSUME NEW e \in clis PROVE e.id = c.id
        BY <3>1
      <4>1. CASE c.id = live.cli
        BY <1>a, <2>3, <4>1 DEF Ongoing, Followed, ClosedFor
      <4>2. ASSUME NEW k \in jobs, ClosedFor(c, k) PROVE e.id = c.id
        <5>1. live.cli = 0 /\ e.id # 0
          BY <1>a, <2>3, <4>2 DEF Ongoing, Followed, ClosedFor
        <5>2. PICK i \in jobs : ClosedFor(e, i)
          BY <2>3, <5>1 DEF Ongoing, Followed
        <5>3. i = k
          BY <4>2, <5>2, OneStarter DEF ClosedFor, Inductive
        <5> QED
          BY <4>2, <5>2, <5>3 DEF ClosedFor
      <4> QED
        BY <2>3, <4>1, <4>2 DEF Ongoing, Followed
    <3>5. c.turn = "none"
      BY <1>b, <2>3 DEF Ongoing, Turns
    <3>6. \A e \in clis' : Idle(e)
      BY <1>1, <1>2, <2>2, <3>4, <3>5 DEF With, Idle
    <3>7. \A k \in jobs : ~Once(k) /\ k.at \notin {"stalledClose", "overClose"}
      BY <1>b, <2>3, <3>1 DEF Ongoing, HandedOnce
    <3>8. \A k \in jobs : k.at \in Marks => k.cli # live.generation
      BY <2>3, <3>1, <3>3 DEF Ongoing, FirstMessage
    <3>9. ~live.held
      BY <2>3, <3>2 DEF Ongoing, Held
    <3> QED
      BY <3>6, <3>7, <3>8, <3>9 DEF Asks
  <2>4. Ongoing => Asks(n)
    BY <2>3 DEF Asks
  <2>5. Harmless({}, n)
    BY <1>8, <1>11, <2>1, <2>4 DEF n
  <2> QED
    BY <2>5, HarmlessStep
<1>12. \/ UNCHANGED jobs \/ jobs' = jobs \union {Job("handOver", c.from)}
       \/ jobs' = jobs \union {[Job("handOff", c.from) EXCEPT !.end = live.cutoff]}
       \/ jobs' = jobs \union {Job("fail", 0)}
  BY DEF TurnDecided
<1> QED
  BY <1>1, <1>9, <1>10, <1>11, <1>12

-----------------------------------------------------------------------------
(* Jobs that start and close no session. *)

LEMMA Unclosed ==
    ASSUME NEW j \in jobs, CliOf(j.cli) = {}
    PROVE  \A c \in clis : ~ClosedFor(c, j)
BY DEF CliOf, ClosedFor

(* A job that is dropped, or goes on as one that is aside. *)
LEMMA DropHarmless ==
    ASSUME Typed, Inductive, NEW j \in jobs, j.at # "install",
           UNCHANGED <<task, known, clis, started>>,
           /\ live'.cli = live.cli /\ live'.generation = live.generation
           /\ live'.stopping = live.stopping /\ live'.held = live.held,
           NEW n,
           jobs' = jobs \ {j} \/ (jobs' = (jobs \ {j}) \union {n} /\ Joins({j}, n) /\ n.at # "handOver"),
           Ongoing => /\ \A c \in clis : ~ClosedFor(c, j)
                      /\ j.at \in {"continue", "routed"} /\ j.lock => task.open
    PROVE  Harmless({j}, n)
<1>1. \A d \in clis : d.id # 0
  BY DEF Typed, TypedClis, CliType, Sessions
<1>2. QuieterClis
  BY QuietSame DEF Inductive
<1>3. jobs' # jobs \ {j} => Asks(n)
  BY DEF Asks, Once
<1> QED
  BY <1>1, <1>2, <1>3 DEF Harmless, Aside

LEMMA InductiveExited ==
    ASSUME Typed, Typed', Inductive, Steady' => Steady, NEW j \in jobs, Exited(j)
    PROVE  Inductive'
<1>0. j \in JobType /\ live \in LiveType
  BY DEF Typed, TypedJobs, TypedLive
<1> DEFINE n == [j EXCEPT !.at = "handOff",
                          !.end = IF live.cutoff = "none" THEN "error" ELSE live.cutoff]
<1>1. /\ UNCHANGED <<task, known, clis, started>> /\ j.at = "exited"
      /\ jobs' = jobs \ {j} \/ jobs' = (jobs \ {j}) \union {n}
  BY DEF Exited, Replace
<1>2. n.at = "handOff" /\ n.from = j.from /\ n.cli = j.cli /\ n.lock = j.lock
  BY <1>0 DEF JobType
<1>3. /\ live'.cli = live.cli /\ live'.generation = live.generation
      /\ live'.stopping = live.stopping /\ live'.held = live.held
  BY <1>0 DEF Exited, LiveType
<1> HIDE DEF n
<1>4. Joins({j}, n)
  <2>1. n.from <= live.generation /\ n.cli <= live.generation
    BY <1>1, <1>2 DEF Inductive, Always, Decisions, Numbers
  <2>2. n.lock => \A k \in jobs \ {j} : ~k.lock
    BY <1>2 DEF Inductive, Always, OneLock
  <2>3. \A u \in jobs \ {j} : Starter(u) => u.lock
    BY <1>1 DEF Inductive, Always, Alone, Unlocked, Apart, Stopping
  <2> QED
    BY <1>2, <2>1, <2>2, <2>3 DEF Joins, Starter, Pending, Rerouting, Marks
<1>5. \A c \in clis : ~ClosedFor(c, j)
  BY <1>1 DEF ClosedFor, Closing, Rerouting
<1>6. Harmless({j}, n)
  BY <1>1, <1>2, <1>3, <1>4, <1>5, DropHarmless
<1> QED
  BY <1>6, HarmlessStep

LEMMA InductiveEndCli ==
    ASSUME Typed, Typed', Inductive, Steady' => Steady, NEW j \in jobs, EndCli(j)
    PROVE  Inductive'
<1>1. PICK c \in clis : With(c, [c EXCEPT !.alive = FALSE, !.turn = "none"])
  BY DEF EndCli, CliOf
<1>2. c \in CliType /\ (c.decides => c.ended # "none") /\ c.from <= live.generation
  BY DEF Typed, TypedClis, Inductive, Always, Unread, Decisions
<1> DEFINE d == [c EXCEPT !.alive = FALSE, !.turn = "none"]
<1>3. d.id = c.id /\ ~d.alive /\ d.from = c.from /\ d.decides = c.decides
      /\ d.turn = "none" /\ d.ended = c.ended
  BY <1>2 DEF CliType
<1>4. With(c, d)
  BY <1>1
<1> HIDE DEF d
<1>5. Quieter(c, d)
  BY <1>2, <1>3 DEF Quieter, Idle, Ongoing, Turns
<1>6. QuieterClis
  BY <1>4, <1>5, QuietWith DEF Inductive
<1>7. \A e \in clis' : e.id # 0
  BY <1>6 DEF QuieterClis, Quieter, Typed, TypedClis, CliType, Sessions
<1>8. Harmless({}, 0)
  BY <1>6, <1>7 DEF Harmless, Aside, EndCli
<1> QED
  BY <1>8, HarmlessStep

LEMMA InductivePaused ==
    ASSUME Typed, Typed', Inductive, Steady' => Steady, NEW j \in jobs, PauseRecorded(j)
    PROVE  Inductive'
<1>1. /\ UNCHANGED <<live, known, clis, started>> /\ j.at = "pause" /\ jobs' = jobs \ {j}
      /\ task' = [task EXCEPT !.state = "Paused"]
  BY DEF PauseRecorded, Replace
<1>2. /\ task'.state = "Paused" /\ task'.open = task.open /\ task'.wait = task.wait
      /\ task'.errors = task.errors
  BY <1>1 DEF Typed, TypedTask, TaskType
<1>3. \A d \in clis : d.id # 0 /\ ~ClosedFor(d, j)
  BY <1>1 DEF Typed, TypedClis, CliType, Sessions, ClosedFor, Closing, Rerouting
<1>4. QuieterClis
  BY <1>1, QuietSame DEF Inductive
<1>5. Harmless({j}, 0)
  BY <1>1, <1>2, <1>3, <1>4 DEF Harmless, Aside
<1> QED
  BY <1>5, HarmlessStep

LEMMA InductiveOutside ==
    ASSUME Typed, Typed', Inductive, Steady' => Steady, Nudge \/ RetryWaiting \/ Pause \/ UNCHANGED vars
    PROVE  Inductive'
<1>0. live \in LiveType /\ \A d \in clis : d.id # 0
  BY DEF Typed, TypedLive, TypedClis, CliType, Sessions
<1>1. CASE Nudge \/ UNCHANGED vars
  <2>1. UNCHANGED <<task, known, clis, started, jobs>>
    BY <1>1 DEF Nudge, vars
  <2>2. /\ live'.cli = live.cli /\ live'.generation = live.generation
        /\ live'.stopping = live.stopping /\ live'.held = live.held
    BY <1>0, <1>1 DEF Nudge, vars, LiveType
  <2>3. Harmless({}, 0)
    BY <1>0, <2>1, <2>2, QuietSame DEF Harmless, Aside, Inductive
  <2> QED
    BY <2>3, HarmlessStep
<1>2. CASE RetryWaiting
  <2> DEFINE n == Job("continue", 0)
  <2>1. UNCHANGED <<task, live, known, clis, started>> /\ jobs' = jobs \union {n} /\ task.wait
    BY <1>2 DEF RetryWaiting
  <2>2. n.at = "continue" /\ n.from = 0 /\ n.cli = 0 /\ ~n.lock
    BY DEF Job
  <2> HIDE DEF n
  <2>3. Joins({}, n)
    <3>1. \A u \in jobs : Starter(u) => u.lock
      BY <2>1 DEF Inductive, Always, Alone, Unlocked
    <3> QED
      BY <1>0, <2>2, <3>1 DEF Joins, Starter, Pending, Rerouting, Marks, LiveType
  <2>4. Harmless({}, n)
    BY <1>0, <2>1, <2>2, <2>3, QuietSame DEF Harmless, Aside, Inductive, Asks, Once
  <2> QED
    BY <2>4, HarmlessStep
<1>3. CASE Pause
  <2> DEFINE n == Job("pause", 0)
  <2>1. UNCHANGED <<task, live, known, started>> /\ jobs' = jobs \union {n}
    BY <1>3 DEF Pause
  <2>2. n.at = "pause" /\ n.from = 0 /\ n.cli = 0 /\ ~n.lock
    BY DEF Job
  <2> HIDE DEF n
  <2>3. Joins({}, n)
    BY <1>0, <2>2 DEF Joins, Starter, Pending, Rerouting, Marks, LiveType, Apart
  <2>4. QuieterClis
    <3>1. ASSUME NEW c \in clis, c.turn = "running", With(c, [c EXCEPT !.turn = "interrupted"])
          PROVE  QuieterClis
      <4> DEFINE d == [c EXCEPT !.turn = "interrupted"]
      <4>1. c \in CliType /\ (c.decides => c.ended # "none") /\ c.from <= live.generation
        BY DEF Typed, TypedClis, Inductive, Always, Unread, Decisions
      <4>2. d.id = c.id /\ d.alive = c.alive /\ d.from = c.from /\ d.decides = c.decides
            /\ d.ended = c.ended
        BY <4>1 DEF CliType
      <4>3. With(c, d)
        BY <3>1
      <4> HIDE DEF d
      <4>4. Quieter(c, d)
        BY <3>1, <4>1, <4>2 DEF Quieter, Idle, Ongoing, Turns
      <4> QED
        BY <4>3, <4>4, QuietWith DEF Inductive
    <3>2. CASE UNCHANGED clis
      BY <3>2, QuietSame DEF Inductive
    <3> QED
      <4>1. CASE \E c \in CliOf(live.cli) : c.turn = "running"
        <5>1. PICK c \in CliOf(live.cli) : With(c, [c EXCEPT !.turn = "interrupted"])
          BY <1>3, <4>1 DEF Pause
        <5>2. c \in clis /\ c.turn = "running"
          BY <4>1, <5>1 DEF CliOf, Inductive, Always, Numbers
        <5> QED
          BY <3>1, <5>1, <5>2
      <4>2. CASE ~\E c \in CliOf(live.cli) : c.turn = "running"
        BY <1>3, <3>2, <4>2 DEF Pause
      <4> QED
        BY <4>1, <4>2
  <2>5. \A d \in clis' : d.id # 0
    BY <1>0, <2>4 DEF QuieterClis, Quieter
  <2>6. Harmless({}, n)
    BY <2>1, <2>2, <2>3, <2>4, <2>5 DEF Harmless, Aside, Asks, Once
  <2> QED
    BY <2>6, HarmlessStep
<1> QED
  BY <1>1, <1>2, <1>3

-----------------------------------------------------------------------------
(* The task's end. *)

LEMMA InductiveEnd ==
    ASSUME Typed, Typed', Inductive, NEW j \in jobs, Fail(j) \/ Dispose(j) \/ EndRecorded(j)
    PROVE  Inductive'
<1>0. j \in JobType /\ live \in LiveType /\ task \in TaskType
  BY DEF Typed, TypedJobs, TypedLive, TypedTask
<1>1. /\ UNCHANGED <<known, clis, started>> /\ j.at \in Apart
      /\ live'.generation = live.generation /\ live'.cli \in {0, live.cli}
      /\ live.stopping => live'.stopping
      /\ \E n : /\ jobs' = (jobs \ {j}) \union {n}
                /\ n.at \in Apart /\ n.at \in EndingAt
                /\ n.from \in {0, j.from} /\ n.cli \in {0, live.cli} /\ n.lock = j.lock
  <2>1. CASE Fail(j) \/ Dispose(j)
    <3>1. PICK at \in {"failClose", "failEnd", "stopEnd"} : Detach(j, at)
      BY <2>1 DEF Fail, Dispose
    <3> DEFINE n == [j EXCEPT !.at = at, !.cli = live.cli, !.lock = @ \/ at \in Rerouting]
    <3>2. n.at = at /\ n.from = j.from /\ n.cli = live.cli /\ n.lock = j.lock
      BY <1>0 DEF JobType, Rerouting
    <3>3. jobs' = (jobs \ {j}) \union {n} /\ live' = Detached
      BY <3>1 DEF Detach, Replace
    <3> HIDE DEF n
    <3>4. live'.generation = live.generation /\ live'.cli = 0 /\ live'.stopping
      BY <1>0, <3>3 DEF Detached, LiveType
    <3>5. UNCHANGED <<known, clis, started>> /\ j.at \in Apart
      BY <2>1 DEF Fail, Dispose, AtEnd, Apart, Stopping
    <3>6. n.at \in Apart /\ n.at \in EndingAt
      BY <3>2 DEF Apart, EndingAt, Stopping
    <3> QED
      BY <3>2, <3>3, <3>4, <3>5, <3>6
  <2>2. CASE EndRecorded(j)
    <3> DEFINE at == IF j.at = "stopEnd" THEN "stopSweep" ELSE "failSweep"
               n == [j EXCEPT !.at = at, !.from = 0, !.cli = 0, !.end = "none", !.pending = FALSE]
    <3>1. jobs' = (jobs \ {j}) \union {n}
      BY <2>2 DEF EndRecorded, Onwards, Replace
    <3>2. n.at = at /\ n.from = 0 /\ n.cli = 0 /\ n.lock = j.lock
      BY <1>0 DEF JobType
    <3>3. UNCHANGED <<live, known, clis, started>> /\ j.at \in Apart
      BY <2>2 DEF EndRecorded, AtEnd, Apart, Stopping
    <3>4. at \in Apart /\ at \in EndingAt
      BY DEF Apart, EndingAt, Stopping
    <3> HIDE DEF n, at
    <3> QED
      BY <3>1, <3>2, <3>3, <3>4
  <2> QED
    BY <2>1, <2>2
<1>2. /\ (task'.open => task.open) /\ (task'.wait => task.wait) /\ task'.errors = task.errors
      /\ task'.state = task.state \/ task'.state # "Running"
  <2>1. \/ UNCHANGED task
        \/ \E s \in Final : task' = [task EXCEPT !.state = s, !.open = FALSE, !.wait = FALSE]
    BY DEF Fail, Dispose, EndRecorded, Final
  <2> QED
    BY <1>0, <2>1 DEF TaskType, Final
<1>3. PICK n : /\ jobs' = (jobs \ {j}) \union {n}
               /\ n.at \in Apart /\ n.at \in EndingAt
               /\ n.from \in {0, j.from} /\ n.cli \in {0, live.cli} /\ n.lock = j.lock
  BY <1>1
<1>4. Joins({j}, n)
  <2>1. n.from <= live.generation /\ n.cli <= live.generation
    BY <1>0, <1>3 DEF Inductive, Always, Decisions, Generations, LiveType
  <2>2. n.lock => \A k \in jobs \ {j} : ~k.lock
    BY <1>3 DEF Inductive, Always, OneLock
  <2>3. ~n.lock \/ \A u \in jobs \ {j} : Starter(u) => u.lock
    BY <1>3 DEF Inductive, Always, Alone, Unlocked
  <2> QED
    BY <1>3, <2>1, <2>2, <2>3 DEF Joins, Starter, Pending, Rerouting, Marks, Apart, Stopping
<1>5. QuieterClis
  BY <1>1, QuietSame DEF Inductive
<1>6. Aside({j}, n)
  BY <1>1, <1>2, <1>3, <1>4, <1>5 DEF Aside, Apart, Stopping
<1>7. ~known' => \A d \in clis' : ~d.alive
  BY <1>1 DEF Inductive, Always, Gone
<1>8. Always'
  BY <1>2, <1>6, <1>7, AsideAlways DEF Inductive
<1>9. ~Steady'
  BY <1>3 DEF Steady, Ending, EndingAt
<1> QED
  BY <1>8, <1>9 DEF Inductive

LEMMA InductiveSweep ==
    ASSUME Typed, Typed', Inductive, NEW j \in jobs, Sweep(j)
    PROVE  Inductive'
<1> DEFINE Ended(c) == [c EXCEPT !.alive = FALSE, !.turn = "none"]
<1>1. UNCHANGED <<task, live, started>> /\ ~known' /\ jobs' = jobs \ {j} /\ j.at # "install"
      /\ clis' = {Ended(c) : c \in clis}
  BY DEF Sweep, Replace
<1>2. ASSUME NEW c \in clis PROVE Quieter(c, Ended(c)) /\ ~Ended(c).alive /\ Ended(c).id = c.id
  <2>1. c \in CliType /\ (c.decides => c.ended # "none") /\ c.from <= live.generation
    BY DEF Typed, TypedClis, Inductive, Always, Unread, Decisions
  <2> DEFINE d == Ended(c)
  <2>2. d.id = c.id /\ ~d.alive /\ d.from = c.from /\ d.decides = c.decides
        /\ d.turn = "none" /\ d.ended = c.ended
    BY <2>1 DEF CliType
  <2> HIDE DEF d
  <2>3. Quieter(c, d) /\ ~d.alive /\ d.id = c.id
    BY <2>1, <2>2 DEF Quieter, Idle, Ongoing, Turns
  <2> QED
    BY <2>3 DEF d
<1> HIDE DEF Ended
<1>3. QuieterClis
  <2>1. ASSUME NEW b \in clis, NEW c \in clis, Ended(b).id = Ended(c).id PROVE Ended(b) = Ended(c)
    <3>1. b = c
      BY <1>2, <2>1 DEF Inductive, Always, Numbers
    <3> QED
      BY <3>1
  <2> QED
    BY <1>1, <1>2, <2>1 DEF QuieterClis
<1>4. Aside({j}, 0)
  BY <1>1, <1>3 DEF Aside, Sweep
<1>5. Always'
  BY <1>1, <1>2, <1>4, AsideAlways DEF Inductive
<1> QED
  BY <1>1, <1>5 DEF Inductive, Steady

LEMMA InductiveStop ==
    ASSUME Typed, Typed', Inductive, Stop
    PROVE  Inductive'
<1>0. live \in LiveType
  BY DEF Typed, TypedLive
<1> DEFINE n == [Job("stopClose", 0) EXCEPT !.cli = live.cli]
<1>1. UNCHANGED <<task, known, clis, started>> /\ live' = Detached /\ jobs' = jobs \union {n}
  BY DEF Stop
<1>2. n.at = "stopClose" /\ n.from = 0 /\ n.cli = live.cli /\ ~n.lock
  BY DEF Job
<1> HIDE DEF n
<1>3. live'.generation = live.generation /\ live'.cli = 0 /\ live'.stopping
  BY <1>0, <1>1 DEF Detached, LiveType
<1>4. Joins({}, n)
  BY <1>0, <1>2 DEF Joins, Starter, Pending, Rerouting, Marks, Apart, Stopping, LiveType,
                    Inductive, Always, Generations
<1>5. QuieterClis
  BY <1>1, QuietSame DEF Inductive
<1>6. Aside({}, n)
  BY <1>1, <1>3, <1>4, <1>5 DEF Aside
<1>7. Always'
  BY <1>1, <1>6, AsideAlways DEF Inductive, Always, Gone
<1>8. ~Steady'
  BY <1>1, <1>2 DEF Steady, Ending, Stopping
<1> QED
  BY <1>7, <1>8 DEF Inductive

-----------------------------------------------------------------------------
(* Jobs that close a session or are about to start one. *)

(* One job becomes another, while no other works without the lock. *)
Passes(J, n) ==
    /\ J \subseteq jobs /\ \A j \in J : j.at # "install"
    /\ jobs' = (jobs \ J) \union {n} /\ n.at # "install"
    /\ \A k \in jobs \ J : Starter(k) => k.lock
    /\ n.lock => \A k \in jobs \ J : ~k.lock
    /\ n.at \in Rerouting \union {"routed", "fresh"} => n.lock
    /\ n.at = "messageClose" => ~n.lock
    /\ n.from <= live.generation /\ n.cli <= live.generation
    /\ n.at \in Rerouting \union {"messageClose"} => n.cli \in {0, live.generation}
    /\ n.at \in {"replaceClose", "stalledClose", "handOffClose", "overClose"} \/ Pending(n)
           => n.from = live.generation
    /\ live'.generation = live.generation /\ live'.cli \in {0, live.cli}
    /\ UNCHANGED <<known, started, clis>>

LEMMA PassesAlways ==
    ASSUME Typed, Typed', Always, NEW J, NEW n, Passes(J, n),
           Starter(n) /\ ~n.lock => Unlocked(n)',
           (\A k \in jobs \ J : ~Starter(k)) \/ (task'.errors = task.errors /\ (task'.open => task.open)),
           task'.errors < ErrorHandoffs,
           n.at = "handOffClose" /\ n.end = "error" => task'.errors + 1 < ErrorHandoffs,
           task'.wait => ~task'.open, n.at = "routed" => ~task'.open
    PROVE  Always'
<1>0. jobs \subseteq JobType /\ live \in LiveType /\ live' \in LiveType /\ n \in JobType
  BY DEF Typed, TypedJobs, TypedLive, Passes
<1>1. \A k \in jobs' : k \in jobs \ J \/ k = n
  BY DEF Passes
<1>2. OneLock' /\ Locked'
  <2>1. OneLock'
    BY <1>1 DEF Always, OneLock, Passes
  <2>2. Locked'
    BY <1>1 DEF Always, Locked, Passes
  <2> QED
    BY <2>1, <2>2
<1>3. Alone'
  <2> SUFFICES ASSUME NEW u \in jobs', Starter(u), ~u.lock PROVE Unlocked(u)'
    BY DEF Alone, Starter, Pending, Rerouting
  <2>1. u = n
    BY <1>1 DEF Passes
  <2> QED
    BY <2>1
<1>4. Generations'
  <2>1. live'.cli \in {0, live'.generation}
    BY DEF Always, Generations, Passes
  <2>2. \A k \in jobs' : k.at = "install" => k.cli = live'.generation + 1 /\ started' = k.cli
    BY <1>1 DEF Always, Generations, Passes
  <2>3. (\A k \in jobs' : k.at # "install") => started' = live'.generation
    BY DEF Always, Generations, Passes
  <2> QED
    BY <2>1, <2>2, <2>3 DEF Generations
<1>5. Decisions'
  BY <1>1 DEF Always, Decisions, Passes, Pending
<1>6. Numbers'
  BY <1>0, <1>1 DEF Always, Numbers, Passes, LiveType
<1>7. Unread' /\ Gone'
  BY <1>1 DEF Always, Unread, Gone, Passes, Idle
<1>8. Errors'
  BY <1>1 DEF Always, Errors, Passes, Starter, Rerouting
<1>9. Bare'
  BY <1>1 DEF Always, Bare, Passes, Starter, Rerouting
<1> QED
  BY <1>2, <1>3, <1>4, <1>5, <1>6, <1>7, <1>8, <1>9 DEF Always

(* Taking the reroute lock: nobody else has it or works without it. *)
LEMMA LockTaken ==
    ASSUME Always, NEW j \in jobs, j.lock \/ (RerouteFree /\ j.at \notin Apart), Starter(j) \/ ~j.lock
    PROVE  \A k \in jobs \ {j} : ~k.lock /\ ~Starter(k)
<1>1. CASE j.lock
  <2>1. Starter(j)
    BY <1>1
  <2> QED
    BY <1>1, <2>1, OneStarter DEF Always, OneLock
<1>2. CASE RerouteFree /\ j.at \notin Apart
  BY <1>2, FreeAlone DEF RerouteFree
<1> QED
  BY <1>1, <1>2

(* What detach_cli does with the job's session. *)
LEMMA DetachStep ==
    ASSUME Typed, NEW j \in jobs, NEW at \in Steps, Detach(j, at)
    PROVE  /\ live'.cli = 0 /\ live'.generation = live.generation /\ live'.stopping
           /\ live'.held = live.held
           /\ \E n \in JobType : /\ jobs' = (jobs \ {j}) \union {n}
                                 /\ n.at = at /\ n.from = j.from /\ n.cli = live.cli /\ n.end = j.end
                                 /\ n.pending = j.pending /\ (n.lock <=> j.lock \/ at \in Rerouting)
<1>0. j \in JobType /\ live \in LiveType
  BY DEF Typed, TypedJobs, TypedLive
<1>1. /\ live'.cli = 0 /\ live'.generation = live.generation /\ live'.stopping
      /\ live'.held = live.held
  BY <1>0 DEF Detach, Detached, LiveType
<1> DEFINE n == [j EXCEPT !.at = at, !.cli = live.cli, !.lock = @ \/ at \in Rerouting]
<1>2. jobs' = (jobs \ {j}) \union {n}
  BY DEF Detach, Replace
<1>3. n \in JobType /\ n.at = at /\ n.from = j.from /\ n.cli = live.cli /\ n.end = j.end
      /\ n.pending = j.pending /\ (n.lock <=> j.lock \/ at \in Rerouting)
  BY <1>0 DEF JobType, LiveType
<1> HIDE DEF n
<1> QED
  BY <1>1, <1>2, <1>3

(* In a steady task a starter keeps no session but the one it closes or    *)
(* installs.                                                               *)
LEMMA NoSession ==
    ASSUME Typed, Always, Ongoing, NEW j \in jobs, Starter(j), \A c \in clis : ~ClosedFor(c, j)
    PROVE  clis = {} /\ live.cli = 0
<1>1. live.cli = 0
  BY DEF Ongoing, Followed
<1>2. ASSUME NEW c \in clis PROVE FALSE
  <2>1. c.id # live.cli
    BY <1>1 DEF Typed, TypedClis, CliType, Sessions
  <2>2. PICK k \in jobs : ClosedFor(c, k)
    BY <2>1 DEF Ongoing, Followed
  <2> QED
    BY <2>2, OneStarter DEF ClosedFor
<1> QED
  BY <1>1, <1>2

LEMMA PassesSteady ==
    ASSUME Typed, Typed', Always, Ongoing, NEW J, NEW n, Passes(J, n),
           \A k \in jobs \ J : ~Starter(k), Starter(n), live'.cli = 0,
           \A c \in clis : n.at \in Closing /\ c.id = n.cli,
           task'.state \notin Final,
           Attempting(n) => task'.open,
           ~task'.open => task'.wait \/ (n.at \in {"continue", "routed"} /\ n.lock),
           task'.wait => task'.state = "Paused",
           task'.wait \/ n.at \in {"continue", "routed"} => \A k \in jobs : k.at # "mark",
           n.at \in {"stalledClose", "overClose"} =>
               live'.stopping /\ (\A c \in clis : ~c.decides) /\ \A k \in jobs \ J : ~Once(k),
           live'.held => live.held
    PROVE  Ongoing'
<1>0. jobs \subseteq JobType /\ live \in LiveType /\ live' \in LiveType /\ n \in JobType
  BY DEF Typed, TypedJobs, TypedLive, Passes
<1>1. /\ \A k \in jobs' : k \in jobs \ J \/ k = n
      /\ n \in jobs' /\ jobs \ J \subseteq jobs'
      /\ clis' = clis /\ live'.generation = live.generation
  BY DEF Passes
<1>2. n.at \notin Marks /\ ~Once(n)
  BY DEF Starter, Pending, Rerouting, Marks, Once
<1>3. Followed'
  BY <1>1 DEF Followed, ClosedFor, Starter, Pending
<1>4. Opened'
  <2>1. \A k \in jobs' : Attempting(k) => task'.open
    BY <1>1 DEF Ongoing, Opened, Attempting, Starter, Rerouting, Passes
  <2>2. ~task'.open => task'.wait \/ Routing'
    BY <1>1 DEF Routing
  <2> QED
    BY <2>1, <2>2 DEF Opened, Pending
<1>5. Waiting'
  <2>1. Routing' => n.at \in {"continue", "routed"}
    BY <1>1 DEF Routing, Starter
  <2>2. task'.wait \/ Routing' => \A k \in jobs' : k.at # "mark"
    BY <1>1, <1>2, <2>1 DEF Marks
  <2> QED
    BY <2>2 DEF Waiting
<1>6. Turns'
  BY <1>1 DEF Ongoing, Turns
<1>7. \A k \in jobs' : Once(k)' => k \in jobs \ J /\ Once(k)
  BY <1>1, <1>2 DEF Once
<1>8. HandedOnce'
  <2>1. ASSUME NEW k \in jobs', Once(k)' PROVE /\ \A d \in clis' : Idle(d)
                                              /\ \A j \in jobs' : j.at \in Marks => j.cli # live'.generation
    BY <1>1, <1>2, <1>7, <2>1 DEF Ongoing, HandedOnce
  <2>2. \A i, k \in jobs' : Once(i)' /\ Once(k)' => i = k
    BY <1>7 DEF Ongoing, HandedOnce
  <2>3. ASSUME NEW j \in jobs', j.at \in {"stalledClose", "overClose"}
        PROVE  live'.stopping /\ (\A d \in clis' : ~d.decides) /\ \A k \in jobs' : ~Once(k)'
    <3>1. j = n
      BY <1>1, <2>3 DEF Starter, Rerouting
    <3> QED
      BY <1>1, <1>7, <2>3, <3>1
  <2> QED
    BY <2>1, <2>2, <2>3 DEF HandedOnce, Once, Idle
<1>9. Held'
  <2> SUFFICES ASSUME live'.held
               PROVE  /\ \A k \in jobs' : ~Once(k)'
                      /\ \A d \in clis' : \E j \in jobs' : j.at = "install" /\ j.cli = d.id
    BY DEF Held, Once
  <2>1. \A k \in jobs' : ~Once(k)'
    BY <1>7 DEF Ongoing, Held
  <2>2. \A d \in clis' : \E j \in jobs' : j.at = "install" /\ j.cli = d.id
    BY <1>1 DEF Ongoing, Held, Passes
  <2> QED
    BY <2>1, <2>2
<1>10. FirstMessage'
  BY <1>1, <1>2 DEF Ongoing, FirstMessage, Idle
<1> QED
  BY <1>3, <1>4, <1>5, <1>6, <1>8, <1>9, <1>10 DEF Ongoing

LEMMA StepInductive ==
    ASSUME Inductive, Always', Steady' => Steady, Ongoing /\ Steady' => Ongoing'
    PROVE  Inductive'
BY DEF Inductive

(* Where no starter works, a session of a steady task is the task's. *)
LEMMA LiveSession ==
    ASSUME Ongoing, \A k \in jobs : ~Starter(k)
    PROVE  \A c \in clis : c.id = live.cli
BY DEF Ongoing, Followed, ClosedFor

LEMMA InductiveHandOff ==
    ASSUME Typed, Typed', Inductive, Steady' => Steady, NEW j \in jobs, HandOff(j)
    PROVE  Inductive'
<1>0. j \in JobType /\ live \in LiveType /\ Always
  BY DEF Typed, TypedJobs, TypedLive, Inductive
<1>1. UNCHANGED <<task, known, clis, started>> /\ j.at \in {"handOff", "replaceClose"}
      /\ (j.at = "handOff" => RerouteFree) /\ (j.at = "replaceClose" => CliOf(j.cli) = {})
  BY DEF HandOff, AtEnd
<1>2. \A k \in jobs \ {j} : ~k.lock /\ ~Starter(k)
  <2>1. j.at = "replaceClose" => j.lock /\ Starter(j)
    BY <1>0 DEF Always, Locked, Rerouting, Starter
  <2>2. j.at = "handOff" => j.at \notin Apart /\ ~j.lock
    BY <1>1 DEF Apart, Stopping, RerouteFree
  <2> QED
    BY <1>0, <1>1, <2>1, <2>2, LockTaken
<1>3. \A c \in clis : ~ClosedFor(c, j)
  <2>1. j.at = "handOff" => \A c \in clis : ~ClosedFor(c, j)
    BY DEF ClosedFor, Starter, Pending, Rerouting
  <2> QED
    BY <1>1, <2>1, Unclosed
<1>4. CASE Replace(j, {}) /\ UNCHANGED live
  <2>1. Harmless({j}, 0)
    BY <1>1, <1>3, <1>4, DropHarmless DEF Replace
  <2> QED
    BY <2>1, HarmlessStep
<1>5. CASE Replace(j, {[Job("fail", 0) EXCEPT !.lock = TRUE, !.watch = j.watch]}) /\ UNCHANGED live
  <2> DEFINE n == [Job("fail", 0) EXCEPT !.lock = TRUE, !.watch = j.watch]
  <2>1. n.at = "fail" /\ n.from = 0 /\ n.cli = 0
    BY DEF Job
  <2>2. jobs' = (jobs \ {j}) \union {n}
    BY <1>5 DEF Replace
  <2> HIDE DEF n
  <2>3. Joins({j}, n)
    BY <1>0, <1>2, <2>1 DEF Joins, Starter, Pending, Rerouting, Marks, LiveType
  <2>4. Harmless({j}, n)
    BY <1>1, <1>3, <1>5, <2>1, <2>2, <2>3, DropHarmless
  <2> QED
    BY <2>4, HarmlessStep
<1>6. CASE /\ Detach(j, "handOffClose") /\ task.state \notin Final /\ task.open
           /\ ~(j.end = "error" /\ task.errors + 1 >= ErrorHandoffs)
           /\ j.at = "handOff" => live.generation = j.from
  <2>1. /\ live'.cli = 0 /\ live'.generation = live.generation /\ live'.stopping
        /\ live'.held = live.held
        /\ \E n \in JobType : /\ jobs' = (jobs \ {j}) \union {n}
                              /\ n.at = "handOffClose" /\ n.from = j.from /\ n.cli = live.cli
                              /\ n.end = j.end /\ n.pending = j.pending
                              /\ (n.lock <=> j.lock \/ "handOffClose" \in Rerouting)
    BY <1>6, DetachStep DEF Steps
  <2>2. PICK n \in JobType : /\ jobs' = (jobs \ {j}) \union {n}
                             /\ n.at = "handOffClose" /\ n.from = j.from /\ n.cli = live.cli
                             /\ n.end = j.end /\ n.lock
    BY <2>1 DEF Rerouting
  <2>3. n.from = live.generation
    BY <1>0, <1>1, <1>6, <2>2 DEF Always, Decisions
  <2>4. Starter(n)
    BY <2>2 DEF Starter, Rerouting
  <2>5. Passes({j}, n)
    BY <1>0, <1>1, <1>2, <2>1, <2>2, <2>3 DEF Passes, Always, Generations, LiveType
  <2>6. Always'
    <3>1. task.errors < ErrorHandoffs /\ (n.end = "error" => task.errors + 1 < ErrorHandoffs)
      BY <1>0, <1>6, <2>2, WorkerAssumption DEF Always, Errors, Typed, TypedTask, TaskType
    <3>2. task.wait => ~task.open
      BY <1>0 DEF Always, Bare
    <3> QED
      BY <1>0, <1>1, <1>2, <2>2, <2>5, <3>1, <3>2, PassesAlways
  <2>7. ASSUME Ongoing PROVE Ongoing'
    <3>1. \A c \in clis : c.id = n.cli
      <4>1. CASE j.at = "handOff"
        <5>1. ~Starter(j)
          BY <4>1 DEF Starter, Pending, Rerouting
        <5> QED
          BY <1>2, <2>2, <2>7, <5>1, LiveSession
      <4>2. CASE j.at = "replaceClose"
        BY <1>0, <1>3, <2>7, <4>2, NoSession DEF Starter, Rerouting
      <4> QED
        BY <1>1, <4>1, <4>2
    <3>2. task.wait => task.state = "Paused" /\ \A k \in jobs : k.at # "mark"
      BY <2>7 DEF Ongoing, Waiting
    <3> QED
      BY <1>0, <1>1, <1>2, <1>6, <2>1, <2>2, <2>4, <2>5, <2>7, <3>1, <3>2, PassesSteady
         DEF Pending, Closing, Rerouting
  <2> QED
    BY <2>6, <2>7, StepInductive
<1> QED
  BY <1>4, <1>5, <1>6 DEF HandOff

LEMMA InductiveEndAttempt ==
    ASSUME Typed, Typed', Inductive, Steady' => Steady, NEW j \in jobs, EndAttempt(j)
    PROVE  Inductive'
<1>0. j \in JobType /\ live \in LiveType /\ task \in TaskType /\ Always
  BY DEF Typed, TypedJobs, TypedLive, TypedTask, Inductive
<1> DEFINE n == [j EXCEPT !.at = "continue", !.from = 0, !.cli = 0, !.end = "none", !.pending = FALSE]
<1>1. UNCHANGED <<known, clis, started>> /\ j.at = "handOffClose" /\ CliOf(j.cli) = {}
      /\ jobs' = (jobs \ {j}) \union {n} /\ \A k \in jobs : k.at # "mark"
  BY DEF EndAttempt, AtEnd, Onwards, Replace
<1>2. n.at = "continue" /\ n.from = 0 /\ n.cli = 0 /\ n.lock = j.lock /\ ~n.pending
  BY <1>0 DEF JobType
<1>3. live'.cli = live.cli /\ live'.generation = live.generation /\ live'.held = live.held
  BY <1>0 DEF EndAttempt, LiveType
<1>4. /\ ~task'.open /\ task'.wait = task.wait /\ task'.state = task.state
      /\ task'.errors = IF task.open /\ j.end = "error" THEN task.errors + 1 ELSE task.errors
  BY <1>0 DEF EndAttempt, TaskType
<1> HIDE DEF n
<1>5. j.lock /\ Starter(j)
  BY <1>0, <1>1 DEF Always, Locked, Starter, Rerouting
<1>6. \A k \in jobs \ {j} : ~k.lock /\ ~Starter(k)
  BY <1>0, <1>5, LockTaken
<1>7. Starter(n)
  BY <1>2, <1>5 DEF Starter
<1>8. Passes({j}, n)
  BY <1>0, <1>1, <1>2, <1>3, <1>5, <1>6 DEF Passes, Pending, Rerouting, LiveType
<1>9. Always'
  <2>1. task'.errors < ErrorHandoffs
    BY <1>0, <1>1, <1>4 DEF Always, Errors
  <2> QED
    BY <1>0, <1>2, <1>4, <1>5, <1>6, <1>8, <2>1, PassesAlways
<1>10. ASSUME Ongoing PROVE Ongoing'
  <2>1. clis = {} /\ live.cli = 0
    BY <1>0, <1>1, <1>5, <1>10, NoSession, Unclosed
  <2>2. task.state \notin Final /\ (task.wait => task.state = "Paused")
    BY <1>10 DEF Ongoing, Opened, Waiting
  <2> QED
    BY <1>0, <1>1, <1>2, <1>3, <1>4, <1>5, <1>6, <1>7, <1>8, <1>10, <2>1, <2>2, PassesSteady DEF Attempting, Pending
<1> QED
  BY <1>9, <1>10, StepInductive

LEMMA InductiveContinue ==
    ASSUME Typed, Typed', Inductive, Steady' => Steady, NEW j \in jobs, Continue(j)
    PROVE  Inductive'
<1>0. j \in JobType /\ live \in LiveType /\ live.generation \in Nat /\ Always
  BY DEF Typed, TypedJobs, TypedLive, Inductive, LiveType
<1>1. UNCHANGED <<task, live, known, clis, started>> /\ j.at = "continue" /\ (j.lock \/ RerouteFree)
  BY DEF Continue
<1>2. \A c \in clis : ~ClosedFor(c, j)
  BY <1>1 DEF ClosedFor, Closing, Rerouting
<1>3. CASE Replace(j, {}) /\ (task.state \in Final \/ task.open)
  <2>1. Ongoing => task.open
    BY <1>3 DEF Ongoing, Opened
  <2>2. Harmless({j}, 0)
    BY <1>1, <1>2, <1>3, <2>1, DropHarmless DEF Replace
  <2> QED
    BY <2>2, HarmlessStep
<1>4. CASE Replace(j, {[j EXCEPT !.at = "routed", !.lock = TRUE]}) /\ task.state \notin Final /\ ~task.open
  <2> DEFINE n == [j EXCEPT !.at = "routed", !.lock = TRUE]
  <2>1. n.at = "routed" /\ n.from = j.from /\ n.cli = j.cli /\ n.lock /\ n.pending = j.pending
    BY <1>0 DEF JobType
  <2>2. jobs' = (jobs \ {j}) \union {n}
    BY <1>4 DEF Replace
  <2> HIDE DEF n
  <2>3. \A k \in jobs \ {j} : ~k.lock /\ ~Starter(k)
    BY <1>0, <1>1, LockTaken DEF Apart, Stopping, Starter
  <2>4. j.from <= live.generation /\ Starter(n)
    BY <1>0, <2>1 DEF Always, Decisions, Starter
  <2>5. j.cli <= live.generation
    BY <1>0, <1>1 DEF Always, Numbers
  <2>6. Passes({j}, n)
    BY <1>0, <1>1, <2>1, <2>2, <2>3, <2>4, <2>5 DEF Passes, Pending, Rerouting
  <2>7. Always'
    <3>1. task.errors < ErrorHandoffs
      BY <1>0 DEF Always, Errors
    <3> QED
      BY <1>0, <1>1, <1>4, <2>1, <2>3, <2>6, <3>1, PassesAlways
  <2>8. ASSUME Ongoing PROVE Ongoing'
    <3>1. live.cli = 0 /\ (task.wait \/ Routing)
      BY <1>4, <2>8 DEF Ongoing, Opened
    <3>2. \A k \in jobs : k.at # "mark"
      BY <2>8, <3>1 DEF Ongoing, Waiting
    <3>3. clis = {}
      BY <1>0, <1>1, <1>2, <2>3, <2>8, <3>1 DEF Ongoing, Followed, ClosedFor, Typed, TypedClis, CliType, Sessions
    <3>4. task.wait => task.state = "Paused"
      BY <2>8 DEF Ongoing, Waiting
    <3> QED
      BY <1>0, <1>1, <1>4, <2>1, <2>3, <2>4, <2>6, <2>8, <3>1, <3>2, <3>3, <3>4, PassesSteady DEF Attempting, Pending
  <2> QED
    BY <2>7, <2>8, StepInductive
<1> QED
  BY <1>3, <1>4 DEF Continue

LEMMA InductiveRouted ==
    ASSUME Typed, Typed', Inductive, Steady' => Steady, NEW j \in jobs, Routed(j)
    PROVE  Inductive'
<1>0. j \in JobType /\ live \in LiveType /\ task \in TaskType /\ Always /\ task.errors < ErrorHandoffs
  BY DEF Typed, TypedJobs, TypedLive, TypedTask, Inductive, Always, Errors
<1>1. UNCHANGED <<known, clis, started>> /\ j.at = "routed"
  BY DEF Routed
<1>2. j.lock /\ Starter(j) /\ ~task.open
  BY <1>0, <1>1 DEF Always, Locked, Bare, Starter
<1>3. \A k \in jobs \ {j} : ~k.lock /\ ~Starter(k)
  BY <1>0, <1>2, LockTaken
<1>4. Ongoing => clis = {} /\ live.cli = 0
  BY <1>0, <1>1, <1>2, NoSession DEF ClosedFor, Closing, Rerouting
<1>5. CASE /\ task' = [task EXCEPT !.open = TRUE, !.state = "Running", !.wait = FALSE]
           /\ live' = [live EXCEPT !.stopping = FALSE, !.busy = FALSE]
           /\ Become(j, "launch")
  <2> DEFINE n == [j EXCEPT !.at = "launch"]
  <2>1. n.at = "launch" /\ n.from = j.from /\ n.cli = j.cli /\ n.lock /\ jobs' = (jobs \ {j}) \union {n}
    BY <1>0, <1>2, <1>5 DEF JobType, Become, Replace
  <2>2. /\ task'.open /\ task'.state = "Running" /\ ~task'.wait /\ task'.errors = task.errors
        /\ live'.cli = live.cli /\ live'.generation = live.generation /\ live'.held = live.held
    BY <1>0, <1>5 DEF TaskType, LiveType
  <2> HIDE DEF n
  <2>3. n.from <= live.generation /\ n.cli <= live.generation
    BY <1>0, <1>1, <2>1 DEF Always, Decisions, Numbers
  <2>4. Passes({j}, n)
    BY <1>1, <1>3, <2>1, <2>2, <2>3 DEF Passes, Pending, Rerouting
  <2>5. Always'
    BY <1>0, <1>3, <2>1, <2>2, <2>4, PassesAlways
  <2>6. ASSUME Ongoing PROVE Ongoing'
    <3>1. Starter(n)
      BY <2>1 DEF Starter
    <3> QED
      BY <1>0, <1>3, <1>4, <2>1, <2>2, <2>4, <2>6, <3>1, PassesSteady DEF Final
  <2> QED
    BY <2>5, <2>6, StepInductive
<1>6. CASE task' = [task EXCEPT !.state = "Paused", !.wait = TRUE] /\ Replace(j, {}) /\ UNCHANGED live
  <2>1. /\ jobs' = jobs \ {j} /\ task'.wait /\ ~task'.open /\ task'.state = "Paused"
        /\ task'.errors = task.errors /\ \A k \in jobs' : ~Starter(k)
    BY <1>0, <1>2, <1>3, <1>6 DEF Replace, TaskType
  <2>2. (OneLock /\ Locked /\ Alone)'
    BY <1>0, <1>6, <2>1 DEF Always, OneLock, Locked, Alone, Starter, Pending
  <2>3. (Generations /\ Decisions)'
    BY <1>0, <1>1, <1>6, <2>1 DEF Always, Generations, Decisions, Pending
  <2>4. (Numbers /\ Unread)'
    BY <1>0, <1>1, <1>6, <2>1 DEF Always, Numbers, Unread, Idle
  <2>5. (Gone /\ Errors /\ Bare)'
    BY <1>0, <1>1, <1>6, <2>1 DEF Always, Gone, Errors, Bare
  <2>6. Always'
    BY <2>2, <2>3, <2>4, <2>5 DEF Always
  <2>7. ASSUME Ongoing PROVE Ongoing'
    <3>1. clis' = {} /\ live'.cli = 0 /\ live' = live
      BY <1>1, <1>4, <1>6, <2>7
    <3>2. (Followed /\ Turns)'
      BY <2>1, <3>1 DEF Followed, Turns, Starter, Pending
    <3>3. Opened'
      BY <2>1, <3>1 DEF Opened, Attempting, Final, Starter, Pending, Rerouting
    <3>4. Routing
      BY <1>1, <1>2 DEF Routing
    <3>5. Waiting'
      BY <2>1, <2>7, <3>4 DEF Ongoing, Waiting
    <3>6. HandedOnce'
      BY <2>1, <2>7, <3>1 DEF Ongoing, HandedOnce, Once, Starter, Rerouting
    <3>7. (Held /\ FirstMessage)'
      BY <2>1, <2>7, <3>1 DEF Ongoing, Held, FirstMessage, Once
    <3> QED
      BY <3>2, <3>3, <3>5, <3>6, <3>7 DEF Ongoing
  <2> QED
    BY <2>6, <2>7, StepInductive
<1> QED
  BY <1>5, <1>6 DEF Routed

(* A job that could not start its session fails the task, or its caller.   *)
LEMMA FailingHarmless ==
    ASSUME Typed, Inductive, NEW j \in jobs, j.at \in {"launch", "send"},
           UNCHANGED <<task, live, known, clis, started>>, Replace(j, Failing(j))
    PROVE  \E n : Harmless({j}, n)
<1>0. j \in JobType /\ live \in LiveType /\ Always
  BY DEF Typed, TypedJobs, TypedLive, Inductive
<1> DEFINE n == [Job("fail", 0) EXCEPT !.lock = j.lock, !.watch = j.watch]
<1>1. n.at = "fail" /\ n.from = 0 /\ n.cli = 0 /\ n.lock = j.lock
  BY DEF Job
<1>2. jobs' = jobs \ {j} \/ jobs' = (jobs \ {j}) \union {n}
  BY DEF Replace, Failing
<1> HIDE DEF n
<1>3. n.lock => \A k \in jobs \ {j} : ~k.lock
  BY <1>0, <1>1 DEF Always, OneLock
<1>4. (n.at \in Apart /\ ~n.lock) \/ \A u \in jobs \ {j} : Starter(u) => u.lock
  <2>1. ASSUME j.lock, NEW u \in jobs \ {j}, Starter(u), ~u.lock PROVE FALSE
    BY <1>0, <2>1 DEF Always, Alone, Unlocked
  <2> QED
    BY <1>0, <1>1, <2>1 DEF Apart, JobType
<1>5. Joins({j}, n)
  BY <1>0, <1>1, <1>3, <1>4 DEF Joins, Starter, Pending, Rerouting, Marks, LiveType
<1>6. \A c \in clis : ~ClosedFor(c, j)
  BY DEF ClosedFor, Closing, Rerouting, Stopping
<1>7. Harmless({j}, n)
  BY <1>1, <1>2, <1>5, <1>6, DropHarmless
<1> QED
  BY <1>7

LEMMA InductiveLaunch ==
    ASSUME Typed, Typed', Inductive, Steady' => Steady, NEW j \in jobs, Launch(j)
    PROVE  Inductive'
<1>0. /\ j \in JobType /\ jobs \subseteq JobType /\ live \in LiveType /\ task \in TaskType /\ Always
      /\ started \in Nat /\ clis \subseteq CliType
  BY DEF Typed, TypedJobs, TypedLive, TypedTask, TypedClis, Inductive
<1>1. UNCHANGED <<task, live, known>> /\ j.at = "launch"
  BY DEF Launch
<1>2. Starter(j) /\ \A k \in jobs \ {j} : ~Starter(k) /\ k.at # "install"
  <2>1. Starter(j)
    BY <1>1 DEF Starter
  <2>2. \A k \in jobs \ {j} : ~Starter(k)
    BY <1>0, <2>1, OneStarter
  <2> QED
    BY <2>1, <2>2 DEF Starter
<1>3. CASE UNCHANGED <<clis, started>> /\ Replace(j, Failing(j))
  BY <1>1, <1>3, FailingHarmless, HarmlessStep
<1>4. CASE /\ known /\ started' = started + 1 /\ clis' = clis \union {Cli(started + 1)}
           /\ Replace(j, {[j EXCEPT !.at = "install", !.cli = started + 1]})
  <2> DEFINE id == started + 1
             n == [j EXCEPT !.at = "install", !.cli = id]
             d == Cli(id)
  <2>1. n.at = "install" /\ n.from = j.from /\ n.cli = id /\ n.lock = j.lock
    BY <1>0 DEF JobType
  <2>2. jobs' = (jobs \ {j}) \union {n} /\ clis' = clis \union {d} /\ started' = id
    BY <1>4 DEF Replace
  <2>3. d.id = id /\ Idle(d) /\ d.from = 0 /\ ~d.decides /\ d.ended = "none"
    BY DEF Cli, Idle
  <2>4. id \in Nat /\ id > started
    BY <1>0
  <2> HIDE DEF n, d, id
  <2>5. started = live.generation /\ id = live.generation + 1
    BY <1>0, <1>1, <1>2 DEF Always, Generations, id
  <2>6. \A c \in clis : c.id # id
    BY <1>0, <2>4 DEF Always, Numbers, CliType, Sessions
  <2>7. n \in jobs' /\ \A k \in jobs' : k = n \/ (k \in jobs /\ ~Starter(k) /\ k.at # "install")
    BY <1>2, <2>2
  <2>8. (OneLock /\ Locked)'
    BY <1>0, <2>1, <2>2 DEF Always, OneLock, Locked, Rerouting
  <2>9. Alone'
    <3> SUFFICES ASSUME NEW u \in jobs', Starter(u), ~u.lock PROVE Unlocked(u)'
      BY DEF Alone, Starter, Pending, Rerouting
    <3>0. u = n
      BY <2>7
    <3>1. Unlocked(j)
      BY <1>0, <1>2, <2>1, <3>0 DEF Always, Alone
    <3>2. \A c \in clis' : ~c.decides
      BY <2>2, <2>3, <3>1 DEF Unlocked
    <3>3. live.stopping \/ (task.state # "Running" /\ \A c \in clis' : u.at = "install" /\ c.id = u.cli)
      BY <1>1, <2>1, <2>2, <2>3, <3>0, <3>1 DEF Unlocked
    <3>4. \A k \in jobs' \ {u} : k.at \in Apart /\ ~k.lock
      BY <2>2, <3>0, <3>1 DEF Unlocked
    <3> QED
      BY <1>1, <3>1, <3>2, <3>3, <3>4 DEF Unlocked
  <2>10. Generations'
    BY <1>0, <1>1, <2>1, <2>2, <2>5, <2>7 DEF Always, Generations
  <2>11. Decisions'
    <3>1. \A k \in jobs' : k.from <= live.generation
      BY <1>0, <2>1, <2>7 DEF Always, Decisions
    <3>2. \A c \in clis' : c.from <= live.generation
      BY <1>0, <2>2, <2>3 DEF Always, Decisions, LiveType
    <3>3. \A k \in jobs' : k.at \notin {"replaceClose", "stalledClose", "handOffClose", "overClose"}
                           /\ ~Pending(k)
      BY <2>1, <2>7 DEF Starter, Rerouting, Pending
    <3> QED
      BY <1>1, <3>1, <3>2, <3>3 DEF Decisions, Pending
  <2>12. Numbers'
    <3>1. \A c \in clis' : c.id <= started'
      BY <1>0, <2>2, <2>3, <2>4 DEF Always, Numbers, CliType, Sessions
    <3>2. \A c, e \in clis' : c.id = e.id => c = e
      BY <1>0, <2>2, <2>3, <2>6 DEF Always, Numbers
    <3>3. \A k \in jobs' : k.at # "install" => k.cli <= live.generation
      BY <1>0, <2>1, <2>7 DEF Always, Numbers
    <3>4. \A k \in jobs' : k.at \notin Rerouting \union {"messageClose"}
      BY <2>1, <2>7 DEF Starter, Rerouting
    <3> QED
      BY <1>1, <3>1, <3>2, <3>3, <3>4 DEF Numbers
  <2>13. Unread'
    BY <1>0, <2>1, <2>2, <2>3, <2>6, <2>7 DEF Always, Unread, Idle
  <2>14. (Gone /\ Errors /\ Bare)'
    <3>1. Gone' /\ Errors'
      BY <1>0, <1>1, <1>4, <2>1, <2>7 DEF Always, Gone, Errors
    <3>2. Bare'
      BY <1>0, <1>1, <2>1, <2>7 DEF Always, Bare
    <3> QED
      BY <3>1, <3>2
  <2>15. Always'
    BY <2>8, <2>9, <2>10, <2>11, <2>12, <2>13, <2>14 DEF Always
  <2>16. ASSUME Ongoing PROVE Ongoing'
    <3>1. clis = {} /\ live.cli = 0
      BY <1>0, <1>1, <1>2, <2>16, NoSession DEF ClosedFor, Closing, Rerouting, Stopping
    <3>2. clis' = {d}
      BY <2>2, <3>1
    <3>3. Followed'
      BY <1>1, <2>1, <2>3, <2>7, <3>1, <3>2 DEF Followed, ClosedFor, Starter
    <3>4. task.open
      BY <1>1, <2>16 DEF Ongoing, Opened, Attempting
    <3>5. (Opened /\ Waiting)'
      <4>1. ~Routing'
        BY <2>1, <2>7 DEF Routing, Starter
      <4>2. \A k \in jobs' : k.at = "mark" => k \in jobs
        BY <2>1, <2>7
      <4> QED
        BY <1>1, <2>16, <3>4, <4>1, <4>2 DEF Ongoing, Opened, Waiting
    <3>6. Turns'
      BY <2>3, <3>2 DEF Turns
    <3>7. \A k \in jobs' : Once(k)' => k \in jobs /\ Once(k)
      BY <1>1, <2>1, <2>7 DEF Once
    <3>8. HandedOnce'
      <4>1. \A k \in jobs' : Once(k)' => /\ \A c \in clis' : Idle(c)
                                        /\ \A i \in jobs' : i.at \in Marks => i.cli # live'.generation
        BY <1>1, <2>1, <2>3, <2>7, <2>16, <3>2, <3>7 DEF Ongoing, HandedOnce, Marks
      <4>2. \A i, k \in jobs' : Once(i)' /\ Once(k)' => i = k
        BY <2>16, <3>7 DEF Ongoing, HandedOnce
      <4>3. \A k \in jobs' : k.at \notin {"stalledClose", "overClose"}
        BY <2>1, <2>7 DEF Starter, Rerouting
      <4> QED
        BY <4>1, <4>2, <4>3 DEF HandedOnce, Once, Idle
    <3>9. Held'
      BY <1>1, <2>1, <2>3, <2>7, <2>16, <3>2, <3>7 DEF Ongoing, Held, Once
    <3>10. FirstMessage'
      BY <2>1, <2>3, <2>7, <2>16, <3>2 DEF Ongoing, FirstMessage, Marks, Idle
    <3> QED
      BY <3>3, <3>5, <3>6, <3>8, <3>9, <3>10 DEF Ongoing
  <2> QED
    BY <2>15, <2>16, StepInductive
<1> QED
  BY <1>3, <1>4 DEF Launch

LEMMA InductiveInstall ==
    ASSUME Typed, Typed', Inductive, Steady' => Steady, NEW j \in jobs, Install(j)
    PROVE  Inductive'
<1>0. /\ j \in JobType /\ jobs \subseteq JobType /\ live \in LiveType /\ task \in TaskType /\ Always
      /\ started \in Nat /\ clis \subseteq CliType
  BY DEF Typed, TypedJobs, TypedLive, TypedTask, TypedClis, Inductive
<1> DEFINE n == [j EXCEPT !.at = "mark"]
<1>1. UNCHANGED <<task, known, clis, started>> /\ j.at = "install" /\ jobs' = (jobs \ {j}) \union {n}
  BY DEF Install, Become, Replace
<1>2. n.at = "mark" /\ n.from = j.from /\ n.cli = j.cli /\ n.lock = j.lock
  BY <1>0 DEF JobType
<1>3. /\ live'.cli = j.cli /\ live'.generation = live.generation + 1 /\ ~live'.held /\ ~live'.stopping
  BY <1>0 DEF Install, LiveType
<1>4. j.cli = live'.generation /\ started = j.cli /\ live.generation \in Nat
  BY <1>0, <1>1, <1>3 DEF Always, Generations, LiveType
<1> HIDE DEF n
<1>5. n \in jobs' /\ \A k \in jobs' : /\ ~Starter(k) /\ k.at # "install"
                                      /\ k = n \/ (k \in jobs /\ k # j)
  <2>1. Starter(j)
    BY <1>1 DEF Starter
  <2>2. \A k \in jobs \ {j} : ~Starter(k) /\ k.at # "install"
    BY <1>0, <2>1, OneStarter DEF Starter
  <2>3. ~Starter(n) /\ n.at # "install"
    BY <1>2 DEF Starter, Pending, Rerouting
  <2> QED
    BY <1>1, <2>2, <2>3
<1>6. (OneLock /\ Locked /\ Alone)'
  <2>1. OneLock'
    BY <1>0, <1>1, <1>2, <1>5 DEF Always, OneLock
  <2>2. Locked' /\ Alone'
    BY <1>5 DEF Locked, Alone, Starter, Pending
  <2> QED
    BY <2>1, <2>2
<1>7. Generations'
  BY <1>1, <1>3, <1>4, <1>5 DEF Generations
<1>8. \A k \in jobs : k.from < live'.generation /\ (k.at # "install" => k.cli < live'.generation)
  <2> SUFFICES ASSUME NEW k \in jobs
               PROVE  k.from < live'.generation /\ (k.at # "install" => k.cli < live'.generation)
    OBVIOUS
  <2>1. k.from <= live.generation /\ (k.at # "install" => k.cli <= live.generation)
    BY <1>0 DEF Always, Decisions, Numbers
  <2>2. k.from \in Nat /\ k.cli \in Nat
    BY <1>0 DEF JobType
  <2> QED
    BY <1>3, <1>4, <2>1, <2>2
<1>9. Decisions'
  <2>1. \A k \in jobs' : k.from <= live'.generation
    <3>1. n.from \in Nat /\ \A k \in jobs : k.from \in Nat
      BY <1>0, <1>2 DEF JobType
    <3> QED
      BY <1>2, <1>3, <1>4, <1>5, <1>8, <3>1
  <2>2. \A c \in clis' : c.from <= live'.generation
    <3> SUFFICES ASSUME NEW c \in clis PROVE c.from <= live'.generation
      BY <1>1
    <3>1. c.from \in Nat /\ c.from <= live.generation
      BY <1>0 DEF Always, Decisions, CliType
    <3> QED
      BY <1>3, <1>4, <3>1
  <2>3. \A k \in jobs' : k.at \notin {"replaceClose", "stalledClose", "handOffClose", "overClose"}
                         /\ ~Pending(k)
    BY <1>5 DEF Starter, Rerouting
  <2> QED
    BY <2>1, <2>2, <2>3 DEF Decisions, Pending
<1>10. Numbers'
  <2>1. \A k \in jobs' : k.cli <= live'.generation
    <3>1. \A k \in jobs : k.cli \in Nat
      BY <1>0 DEF JobType
    <3> QED
      BY <1>2, <1>3, <1>4, <1>5, <1>8, <3>1
  <2>2. \A k \in jobs' : k.at \notin Rerouting \union {"messageClose"}
    BY <1>5 DEF Starter
  <2> QED
    BY <1>0, <1>1, <2>1, <2>2 DEF Always, Numbers
<1>11. (Unread /\ Gone)'
  BY <1>0, <1>1, <1>5 DEF Always, Unread, Gone
<1>12. (Errors /\ Bare)'
  <2>1. Errors'
    BY <1>0, <1>1, <1>2, <1>5 DEF Always, Errors
  <2>2. Bare'
    BY <1>0, <1>1, <1>2, <1>5 DEF Always, Bare
  <2> QED
    BY <2>1, <2>2
<1>13. Always'
  BY <1>6, <1>7, <1>9, <1>10, <1>11, <1>12 DEF Always
<1>14. ASSUME Ongoing PROVE Ongoing'
  <2>1. \A c \in clis : c.id = j.cli
    <3>1. Starter(j) /\ live.cli = 0
      BY <1>1, <1>14 DEF Starter, Ongoing, Followed
    <3> SUFFICES ASSUME NEW c \in clis PROVE c.id = j.cli
      OBVIOUS
    <3>2. c.id # 0
      BY <1>0 DEF CliType, Sessions
    <3>3. PICK k \in jobs : ClosedFor(c, k)
      BY <1>14, <3>1, <3>2 DEF Ongoing, Followed
    <3> QED
      BY <1>0, <3>1, <3>3, OneStarter DEF ClosedFor
  <2>2. Followed'
    BY <1>1, <1>3, <1>5, <2>1 DEF Followed, Starter, Pending
  <2>3. task.open /\ ~task.wait /\ task.state \notin Final
    BY <1>0, <1>1, <1>14 DEF Ongoing, Opened, Always, Bare, Attempting
  <2>4. Opened'
    BY <1>1, <1>5, <2>3 DEF Opened, Attempting, Starter, Pending, Rerouting
  <2>5. Waiting'
    BY <1>1, <1>5, <2>3 DEF Waiting, Routing, Starter
  <2>6. Turns'
    BY <1>1, <1>14 DEF Ongoing, Turns
  <2>7. \A k \in jobs' : ~Once(k)'
    <3>1. \A k \in jobs' : k.from < live'.generation
      BY <1>2, <1>5, <1>8
    <3>2. \A k \in jobs' : k.from \in Nat
      BY <1>0, <1>2, <1>5 DEF JobType
    <3> QED
      BY <1>3, <1>4, <3>1, <3>2 DEF Once
  <2>8. HandedOnce'
    BY <1>5, <2>7 DEF HandedOnce, Once, Starter, Rerouting
  <2>9. Held'
    BY <1>3 DEF Held
  <2>10. FirstMessage'
    <3>1. \A c \in clis : Idle(c)
      BY <1>0, <1>1, <2>1 DEF Always, Unread
    <3>2. \A k \in jobs' : k # n => k \in jobs /\ k.cli # n.cli
      <4> SUFFICES ASSUME NEW k \in jobs', k # n PROVE k \in jobs /\ k.cli # n.cli
        OBVIOUS
      <4>1. k \in jobs /\ k.cli < live'.generation /\ k.cli \in Nat
        BY <1>0, <1>5, <1>8 DEF JobType
      <4> QED
        BY <1>2, <1>3, <1>4, <4>1
    <3> QED
      BY <1>1, <1>2, <1>5, <1>14, <3>1, <3>2 DEF Ongoing, FirstMessage, Idle
  <2> QED
    BY <2>2, <2>4, <2>5, <2>6, <2>8, <2>9, <2>10 DEF Ongoing
<1> QED
  BY <1>13, <1>14, StepInductive

LEMMA InductiveMark ==
    ASSUME Typed, Typed', Inductive, Steady' => Steady, NEW j \in jobs, Mark(j)
    PROVE  Inductive'
<1>0. j \in JobType /\ live \in LiveType /\ task \in TaskType /\ Always
  BY DEF Typed, TypedJobs, TypedLive, TypedTask, Inductive
<1> DEFINE n == [j EXCEPT !.at = "send"]
<1>1. UNCHANGED <<live, known, clis, started>> /\ j.at = "mark" /\ jobs' = (jobs \ {j}) \union {n}
  BY DEF Mark, Become, Replace
<1>2. n.at = "send" /\ n.from = j.from /\ n.cli = j.cli /\ n.lock = j.lock
  BY <1>0 DEF JobType
<1>3. /\ task'.state = "Running" /\ task'.open = task.open /\ task'.wait = task.wait
      /\ task'.errors = task.errors
  BY <1>0 DEF Mark, TaskType
<1> HIDE DEF n
<1>4. ~Starter(n) /\ ~Starter(j) /\ ~Once(n)
  BY <1>1, <1>2 DEF Starter, Pending, Rerouting, Once
<1>5. \A k \in jobs : Starter(k) => k.lock
  BY <1>0, <1>1, <1>4 DEF Always, Alone, Unlocked, Apart, Stopping
<1>6. Passes({j}, n)
  BY <1>0, <1>1, <1>2, <1>5 DEF Passes, Always, Decisions, Numbers, OneLock, Pending, Rerouting
<1>7. Always'
  <2>1. task'.errors < ErrorHandoffs /\ (task'.wait => ~task'.open)
    BY <1>0, <1>3 DEF Always, Errors, Bare
  <2> QED
    BY <1>0, <1>2, <1>3, <1>4, <1>6, <2>1, PassesAlways
<1>8. ASSUME Ongoing PROVE Ongoing'
  <2>1. \A k \in jobs' : k = n \/ (k \in jobs /\ k # j)
    BY <1>1
  <2>2. Followed'
    <3>1. \A c \in clis : c.id = live.cli \/ \E k \in jobs' : ClosedFor(c, k)
      BY <1>1, <1>4, <1>8 DEF Ongoing, Followed, ClosedFor
    <3>2. (\E k \in jobs' : Starter(k)) => live.cli = 0
      BY <1>4, <1>8, <2>1 DEF Ongoing, Followed
    <3> QED
      BY <1>1, <3>1, <3>2 DEF Followed, ClosedFor, Starter, Pending
  <2>3. ~task.wait /\ ~Routing /\ ~Routing'
    <3>1. ~task.wait /\ ~Routing
      BY <1>1, <1>8 DEF Ongoing, Waiting
    <3> QED
      BY <1>2, <2>1, <3>1 DEF Routing
  <2>4. Opened'
    <3>1. \A k \in jobs' : Attempting(k) => k \in jobs
      BY <1>2, <2>1 DEF Attempting, Pending
    <3>2. task.open
      BY <1>8, <2>3 DEF Ongoing, Opened
    <3> QED
      BY <1>3, <3>2 DEF Opened, Final
  <2>5. (Waiting /\ Turns)'
    BY <1>1, <1>3, <1>8, <2>3 DEF Ongoing, Waiting, Turns
  <2>6. HandedOnce'
    <3>1. \A k \in jobs' : Once(k)' => k \in jobs /\ Once(k)
      BY <1>1, <1>4, <2>1 DEF Once
    <3>2. \A k \in jobs' : Once(k)' => /\ \A c \in clis' : Idle(c)
                                      /\ \A i \in jobs' : i.at \in Marks => i.cli # live'.generation
      BY <1>1, <1>2, <1>8, <2>1, <3>1 DEF Ongoing, HandedOnce, Marks
    <3>3. \A i, k \in jobs' : Once(i)' /\ Once(k)' => i = k
      BY <1>8, <3>1 DEF Ongoing, HandedOnce
    <3>4. ASSUME NEW k \in jobs', k.at \in {"stalledClose", "overClose"}
          PROVE  live'.stopping /\ (\A c \in clis' : ~c.decides) /\ \A i \in jobs' : ~Once(i)'
      BY <1>1, <1>2, <1>8, <2>1, <3>1, <3>4 DEF Ongoing, HandedOnce
    <3> QED
      BY <3>2, <3>3, <3>4 DEF HandedOnce, Once, Idle
  <2>7. Held'
    BY <1>1, <1>4, <1>8, <2>1 DEF Ongoing, Held, Once
  <2>8. FirstMessage'
    BY <1>1, <1>2, <1>8, <2>1 DEF Ongoing, FirstMessage, Marks, Idle
  <2> QED
    BY <2>2, <2>4, <2>5, <2>6, <2>7, <2>8 DEF Ongoing
<1> QED
  BY <1>7, <1>8, StepInductive

LEMMA InductiveSendFirst ==
    ASSUME Typed, Typed', Inductive, Steady' => Steady, NEW j \in jobs, SendFirst(j)
    PROVE  Inductive'
<1>0. /\ j \in JobType /\ live \in LiveType /\ clis \subseteq CliType /\ Always
      /\ live.generation \in Nat /\ j.cli \in Nat
  BY DEF Typed, TypedJobs, TypedLive, TypedClis, Inductive, LiveType, JobType
<1>1. UNCHANGED <<task, live, known, started>> /\ j.at = "send"
  BY DEF SendFirst
<1>2. CASE Replace(j, Failing(j)) /\ UNCHANGED clis
  BY <1>1, <1>2, FailingHarmless, HarmlessStep
<1>3. ASSUME NEW c \in CliOf(j.cli), Send(c), Replace(j, {}) PROVE Inductive'
  <2> DEFINE d == [c EXCEPT !.turn = IF @ = "none" THEN "running" ELSE @]
  <2>0. c \in clis /\ c \in CliType /\ c.id = j.cli /\ c.id # 0 /\ jobs' = jobs \ {j}
    BY <1>0, <1>3 DEF CliOf, Replace, CliType, Sessions
  <2>1. d.id = c.id /\ d.alive = c.alive /\ d.from = c.from /\ d.ended = c.ended /\ d.decides = c.decides
    BY <2>0 DEF CliType
  <2>2. With(c, d)
    BY <1>3 DEF Send
  <2> HIDE DEF d
  <2>3. \A k \in jobs : k.at = "install" => k.cli # c.id
    <3>1. j.cli <= live.generation
      BY <1>0, <1>1 DEF Always, Numbers
    <3> QED
      BY <1>0, <2>0, <3>1 DEF Always, Generations
  <2>4. ASSUME Ongoing PROVE \A k \in jobs : ~Once(k)
    <3>1. c.id = live.generation
      <4>1. CASE c.id = live.cli
        BY <1>0, <2>0, <4>1 DEF Always, Generations
      <4>2. CASE \E k \in jobs : ClosedFor(c, k)
        <5>1. PICK k \in jobs : Starter(k) /\ k.cli = c.id /\ k.at \in Closing \union {"install"}
          BY <4>2 DEF ClosedFor
        <5>2. k.at \in Rerouting \union {"messageClose"}
          BY <2>3, <5>1 DEF Starter, Closing, Pending
        <5> QED
          BY <1>0, <2>0, <5>1, <5>2 DEF Always, Numbers
      <4> QED
        BY <2>0, <2>4, <4>1, <4>2 DEF Ongoing, Followed
    <3> QED
      BY <1>1, <2>0, <2>4, <3>1 DEF Ongoing, HandedOnce, Marks
  <2>5. Spoken(c)
    <3>1. Ongoing => \A k \in jobs' : k.at \in Marks => k.cli # c.id
      BY <1>1, <2>0 DEF Ongoing, FirstMessage, Marks
    <3> QED
      BY <2>0, <2>3, <2>4, <3>1 DEF Spoken
  <2>6. Ongoing => d.ended = "none"
    BY <1>1, <2>0, <2>1 DEF Ongoing, FirstMessage, Marks, Idle
  <2>7. Quieter(c, d)
    BY <1>0, <2>0, <2>1, <2>5, <2>6 DEF Quieter, Always, Decisions, Unread
  <2>8. QuieterClis
    BY <1>0, <2>0, <2>2, <2>7, QuietWith
  <2>9. \A e \in clis' : e.id # 0
    BY <2>8 DEF QuieterClis, Quieter, Typed, TypedClis, CliType, Sessions
  <2>10. \A e \in clis : ~ClosedFor(e, j)
    BY <1>1 DEF ClosedFor, Closing, Rerouting, Stopping
  <2>11. Harmless({j}, 0)
    BY <1>1, <2>0, <2>8, <2>9, <2>10 DEF Harmless, Aside
  <2> QED
    BY <2>11, HarmlessStep
<1> QED
  BY <1>2, <1>3 DEF SendFirst

LEMMA InductiveHandOver ==
    ASSUME Typed, Typed', Inductive, Steady' => Steady, NEW j \in jobs, HandOver(j)
    PROVE  Inductive'
<1>0. j \in JobType /\ live \in LiveType /\ Always /\ task.errors < ErrorHandoffs
      /\ (task.wait => ~task.open) /\ live.generation \in Nat
  BY DEF Typed, TypedJobs, TypedLive, Inductive, Always, Errors, Bare, LiveType
<1>1. UNCHANGED <<task, known, started>> /\ j.at \in {"handOver", "stalledClose"}
      /\ (j.at = "handOver" => RerouteFree /\ ~j.lock) /\ (j.at = "stalledClose" => CliOf(j.cli) = {})
  BY DEF HandOver, AtEnd, RerouteFree
<1>2. \A k \in jobs \ {j} : ~k.lock /\ ~Starter(k)
  <2>1. j.at = "stalledClose" => j.lock /\ Starter(j)
    BY <1>0 DEF Always, Locked, Rerouting, Starter
  <2>2. j.at = "handOver" => j.at \notin Apart
    BY DEF Apart, Stopping
  <2> QED
    BY <1>0, <1>1, <2>1, <2>2, LockTaken
<1>3. \A c \in clis : ~ClosedFor(c, j)
  <2>1. j.at = "handOver" => \A c \in clis : ~ClosedFor(c, j)
    BY DEF ClosedFor, Closing, Rerouting, Stopping
  <2> QED
    BY <1>1, <2>1, Unclosed
<1>4. j.at = "stalledClose" \/ Pending(j) => j.from = live.generation /\ Starter(j) /\ Attempting(j)
  BY <1>0 DEF Always, Decisions, Starter, Rerouting, Attempting
<1>5. ASSUME Ongoing PROVE task.open \/ task.wait
  <2>1. ~Routing
    BY <1>1, <1>2 DEF Routing, Starter
  <2> QED
    BY <1>5, <2>1 DEF Ongoing, Opened
<1>6. CASE Replace(j, {}) /\ UNCHANGED <<live, clis>>
  <2>1. Harmless({j}, 0)
    BY <1>1, <1>3, <1>6, DropHarmless DEF Replace
  <2> QED
    BY <2>1, HarmlessStep
<1>7. CASE /\ live.generation = j.from /\ live.held
           /\ live' = [live EXCEPT !.held = FALSE]
           /\ Replace(j, {[Job("fresh", 0) EXCEPT !.lock = TRUE, !.caller = j.caller, !.watch = j.watch]})
           /\ UNCHANGED clis
  <2> DEFINE n == [Job("fresh", 0) EXCEPT !.lock = TRUE, !.caller = j.caller, !.watch = j.watch]
  <2>1. n.at = "fresh" /\ n.from = 0 /\ n.cli = 0 /\ n.lock /\ jobs' = (jobs \ {j}) \union {n}
    BY <1>7 DEF Job, Replace
  <2>2. live'.cli = live.cli /\ live'.generation = live.generation /\ ~live'.held
    BY <1>0, <1>7 DEF LiveType
  <2> HIDE DEF n
  <2>3. Passes({j}, n)
    BY <1>0, <1>1, <1>2, <1>7, <2>1, <2>2 DEF Passes, Pending, Rerouting
  <2>4. Always'
    BY <1>0, <1>1, <1>2, <2>1, <2>3, PassesAlways
  <2>5. ASSUME Ongoing PROVE Ongoing'
    <3>1. j.at = "stalledClose" \/ Pending(j)
      BY <1>1, <1>7, <2>5 DEF Ongoing, Held, Once, Pending
    <3>2. clis = {} /\ live.cli = 0
      BY <1>0, <1>3, <1>4, <2>5, <3>1, NoSession
    <3>3. task.open /\ task.state \notin Final
      BY <1>4, <2>5, <3>1 DEF Ongoing, Opened
    <3>4. Starter(n)
      BY <2>1 DEF Starter
    <3> QED
      BY <1>0, <1>1, <1>2, <2>1, <2>2, <2>3, <2>5, <3>2, <3>3, <3>4, PassesSteady
  <2> QED
    BY <2>4, <2>5, StepInductive
<1>8. CASE /\ live.generation = j.from /\ ~live.held /\ task.state \notin Final
           /\ Detach(j, "overClose") /\ UNCHANGED clis
  <2>1. /\ live'.cli = 0 /\ live'.generation = live.generation /\ live'.stopping
        /\ live'.held = live.held
        /\ \E n \in JobType : /\ jobs' = (jobs \ {j}) \union {n}
                              /\ n.at = "overClose" /\ n.from = j.from /\ n.cli = live.cli
                              /\ n.end = j.end /\ n.pending = j.pending
                              /\ (n.lock <=> j.lock \/ "overClose" \in Rerouting)
    BY <1>8, DetachStep DEF Steps
  <2>2. PICK n \in JobType : /\ jobs' = (jobs \ {j}) \union {n}
                             /\ n.at = "overClose" /\ n.from = j.from /\ n.cli = live.cli
                             /\ n.pending = j.pending /\ n.lock
    BY <2>1 DEF Rerouting
  <2>3. Starter(n)
    BY <2>2 DEF Starter, Rerouting
  <2>4. Passes({j}, n)
    BY <1>0, <1>1, <1>2, <1>8, <2>1, <2>2 DEF Passes, Always, Generations
  <2>5. Always'
    BY <1>0, <1>1, <1>2, <2>2, <2>4, PassesAlways
  <2>6. ASSUME Ongoing PROVE Ongoing'
    <3>1. \A c \in clis : c.id = n.cli
      <4>1. CASE Starter(j)
        BY <1>0, <1>3, <2>6, <4>1, NoSession
      <4>2. CASE ~Starter(j)
        BY <1>2, <2>2, <2>6, <4>2, LiveSession
      <4> QED
        BY <4>1, <4>2
    <3>2. Attempting(n) => task.open
      <4>1. Attempting(n) => Attempting(j)
        BY <1>1, <2>2 DEF Attempting, Pending
      <4> QED
        BY <2>6, <4>1 DEF Ongoing, Opened
    <3>3. (\A c \in clis : ~c.decides) /\ \A k \in jobs \ {j} : ~Once(k)
      <4>1. CASE Once(j)
        BY <2>6, <4>1 DEF Ongoing, HandedOnce, Idle
      <4>2. CASE j.at = "stalledClose"
        BY <2>6, <4>2 DEF Ongoing, HandedOnce
      <4>3. CASE Pending(j)
        <5>1. Unlocked(j)
          BY <1>0, <1>1, <1>4, <4>3 DEF Always, Alone, Pending
        <5> QED
          BY <5>1 DEF Unlocked, Once, Apart, Stopping
      <4> QED
        BY <1>1, <1>8, <4>1, <4>2, <4>3 DEF Once, Pending
    <3>4. task.wait => task.state = "Paused" /\ \A k \in jobs : k.at # "mark"
      BY <2>6 DEF Ongoing, Waiting
    <3>5. n.at \in Closing /\ n.at \notin {"continue", "routed"}
      BY <2>2 DEF Closing, Rerouting
    <3> QED
      BY <1>0, <1>1, <1>2, <1>5, <1>8, <2>1, <2>2, <2>3, <2>4, <2>6, <3>1, <3>2, <3>3, <3>4, <3>5,
         PassesSteady
  <2> QED
    BY <2>5, <2>6, StepInductive
<1>9. ASSUME live.generation # j.from PROVE Replace(j, {}) /\ UNCHANGED <<live, clis>>
  <2>1. ~j.pending
    BY <1>1, <1>4, <1>9 DEF Pending
  <2> QED
    BY <1>9, <2>1 DEF HandOver
<1> QED
  BY <1>6, <1>7, <1>8, <1>9 DEF HandOver

LEMMA InductiveHandedOver ==
    ASSUME Typed, Typed', Inductive, Steady' => Steady, NEW j \in jobs, HandedOver(j)
    PROVE  Inductive'
<1>0. j \in JobType /\ live \in LiveType /\ Always /\ task.errors < ErrorHandoffs
      /\ (task.wait => ~task.open) /\ live.generation \in Nat
  BY DEF Typed, TypedJobs, TypedLive, Inductive, Always, Errors, Bare, LiveType
<1>1. UNCHANGED <<task, known, clis, started>> /\ j.at = "overClose" /\ CliOf(j.cli) = {}
  BY DEF HandedOver, AtEnd
<1>2. j.lock /\ Starter(j)
  BY <1>0, <1>1 DEF Always, Locked, Starter, Rerouting
<1>3. \A k \in jobs \ {j} : ~k.lock /\ ~Starter(k)
  BY <1>0, <1>2, LockTaken
<1>4. \A c \in clis : ~ClosedFor(c, j)
  BY <1>1, Unclosed
<1>5. Ongoing => clis = {} /\ live.cli = 0
  BY <1>0, <1>2, <1>4, NoSession
<1>6. ~Routing
  BY <1>1, <1>3 DEF Routing, Starter
<1>7. CASE Replace(j, {}) /\ UNCHANGED live
  <2>1. Harmless({j}, 0)
    BY <1>1, <1>4, <1>7, DropHarmless DEF Replace
  <2> QED
    BY <2>1, HarmlessStep
<1>8. CASE live' = [live EXCEPT !.held = TRUE] /\ Replace(j, {})
  <2>1. /\ jobs' = jobs \ {j} /\ live'.cli = live.cli /\ live'.generation = live.generation
        /\ live'.stopping = live.stopping
    BY <1>0, <1>8 DEF Replace, LiveType
  <2>2. Aside({j}, 0)
    BY <1>0, <1>1, <2>1, QuietSame DEF Aside
  <2>3. Always'
    BY <1>0, <1>1, <2>2, AsideAlways DEF Always, Gone
  <2>4. ASSUME Ongoing PROVE Ongoing'
    <3>1. \A k \in jobs' : k \in jobs /\ ~Starter(k)
      BY <1>3, <2>1
    <3>2. (Followed /\ Turns)'
      BY <1>1, <1>5, <2>4, <3>1 DEF Followed, Turns, Starter, Pending
    <3>3. Opened'
      BY <1>1, <1>5, <1>6, <2>1, <2>4, <3>1 DEF Ongoing, Opened, Attempting, Starter, Pending, Rerouting
    <3>4. Waiting'
      BY <1>1, <2>4, <3>1 DEF Ongoing, Waiting, Routing, Starter
    <3>5. \A k \in jobs' : ~Once(k)'
      BY <1>1, <2>1, <2>4, <3>1 DEF Ongoing, HandedOnce, Once
    <3>6. HandedOnce'
      BY <3>1, <3>5 DEF HandedOnce, Once, Starter, Rerouting
    <3>7. (Held /\ FirstMessage)'
      BY <1>1, <1>5, <2>1, <2>4, <3>1, <3>5 DEF Ongoing, Held, FirstMessage, Once
    <3> QED
      BY <3>2, <3>3, <3>4, <3>6, <3>7 DEF Ongoing
  <2> QED
    BY <2>3, <2>4, StepInductive
<1>9. CASE /\ task.state \notin Final /\ ~(task.state = "Paused" /\ ~j.pending)
           /\ Onwards(j, "fresh") /\ UNCHANGED live
  <2> DEFINE n == [j EXCEPT !.at = "fresh", !.from = 0, !.cli = 0, !.end = "none", !.pending = FALSE]
  <2>1. n.at = "fresh" /\ n.from = 0 /\ n.cli = 0 /\ n.lock /\ jobs' = (jobs \ {j}) \union {n}
    BY <1>0, <1>2, <1>9 DEF JobType, Onwards, Replace
  <2> HIDE DEF n
  <2>2. Passes({j}, n)
    BY <1>0, <1>1, <1>3, <1>9, <2>1 DEF Passes, Pending, Rerouting
  <2>3. Always'
    BY <1>0, <1>1, <1>3, <2>1, <2>2, PassesAlways
  <2>4. ASSUME Ongoing PROVE Ongoing'
    <3>1. task.open
      <4>1. CASE j.pending
        BY <1>1, <2>4, <4>1 DEF Ongoing, Opened, Attempting
      <4>2. CASE ~j.pending
        BY <1>6, <1>9, <2>4, <4>2 DEF Ongoing, Opened, Waiting
      <4> QED
        BY <4>1, <4>2
    <3>2. Starter(n)
      BY <2>1 DEF Starter
    <3> QED
      BY <1>0, <1>1, <1>3, <1>5, <1>9, <2>1, <2>2, <2>4, <3>1, <3>2, PassesSteady
  <2> QED
    BY <2>3, <2>4, StepInductive
<1> QED
  BY <1>7, <1>8, <1>9 DEF HandedOver

LEMMA InductiveFresh ==
    ASSUME Typed, Typed', Inductive, Steady' => Steady, NEW j \in jobs, Fresh(j)
    PROVE  Inductive'
<1>0. j \in JobType /\ live \in LiveType /\ Always /\ task.errors < ErrorHandoffs
      /\ (task.wait => ~task.open)
  BY DEF Typed, TypedJobs, TypedLive, Inductive, Always, Errors, Bare
<1>1. UNCHANGED <<task, known, clis, started>> /\ j.at = "fresh"
  BY DEF Fresh
<1>2. j.lock /\ Starter(j)
  BY <1>0, <1>1 DEF Always, Locked, Starter
<1>3. \A k \in jobs \ {j} : ~k.lock /\ ~Starter(k)
  BY <1>0, <1>2, LockTaken
<1>4. \A c \in clis : ~ClosedFor(c, j)
  BY <1>1 DEF ClosedFor, Closing, Rerouting, Stopping
<1>5. CASE Replace(j, {}) /\ UNCHANGED live
  <2>1. Harmless({j}, 0)
    BY <1>1, <1>4, <1>5, DropHarmless DEF Replace
  <2> QED
    BY <2>1, HarmlessStep
<1>6. CASE /\ task.state \notin Final /\ live' = [live EXCEPT !.stopping = FALSE, !.busy = FALSE]
           /\ Become(j, "launch")
  <2> DEFINE n == [j EXCEPT !.at = "launch"]
  <2>1. n.at = "launch" /\ n.from = j.from /\ n.cli = j.cli /\ n.lock /\ jobs' = (jobs \ {j}) \union {n}
    BY <1>0, <1>2, <1>6 DEF JobType, Become, Replace
  <2>2. live'.cli = live.cli /\ live'.generation = live.generation /\ live'.held = live.held
    BY <1>0, <1>6 DEF LiveType
  <2> HIDE DEF n
  <2>3. Passes({j}, n)
    BY <1>0, <1>1, <1>3, <2>1, <2>2 DEF Passes, Always, Decisions, Numbers, Pending, Rerouting
  <2>4. Always'
    BY <1>0, <1>1, <1>3, <2>1, <2>3, PassesAlways
  <2>5. ASSUME Ongoing PROVE Ongoing'
    <3>1. clis = {} /\ live.cli = 0
      BY <1>0, <1>2, <1>4, <2>5, NoSession
    <3>2. task.open
      BY <1>1, <2>5 DEF Ongoing, Opened, Attempting
    <3>3. Starter(n)
      BY <2>1 DEF Starter
    <3> QED
      BY <1>0, <1>1, <1>3, <1>6, <2>1, <2>2, <2>3, <2>5, <3>1, <3>2, <3>3, PassesSteady
  <2> QED
    BY <2>4, <2>5, StepInductive
<1> QED
  BY <1>5, <1>6 DEF Fresh

LEMMA InductiveRestarted ==
    ASSUME Typed, Typed', Inductive, Steady' => Steady, NEW j \in jobs, Restarted(j)
    PROVE  Inductive'
<1>0. j \in JobType /\ live \in LiveType /\ Always /\ task.errors < ErrorHandoffs
      /\ (task.wait => ~task.open) /\ live.generation \in Nat
  BY DEF Typed, TypedJobs, TypedLive, Inductive, Always, Errors, Bare, LiveType
<1> DEFINE n == [j EXCEPT !.at = "launch", !.cli = 0, !.new = FALSE]
<1>1. UNCHANGED <<task, live, known, clis, started>> /\ j.at = "restartClose" /\ CliOf(j.cli) = {}
      /\ jobs' = (jobs \ {j}) \union {n}
  BY DEF Restarted, AtEnd, Replace
<1>2. j.lock /\ Starter(j)
  BY <1>0, <1>1 DEF Always, Locked, Starter, Rerouting
<1>3. \A k \in jobs \ {j} : ~k.lock /\ ~Starter(k)
  BY <1>0, <1>2, LockTaken
<1>4. n.at = "launch" /\ n.from = j.from /\ n.cli = 0 /\ n.lock
  BY <1>0, <1>2 DEF JobType
<1> HIDE DEF n
<1>5. Passes({j}, n)
  BY <1>0, <1>1, <1>3, <1>4 DEF Passes, Always, Decisions, Pending, Rerouting
<1>6. Always'
  BY <1>0, <1>1, <1>3, <1>4, <1>5, PassesAlways
<1>7. ASSUME Ongoing PROVE Ongoing'
  <2>1. clis = {} /\ live.cli = 0
    BY <1>0, <1>1, <1>2, <1>7, NoSession, Unclosed
  <2>2. task.open /\ task.state \notin Final
    BY <1>1, <1>7 DEF Ongoing, Opened, Attempting
  <2>3. Starter(n)
    BY <1>4 DEF Starter
  <2> QED
    BY <1>0, <1>1, <1>3, <1>4, <1>5, <1>7, <2>1, <2>2, <2>3, PassesSteady
<1> QED
  BY <1>6, <1>7, StepInductive

(* The session a message revives starts, or is handed over with it.        *)
LEMMA RevivedJob ==
    ASSUME Typed
    PROVE  \E n \in JobType : /\ n = Revived
                              /\ n.at = "launch" \/ (n.at = "handOver" /\ n.pending)
                              /\ n.from = IF n.at = "launch" THEN 0 ELSE live.generation
                              /\ n.cli = 0 /\ ~n.lock
<1>1. CASE live.full
  <2> DEFINE n == [Job("handOver", live.generation) EXCEPT !.pending = TRUE, !.caller = "call"]
  <2>1. n.at = "handOver" /\ n.pending /\ n.from = live.generation /\ n.cli = 0 /\ ~n.lock
    BY DEF Job
  <2>2. n = Revived
    BY <1>1 DEF Revived
  <2> HIDE DEF n
  <2> QED
    BY <2>1, <2>2, RevivedTyped
<1>2. CASE ~live.full
  <2> DEFINE n == [Job("launch", 0) EXCEPT !.new = FALSE, !.caller = "call"]
  <2>1. n.at = "launch" /\ n.from = 0 /\ n.cli = 0 /\ ~n.lock
    BY DEF Job
  <2>2. n = Revived
    BY <1>2 DEF Revived
  <2> HIDE DEF n
  <2> QED
    BY <2>1, <2>2, RevivedTyped
<1> QED
  BY <1>1, <1>2

LEMMA InductiveMessageClosed ==
    ASSUME Typed, Typed', Inductive, Steady' => Steady, NEW j \in jobs, MessageClosed(j)
    PROVE  Inductive'
<1>0. j \in JobType /\ live \in LiveType /\ Always /\ task.errors < ErrorHandoffs
      /\ (task.wait => ~task.open) /\ live.generation \in Nat
  BY DEF Typed, TypedJobs, TypedLive, Inductive, Always, Errors, Bare, LiveType
<1>1. UNCHANGED <<known, started>> /\ j.at = "messageClose" /\ CliOf(j.cli) = {} /\ ~j.lock /\ Starter(j)
  BY <1>0 DEF MessageClosed, AtEnd, Always, Locked, Starter
<1>2. Unlocked(j)
  BY <1>0, <1>1 DEF Always, Alone
<1>3. \A k \in jobs \ {j} : ~k.lock /\ ~Starter(k)
  BY <1>0, <1>1, <1>2, OneStarter DEF Unlocked
<1>4. PICK n \in JobType : /\ n = Revived
                           /\ n.at = "launch" \/ (n.at = "handOver" /\ n.pending)
                           /\ n.from = IF n.at = "launch" THEN 0 ELSE live.generation
                           /\ n.cli = 0 /\ ~n.lock
  BY RevivedJob
<1>5. jobs' = (jobs \ {j}) \union {n} /\ UNCHANGED <<task, live, clis>>
  BY <1>2, <1>4 DEF Unlocked, MessageClosed, Replace
<1>6. Passes({j}, n)
  BY <1>0, <1>1, <1>3, <1>4, <1>5 DEF Passes, Pending, Rerouting
<1>7. Unlocked(n)'
  BY <1>1, <1>2, <1>5 DEF Unlocked
<1>8. Always'
  BY <1>0, <1>1, <1>3, <1>4, <1>5, <1>6, <1>7, PassesAlways
<1>9. ASSUME Ongoing PROVE Ongoing'
  <2>1. clis = {} /\ live.cli = 0
    BY <1>0, <1>1, <1>9, NoSession, Unclosed
  <2>2. task.open /\ task.state \notin Final
    BY <1>1, <1>9 DEF Ongoing, Opened, Attempting
  <2>3. Starter(n)
    BY <1>4 DEF Starter, Pending
  <2> QED
    BY <1>0, <1>1, <1>3, <1>4, <1>5, <1>6, <1>9, <2>1, <2>2, <2>3, PassesSteady
<1> QED
  BY <1>8, <1>9, StepInductive

LEMMA DetachedFields ==
    ASSUME Typed
    PROVE  /\ Detached \in LiveType
           /\ Detached.cli = 0 /\ Detached.generation = live.generation /\ Detached.stopping
           /\ Detached.held = live.held
BY DEF Detached, Typed, TypedLive, LiveType

LEMMA InductiveStalled ==
    ASSUME Typed, Typed', Inductive, Steady' => Steady, TakeStalled
    PROVE  Inductive'
<1>0. /\ live \in LiveType /\ Always /\ task.errors < ErrorHandoffs
      /\ (task.wait => ~task.open) /\ live.generation \in Nat /\ live.cli \in {0, live.generation}
  BY DEF Typed, TypedJobs, TypedLive, Inductive, Always, Errors, Bare, LiveType, Generations
<1>1. /\ UNCHANGED <<task, known, clis, started>> /\ RerouteFree /\ ~live.stopping /\ ~task.wait
      /\ task.state \in {"Starting", "Running"} /\ (Running \/ task.state = "Running")
      /\ \A c \in CliOf(live.cli) : c.turn # "none" /\ c.ended = "none"
  BY DEF TakeStalled, Verdict, Silent
<1>2. \A k \in jobs : ~k.lock /\ ~Starter(k)
  BY <1>0, <1>1 DEF RerouteFree, Always, Alone, Unlocked, Running
<1>3. PICK n : /\ jobs' = (jobs \ {}) \union {n} /\ n.lock /\ n.from = live.generation /\ n.cli = live.cli
               /\ n.at = "replaceClose" \/ (n.at = "stalledClose" /\ Running)
  <2> DEFINE job == [Job("stall", live.generation) EXCEPT !.cli = live.cli, !.lock = TRUE, !.watch = TRUE]
             a == [job EXCEPT !.at = "stalledClose"]
             b == [job EXCEPT !.at = "replaceClose",
                              !.end = IF live.cutoff = "none" THEN "error" ELSE live.cutoff]
  <2>1. a.at = "stalledClose" /\ a.lock /\ a.from = live.generation /\ a.cli = live.cli
    BY DEF Job
  <2>2. b.at = "replaceClose" /\ b.lock /\ b.from = live.generation /\ b.cli = live.cli
    BY DEF Job
  <2>3. \/ jobs' = jobs \union {a} /\ Verdict(TRUE) = "handOver"
        \/ jobs' = jobs \union {b}
    BY DEF TakeStalled
  <2>4. Verdict(TRUE) = "handOver" => Running
    BY DEF Verdict
  <2> HIDE DEF a, b
  <2> QED
    BY <2>1, <2>2, <2>3, <2>4
<1>4. /\ live'.cli = 0 /\ live'.generation = live.generation /\ live'.stopping
      /\ live'.held = live.held
  <2>1. live' = [Detached EXCEPT !.stalls = @ + 1] \/ live' = [Detached EXCEPT !.cutoff = "none"]
    BY DEF TakeStalled
  <2> QED
    BY <2>1, DetachedFields DEF LiveType
<1>5. Passes({}, n)
  BY <1>0, <1>1, <1>2, <1>3, <1>4 DEF Passes
<1>6. Always'
  BY <1>0, <1>1, <1>2, <1>3, <1>5, PassesAlways
<1>7. ASSUME Ongoing PROVE Ongoing'
  <2>1. \A c \in clis : c.id = live.cli
    BY <1>2, <1>7, LiveSession
  <2>2. (\A c \in clis : ~c.decides) /\ (Running => \A k \in jobs : ~Once(k))
    <3>1. \A c \in clis : c.turn # "none" /\ ~c.decides
      BY <1>0, <1>1, <2>1 DEF CliOf, Always, Unread
    <3>2. Running => \E c \in clis : c.turn # "none"
      BY <3>1 DEF Running
    <3> QED
      BY <1>7, <3>1, <3>2 DEF Ongoing, HandedOnce, Idle
  <2>3. task.open
    BY <1>1, <1>2, <1>7 DEF Ongoing, Opened, Routing, Starter
  <2>4. Starter(n) /\ n.at \in Closing
    BY <1>3 DEF Starter, Closing, Rerouting
  <2> QED
    BY <1>0, <1>1, <1>2, <1>3, <1>4, <1>5, <1>7, <2>1, <2>2, <2>3, <2>4, PassesSteady DEF Final
<1> QED
  BY <1>6, <1>7, StepInductive

(* When nothing about the task is under way, its session is the only one.  *)
LEMMA CalmTask ==
    ASSUME Patient, Quiet, known, Typed, Inductive
    PROVE  /\ jobs = {} /\ \A c \in clis : c.ended = "none" /\ ~c.decides
           /\ Ongoing /\ (\A c \in clis : c.id = live.cli) /\ ~Routing
           /\ task.open \/ task.wait
           /\ task.state \notin Final /\ Always /\ task.errors < ErrorHandoffs
           /\ (task.wait => ~task.open) /\ live.generation \in Nat /\ live.cli \in {0, live.generation}
<1>1. jobs = {} /\ \A c \in clis : c.ended = "none"
  BY DEF Quiet
<1>2. Ongoing
  BY <1>1 DEF Inductive, Steady, Ending
<1>3. ~Routing
  BY <1>1 DEF Routing
<1>4. \A c \in clis : c.id = live.cli
  BY <1>1, <1>2, LiveSession
<1>5. task.state \notin Final /\ (task.open \/ task.wait)
  BY <1>2, <1>3 DEF Ongoing, Opened
<1>6. Always /\ task.errors < ErrorHandoffs /\ (task.wait => ~task.open) /\ live.cli \in {0, live.generation}
      /\ \A c \in clis : ~c.decides
  BY <1>1 DEF Inductive, Always, Errors, Bare, Generations, Unread
<1>7. live.generation \in Nat
  BY DEF Typed, TypedLive, LiveType
<1> QED
  BY <1>1, <1>2, <1>3, <1>4, <1>5, <1>6, <1>7

(* Then a job may start that closes the session or starts the next.        *)
LEMMA CalmStarts ==
    ASSUME Patient, Quiet, known, Typed, Typed', Inductive, Steady' => Steady,
           ~task.wait, NEW n, jobs' = {n}, Starter(n), n.at # "install",
           n.at \notin {"continue", "routed", "stalledClose", "overClose", "handOffClose", "replaceClose"},
           n.from <= live.generation, Pending(n) => n.from = live.generation,
           n.at \in Rerouting \union {"routed", "fresh"} => n.lock,
           n.lock \/ task.state # "Running" \/ live'.stopping,
           n.at = "messageClose" => ~n.lock,
           \/ n.cli = 0 /\ live.cli = 0
           \/ n.cli = live.cli /\ n.at \in Closing /\ live'.stopping,
           live'.cli = 0, live'.generation = live.generation, live'.held => live.held,
           UNCHANGED <<task, known, clis, started>>
    PROVE  Inductive'
<1>0. /\ jobs = {} /\ (\A c \in clis : c.ended = "none" /\ ~c.decides)
      /\ Ongoing /\ (\A c \in clis : c.id = live.cli) /\ task.open
      /\ task.state \notin Final /\ Always /\ task.errors < ErrorHandoffs
      /\ live.generation \in Nat /\ live.cli \in {0, live.generation}
  BY CalmTask
<1>1. live.cli = 0 => clis = {}
  BY <1>0 DEF Typed, TypedClis, CliType, Sessions
<1>2. Passes({}, n)
  BY <1>0 DEF Passes
<1>3. Starter(n) /\ ~n.lock => Unlocked(n)'
  <2> SUFFICES ASSUME NEW u, u = n, Starter(u), ~u.lock PROVE Unlocked(u)'
    OBVIOUS
  <2>1. live'.stopping \/ (task.state # "Running" /\ clis = {})
    BY <1>1
  <2> QED
    BY <1>0, <2>1 DEF Unlocked
<1>4. Always'
  BY <1>0, <1>2, <1>3, PassesAlways
<1>5. Ongoing'
  BY <1>0, <1>1, <1>2, PassesSteady
<1> QED
  BY <1>4, <1>5 DEF Inductive

(* Or the session is told something.                                       *)
LEMMA CalmTold ==
    ASSUME Patient, Quiet, known, Typed, Typed', Inductive, Steady' => Steady,
           ~task.wait, UNCHANGED <<jobs, known, started>>,
           clis' = clis \/ \E c \in clis : Send(c),
           /\ live'.cli = live.cli /\ live'.generation = live.generation
           /\ live'.stopping = live.stopping /\ live'.held = live.held,
           task' = task \/ task' = [task EXCEPT !.state = "Running"]
    PROVE  Inductive'
<1>0. /\ jobs = {} /\ (\A c \in clis : c.ended = "none" /\ ~c.decides) /\ Always
  BY CalmTask
<1>1. /\ task'.open = task.open /\ task'.wait = task.wait /\ task'.errors = task.errors
      /\ task'.state \in {task.state, "Running"}
  BY DEF Typed, TypedTask, TaskType
<1>2. QuieterClis
  <2>1. ASSUME NEW c \in clis, Send(c) PROVE QuieterClis
    <3> DEFINE d == [c EXCEPT !.turn = IF @ = "none" THEN "running" ELSE @]
    <3>1. c \in CliType
      BY DEF Typed, TypedClis
    <3>2. d.id = c.id /\ d.alive = c.alive /\ d.from = c.from /\ d.ended = c.ended /\ d.decides = c.decides
      BY <3>1 DEF CliType
    <3>3. With(c, d)
      BY <2>1 DEF Send
    <3> HIDE DEF d
    <3>4. Spoken(c)
      BY <1>0 DEF Spoken
    <3>5. Quieter(c, d)
      BY <1>0, <3>2, <3>4 DEF Quieter, Always, Decisions
    <3> QED
      BY <1>0, <3>3, <3>5, QuietWith
  <2> QED
    BY <1>0, <2>1, QuietSame
<1>3. \A c \in clis' : c.id # 0
  BY <1>2 DEF QuieterClis, Quieter, Typed, TypedClis, CliType, Sessions
<1>4. Harmless({}, 0)
  BY <1>0, <1>1, <1>2, <1>3 DEF Harmless, Aside
<1> QED
  BY <1>4, HarmlessStep

LEMMA InductiveMessage ==
    ASSUME Patient, Typed, Typed', Inductive, Steady' => Steady, Message
    PROVE  Inductive'
<1>0. live \in LiveType /\ known /\ Quiet /\ ~task.wait /\ UNCHANGED <<known, started>>
      /\ (AtWork => live.cli # 0)
  BY DEF Message, Typed, TypedLive
<1>1. jobs = {}
  BY <1>0, CalmTask
<1>2. CASE /\ live.cli = 0 /\ jobs' = jobs \union {Revived} /\ UNCHANGED <<task, live, clis>>
  <2>1. PICK n \in JobType : /\ n = Revived
                             /\ n.at = "launch" \/ (n.at = "handOver" /\ n.pending)
                             /\ n.from = IF n.at = "launch" THEN 0 ELSE live.generation
                             /\ n.cli = 0 /\ ~n.lock
    BY RevivedJob
  <2>2. jobs' = {n}
    BY <1>1, <1>2, <2>1
  <2>3. Starter(n) /\ n.at \notin Rerouting /\ (Pending(n) => n.from = live.generation)
    BY <2>1 DEF Starter, Pending, Rerouting
  <2>4. task.state # "Running"
    BY <1>0, <1>2 DEF AtWork
  <2> QED
    BY <1>0, <1>2, <2>1, <2>2, <2>3, <2>4, CalmStarts DEF LiveType
<1>3. CASE /\ live.cli # 0 /\ live' = Detached
           /\ jobs' = jobs \union {[Job("messageClose", 0) EXCEPT !.cli = live.cli, !.caller = "call"]}
           /\ UNCHANGED <<task, clis>>
  <2> DEFINE n == [Job("messageClose", 0) EXCEPT !.cli = live.cli, !.caller = "call"]
  <2>1. n.at = "messageClose" /\ n.from = 0 /\ n.cli = live.cli /\ ~n.lock /\ jobs' = {n}
    BY <1>1, <1>3 DEF Job
  <2> HIDE DEF n
  <2>2. Starter(n) /\ n.at \in Closing /\ n.at \notin Rerouting /\ ~Pending(n)
    BY <2>1 DEF Starter, Closing, Rerouting, Pending
  <2>3. live'.cli = 0 /\ live'.generation = live.generation /\ live'.stopping /\ live'.held = live.held
    BY <1>3, DetachedFields
  <2> QED
    BY <1>0, <1>3, <2>1, <2>2, <2>3, CalmStarts DEF LiveType
<1>4. ASSUME NEW c \in clis, Tell(c), UNCHANGED jobs PROVE Inductive'
  <2>1. /\ live'.cli = live.cli /\ live'.generation = live.generation
        /\ live'.stopping = live.stopping /\ live'.held = live.held
    BY <1>0, <1>4 DEF Tell, LiveType
  <2>2. task' = task \/ task' = [task EXCEPT !.state = "Running"]
    BY <1>4 DEF Tell
  <2>3. clis' = clis \/ \E d \in clis : Send(d)
    BY <1>4 DEF Tell
  <2> QED
    BY <1>0, <1>4, <2>1, <2>2, <2>3, CalmTold
<1> QED
  BY <1>2, <1>3, <1>4 DEF Message

LEMMA InductiveResume ==
    ASSUME Patient, Typed, Typed', Inductive, Steady' => Steady, Resume
    PROVE  Inductive'
<1>0. live \in LiveType /\ task \in TaskType /\ known /\ Quiet /\ UNCHANGED <<known, started>>
      /\ task.state = "Paused"
  BY DEF Resume, Typed, TypedLive, TypedTask
<1>1. jobs = {} /\ Ongoing /\ Always /\ live.generation \in Nat
  BY <1>0, CalmTask
<1>2. \A c \in clis : c.id # 0
  BY DEF Typed, TypedClis, CliType, Sessions
<1>3. CASE jobs' = jobs \union {Job("continue", 0)} /\ UNCHANGED <<task, live, clis>>
  <2> DEFINE n == Job("continue", 0)
  <2>1. n.at = "continue" /\ n.from = 0 /\ n.cli = 0 /\ ~n.lock
    BY DEF Job
  <2>2. jobs' = (jobs \ {}) \union {n}
    BY <1>3
  <2> HIDE DEF n
  <2>3. Joins({}, n)
    BY <1>1, <2>1 DEF Joins, Starter, Pending, Rerouting, Marks
  <2>4. Harmless({}, n)
    BY <1>0, <1>1, <1>2, <1>3, <2>1, <2>2, <2>3, QuietSame DEF Harmless, Aside, Asks, Once
  <2> QED
    BY <2>4, HarmlessStep
<1>4. CASE /\ ~task.wait /\ task' = [task EXCEPT !.state = "Running"]
           /\ live' = [live EXCEPT !.cutoff = "none"]
           /\ jobs' = jobs \union {[Job("handOff", live.generation) EXCEPT !.end = live.cutoff]}
           /\ UNCHANGED clis
  <2> DEFINE n == [Job("handOff", live.generation) EXCEPT !.end = live.cutoff]
  <2>1. n.at = "handOff" /\ n.from = live.generation /\ n.cli = 0 /\ ~n.lock
    BY DEF Job
  <2>2. jobs' = (jobs \ {}) \union {n}
    BY <1>4
  <2> HIDE DEF n
  <2>3. Joins({}, n)
    BY <1>1, <2>1 DEF Joins, Starter, Pending, Rerouting, Marks
  <2>4. /\ live'.cli = live.cli /\ live'.generation = live.generation
        /\ live'.stopping = live.stopping /\ live'.held = live.held
    BY <1>0, <1>4 DEF LiveType
  <2>5. /\ task'.open = task.open /\ task'.wait = task.wait /\ task'.errors = task.errors
        /\ task'.state = "Running"
    BY <1>0, <1>4 DEF TaskType
  <2>6. Harmless({}, n)
    BY <1>0, <1>1, <1>2, <1>4, <2>1, <2>2, <2>3, <2>4, <2>5, QuietSame DEF Harmless, Aside, Asks, Once
  <2> QED
    BY <2>6, HarmlessStep
<1>5. CASE /\ ~task.wait /\ live.held /\ live' = [live EXCEPT !.held = FALSE]
           /\ jobs' = jobs \union {[Job("fresh", 0) EXCEPT !.lock = TRUE, !.caller = "call"]}
           /\ UNCHANGED <<task, clis>>
  <2> DEFINE n == [Job("fresh", 0) EXCEPT !.lock = TRUE, !.caller = "call"]
  <2>1. n.at = "fresh" /\ n.from = 0 /\ n.cli = 0 /\ n.lock /\ jobs' = {n}
    BY <1>1, <1>5 DEF Job
  <2> HIDE DEF n
  <2>2. live'.cli = live.cli /\ live'.generation = live.generation /\ ~live'.held
    BY <1>0, <1>5 DEF LiveType
  <2>3. live.cli = 0
    BY <1>1, <1>5 DEF Ongoing, Held
  <2>4. Starter(n) /\ ~Pending(n)
    BY <2>1 DEF Starter, Pending
  <2> QED
    BY <1>0, <1>1, <1>5, <2>1, <2>2, <2>3, <2>4, CalmStarts
<1>6. CASE /\ ~task.wait /\ live.cli # 0 /\ live' = Detached
           /\ jobs' = jobs \union {[Job("restartClose", 0) EXCEPT
                          !.cli = live.cli, !.lock = TRUE, !.caller = "call"]}
           /\ UNCHANGED <<task, clis>>
  <2> DEFINE n == [Job("restartClose", 0) EXCEPT !.cli = live.cli, !.lock = TRUE, !.caller = "call"]
  <2>1. n.at = "restartClose" /\ n.from = 0 /\ n.cli = live.cli /\ n.lock /\ jobs' = {n}
    BY <1>1, <1>6 DEF Job
  <2> HIDE DEF n
  <2>2. Starter(n) /\ n.at \in Closing /\ ~Pending(n)
    BY <2>1 DEF Starter, Closing, Rerouting, Pending
  <2>3. live'.cli = 0 /\ live'.generation = live.generation /\ live'.stopping /\ live'.held = live.held
    BY <1>6, DetachedFields
  <2> QED
    BY <1>0, <1>1, <1>6, <2>1, <2>2, <2>3, CalmStarts
<1>7. CASE /\ ~task.wait
           /\ live' = [live EXCEPT !.busy = TRUE, !.nudged = FALSE, !.stallNudged = FALSE]
           /\ task' = IF live.cli = 0 THEN task ELSE [task EXCEPT !.state = "Running"]
           /\ IF \E c \in CliOf(live.cli) : c.alive
                THEN \E c \in CliOf(live.cli) : Send(c) ELSE UNCHANGED clis
           /\ UNCHANGED jobs
  <2>1. /\ live'.cli = live.cli /\ live'.generation = live.generation
        /\ live'.stopping = live.stopping /\ live'.held = live.held
    BY <1>0, <1>7 DEF LiveType
  <2>2. clis' = clis \/ \E c \in clis : Send(c)
    BY <1>7 DEF CliOf
  <2> QED
    BY <1>0, <1>7, <2>1, <2>2, CalmTold
<1> QED
  BY <1>3, <1>4, <1>5, <1>6, <1>7 DEF Resume

-----------------------------------------------------------------------------
(* Every step keeps the invariant. *)

LEMMA InductiveStep ==
    ASSUME Patient, Typed, Typed', Inductive, [Next]_vars
    PROVE  Inductive'
<1>0. Steady' => Steady
  BY SteadyBefore
<1>1. ASSUME NEW j \in jobs, JobStep(j) PROVE Inductive'
  <2>1. CASE Exited(j) \/ HandOff(j) \/ EndAttempt(j) \/ Continue(j) \/ Routed(j)
    BY <1>0, <2>1, InductiveExited, InductiveHandOff, InductiveEndAttempt, InductiveContinue,
       InductiveRouted
  <2>2. CASE Launch(j) \/ Install(j) \/ Mark(j) \/ SendFirst(j)
    BY <1>0, <2>2, InductiveLaunch, InductiveInstall, InductiveMark, InductiveSendFirst
  <2>3. CASE HandOver(j) \/ HandedOver(j) \/ Fresh(j) \/ MessageClosed(j) \/ Restarted(j)
    BY <1>0, <2>3, InductiveHandOver, InductiveHandedOver, InductiveFresh, InductiveMessageClosed,
       InductiveRestarted
  <2>4. CASE PauseRecorded(j) \/ Fail(j) \/ Dispose(j) \/ EndRecorded(j) \/ Sweep(j) \/ EndCli(j)
    BY <1>0, <2>4, InductivePaused, InductiveEnd, InductiveSweep, InductiveEndCli
  <2> QED
    BY <1>1, <2>1, <2>2, <2>3, <2>4 DEF JobStep
<1>2. ASSUME NEW c \in clis, TurnCompleted(c) \/ TurnDecided(c) \/ PumpEnds(c) PROVE Inductive'
  BY <1>0, <1>2, InductiveRead, InductiveDecided
<1>3. ASSUME NEW c \in clis,
             \/ Speaks(c) \/ ContextFull(c) \/ Report(c) \/ TurnEnds(c) \/ Exits(c)
             \/ \E end \in {"limit", "error"} : CutOff(c, end)
      PROVE  Inductive'
  BY <1>0, <1>3, InductiveCli
<1>4. CASE Nudge \/ TakeStalled \/ RetryWaiting \/ Pause \/ Stop \/ UNCHANGED vars
  BY <1>0, <1>4, InductiveOutside, InductiveStalled, InductiveStop
<1>5. CASE Message \/ Resume
  BY <1>0, <1>5, InductiveMessage, InductiveResume
<1> QED
  BY <1>1, <1>2, <1>3, <1>4, <1>5 DEF Next, Daemon

LEMMA Invariant ==
    ASSUME Patient
    PROVE  Spec => [](Typed /\ Inductive)
<1>1. Init => Typed /\ Inductive
  BY TypedInit, InductiveInit
<1>2. Typed /\ Inductive /\ [Next]_vars => (Typed /\ Inductive)'
  BY TypedStep, InductiveStep
<1> QED
  BY <1>1, <1>2, PTL DEF Spec

(* What the counters of a task and its sessions stay within: the errors    *)
(* that are handed on, the stalls, and the sessions there were.            *)
LEMMA Bounded == Typed /\ Inductive => TypeOK
<1> SUFFICES ASSUME Typed, Inductive PROVE TypeOK
  OBVIOUS
<1>0. /\ task \in TaskType /\ live \in LiveType /\ clis \subseteq CliType /\ jobs \subseteq JobType
      /\ started \in Nat /\ Always
  BY DEF Typed, TypedTask, TypedLive, TypedClis, TypedJobs, Inductive
<1>1. live.generation <= started
  BY <1>0 DEF Always, Generations, LiveType
<1>2. task \in [state : Final \union {"Starting", "Running", "Reported", "Paused"},
                open : BOOLEAN, errors : 0 .. ErrorHandoffs - 1, wait : BOOLEAN, report : BOOLEAN]
  <2>1. task.errors \in 0 .. ErrorHandoffs - 1
    BY <1>0, WorkerAssumption DEF Always, Errors, TaskType
  <2> QED
    BY <1>0, <2>1 DEF TaskType
<1>3. live \in [cli : 0 .. started, busy : BOOLEAN, stopping : BOOLEAN, nudged : BOOLEAN,
                cutoff : {"none", "limit", "error"}, asked : BOOLEAN, held : BOOLEAN,
                generation : 0 .. started, stalls : 0 .. 1, stallNudged : BOOLEAN, full : BOOLEAN]
  <2>1. live.cli \in 0 .. started /\ live.generation \in 0 .. started
    BY <1>0, <1>1 DEF Always, Generations, LiveType
  <2> QED
    BY <1>0, <2>1 DEF LiveType, Ends
<1>4. clis \subseteq [id : 1 .. started, alive : BOOLEAN, turn : {"none", "running", "interrupted"},
                      ended : {"none", "completed", "interrupted"}, decides : BOOLEAN,
                      nudge : BOOLEAN, asked : BOOLEAN, from : 0 .. started]
  <2> SUFFICES ASSUME NEW c \in clis
               PROVE  c \in [id : 1 .. started, alive : BOOLEAN, turn : {"none", "running", "interrupted"},
                             ended : {"none", "completed", "interrupted"}, decides : BOOLEAN,
                             nudge : BOOLEAN, asked : BOOLEAN, from : 0 .. started]
    OBVIOUS
  <2>1. c.id \in 1 .. started
    BY <1>0 DEF Always, Numbers, CliType, Sessions
  <2>2. c.from \in 0 .. started
    BY <1>0, <1>1 DEF Always, Decisions, CliType, LiveType
  <2> QED
    BY <1>0, <2>1, <2>2 DEF CliType
<1> QED
  BY <1>2, <1>3, <1>4 DEF TypeOK

(* ERROR_HANDOFFS and the watchdog's one fresh session bound an attempt,   *)
(* whatever ends its turns.                                                *)
THEOREM AttemptsBounded == ASSUME Patient PROVE Spec => []TypeOK
BY Invariant, Bounded, PTL

LEMMA Single ==
    ASSUME Typed, Inductive, ~Ending
    PROVE  Working = {} \/ \E c \in clis : Working = {c}
<1>1. CASE ~known
  BY <1>1 DEF Inductive, Always, Gone, Working
<1>2. CASE known
  <2>1. Ongoing /\ Always
    BY <1>2 DEF Inductive, Steady
  <2>2. ASSUME NEW c \in Working, NEW d \in Working PROVE c = d
    <3>1. c \in clis /\ d \in clis
      BY DEF Working
    <3>2. \A e \in Working : e.id = live.cli \/ \E j \in jobs : Starter(j) /\ j.at = "install" /\ j.cli = e.id
      BY <2>1 DEF Working, Ongoing, Followed, ClosedFor
    <3>3. CASE \E j \in jobs : Starter(j)
      <4>1. live.cli = 0 /\ c.id # 0 /\ d.id # 0
        BY <2>1, <3>1, <3>3 DEF Ongoing, Followed, Typed, TypedClis, CliType, Sessions
      <4>2. c.id = d.id
        BY <2>1, <3>2, <4>1, OneStarter
      <4> QED
        BY <2>1, <3>1, <4>2 DEF Always, Numbers
    <3>4. CASE \A j \in jobs : ~Starter(j)
      BY <2>1, <3>1, <3>2, <3>4 DEF Always, Numbers
    <3> QED
      BY <3>3, <3>4
  <2>3. Working \subseteq clis
    BY DEF Working
  <2> QED
    BY <2>2, <2>3
<1> QED
  BY <1>1, <1>2

(* Whatever ends a turn, stalls, is handed on, paused, resumed or stopped: *)
(* two CLI sessions never work on one task.                                *)
THEOREM NeverTwoSessions == ASSUME Patient PROVE Spec => []OneSession
<1>1. Typed /\ Inductive => OneSession
  <2> SUFFICES ASSUME Typed, Inductive, ~Ending PROVE Cardinality(Working) <= 1
    BY DEF OneSession
  <2>1. CASE Working = {}
    BY <2>1, FS_EmptySet
  <2>2. ASSUME NEW c \in clis, Working = {c} PROVE Cardinality(Working) <= 1
    <3>1. Cardinality({c}) = 1
      BY FS_Singleton
    <3> QED
      BY <2>2, <3>1
  <2> QED
    BY <2>1, <2>2, Single
<1> QED
  BY <1>1, Invariant, PTL

(* A hand-off or a hand-over only closes the session it was decided for.   *)
THEOREM FreshSessionKept == ASSUME Patient PROVE Spec => []FreshKept
<1>1. Typed /\ Inductive => FreshKept
  BY DEF Inductive, Always, Decisions, Numbers, FreshKept, Rerouting
<1> QED
  BY <1>1, Invariant, PTL

(* While a task waits for quota its attempt is over and no session works.  *)
THEOREM QuotaWaitsAlone == ASSUME Patient PROVE Spec => []WaitsAlone
<1>1. Typed /\ Inductive => WaitsAlone
  <2> SUFFICES ASSUME Typed, Inductive, task.wait PROVE ~task.open /\ (Ending \/ Working = {})
    BY DEF WaitsAlone
  <2>1. ~task.open
    BY DEF Inductive, Always, Bare
  <2>2. ASSUME ~Ending, NEW c \in Working PROVE FALSE
    <3>1. c \in clis /\ c.alive /\ \A j \in jobs : ~(j.at \in Closing /\ j.cli = c.id)
      BY DEF Working
    <3>2. Ongoing
      BY <2>2, <3>1 DEF Inductive, Always, Gone, Steady
    <3>3. live.cli = 0 /\ c.id # 0
      BY <2>1, <3>1, <3>2 DEF Ongoing, Opened, Typed, TypedClis, CliType, Sessions
    <3>4. PICK j \in jobs : j.at = "install"
      BY <3>1, <3>2, <3>3 DEF Ongoing, Followed, ClosedFor
    <3> QED
      BY <2>1, <3>2, <3>4 DEF Ongoing, Opened, Attempting
  <2> QED
    BY <2>1, <2>2
<1> QED
  BY <1>1, Invariant, PTL
=============================================================================

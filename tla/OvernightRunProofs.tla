-------------------------- MODULE OvernightRunProofs --------------------------
(***************************************************************************)
(* Proofs about OvernightRun: a verified phase was checked as the commit   *)
(* it is verified at, the merge point covers no unverified work, a run's   *)
(* report is posted once, and a phase's rounds of checks and its fixes     *)
(* stay within their limits, for any plan and any number of rounds,        *)
(* commits and restarts.                                                   *)
(***************************************************************************)
EXTENDS OvernightRun, FiniteSetTheorems, TLAPS

(* The kinds of values, without the limits that only a run's bounds give.  *)
Gate == [round : Nat, commit : Nat, retry : BOOLEAN, closed : BOOLEAN,
         verify : Answers, review : Answers, judge : Answers,
         evidence : SUBSET (Roles \X Nat)]

PhaseRecord == [state : PhaseStates, begun : {"no", "chosen", "yes"}, gate : Gate,
                fixes : Nat, verified : Nat]

Checker == [phase : Phases, round : Nat, role : Roles, commit : Nat]

JobRecord == {j \in [do : Work, phase : Phases \cup {0}, commit : Nat, flag : BOOLEAN] :
                 j.do \in {"prepare", "advance"} \/ j.phase \in Phases}

JobsTyped == jobs \subseteq JobRecord /\ author \in Seq(Phases)

(* What passed in an open round passed on the round's commit. *)
Evident(r) ==
    ~r.gate.closed =>
        \A role \in Roles : Slot(role, r.gate) = "passed" => <<role, r.gate.commit>> \in r.gate.evidence

(* A verified phase has everyone's word on the commit, and its round is over. *)
Approved(r) ==
    r.state = "verified" =>
        r.gate.closed /\ \A role \in Roles : <<role, r.verified>> \in r.gate.evidence

(* A checker at work on a phase came with its round or an earlier one, and *)
(* with the open round's commit; once a phase is settled, and its rounds   *)
(* are counted anew, none opens again.                                     *)
Ended(r) == r.state \in {"verified", "partial"} /\ r.gate.closed

InRound(c, r) ==
    Ended(r) \/ /\ c.round <= r.gate.round
                /\ ~r.gate.closed /\ c.round = r.gate.round => c.commit = r.gate.commit

PhasesSound ==
    /\ phase \in [Phases -> PhaseRecord]
    /\ checkers \subseteq Checker
    /\ \A p \in Phases : Evident(phase[p]) /\ Approved(phase[p])
    /\ \A c \in checkers : InRound(c, phase[c.phase])

(* A phase that is at work or whose round is open. *)
Started(r)   == r.state \notin {"pending", "skipped"}
Live(r)      == Started(r) /\ (r.state \in {"running", "checking"} \/ ~r.gate.closed)
Unchecked(r) == r.state = "partial" /\ ~r.gate.closed

(* There is one such phase, and none that the ending settled unchecked     *)
(* while the run goes on.                                                  *)
OneLive == \A p, q \in Phases : Live(phase[p]) /\ Live(phase[q]) => p = q

EndedOpen ==
    \A p \in Phases : Unchecked(phase[p]) => run.state \in {"reporting", "finished"}

(* Who works or has work spawned has started; what is checked or merged is *)
(* on the branch.                                                          *)
GoodJobs ==
    {j \in JobRecord : /\ j.do \in {"prepare", "advance"} \/ Started(phase[j.phase])
                       /\ j.commit <= tip}

WorkStarted ==
    /\ jobs \subseteq GoodJobs
    /\ \A c \in checkers : Started(phase[c.phase])
    /\ open \subseteq Phases /\ \A p \in open : Started(phase[p])
    /\ \A i \in 1 .. tip : Started(phase[author[i]])

OnBranch == run.merge <= tip /\ \A p \in Phases : phase[p].gate.commit <= tip

(* Up to the merge point whoever began is verified, and whoever was chosen *)
(* and not led yet will not be any more.                                   *)
Covered ==
    \A i \in 1 .. run.merge :
        /\ phase[author[i]].begun = "yes" => phase[author[i]].state = "verified"
        /\ phase[author[i]].begun = "chosen" => ~Live(phase[author[i]])

Ordered == OneLive /\ EndedOpen /\ WorkStarted /\ OnBranch /\ Covered

RunRecord == [state : RunStates, branch : BOOLEAN, merge : Nat]
RunTyped  == run \in RunRecord

(* Nothing of the run began, and nothing is under way that could.          *)
Untouched ==
    /\ \A p \in Phases : phase[p].state \in {"pending", "skipped"}
    /\ jobs \subseteq {Job("prepare", 0), Advance}
    /\ checkers = {}

(* A run ends without a report only before anything began.                 *)
Reported ==
    /\ posted \in {0, 1}
    /\ ending = "posted" => posted = 1
    /\ run.state \in {"proposed", "superseded", "preparing"} => Untouched /\ ending = "no"
    /\ run.state = "finished" => posted = 1 \/ Untouched

-----------------------------------------------------------------------------
(* Some numbers have a least one: were none of their lower bounds among    *)
(* them, these would go up for ever, below a number that is.               *)
LEMMA LeastOf ==
    ASSUME NEW S \in SUBSET Nat, S # {}
    PROVE  \E x \in S : \A y \in S : x =< y
<1>1. PICK n \in S : TRUE
  OBVIOUS
<1> DEFINE Bounds == {k \in 0 .. n : \A y \in S : k =< y}
           Above == [k \in Bounds |-> k + 1]
<1>2. ASSUME \A k \in Bounds : k \notin S PROVE FALSE
  <2>1. n \in Nat /\ 0 \in Bounds
    OBVIOUS
  <2>2. ASSUME NEW k \in Bounds PROVE k + 1 \in Bounds \ {0}
    <3>1. \A y \in S : y \in Nat /\ k =< y /\ k # y
      BY <1>2
    <3>2. k \in 0 .. n /\ k # n
      BY <1>1, <1>2
    <3>3. QED BY <2>1, <3>1, <3>2
  <2>3. IsFiniteSet(Bounds)
    <3>1. IsFiniteSet(0 .. n)
      BY <2>1, FS_Interval, 0 \in Int, n \in Int
    <3>2. QED BY <3>1, FS_Subset, Bounds \subseteq 0 .. n
  <2>4. IsFiniteSet(Bounds \ {0}) /\ Cardinality(Bounds \ {0}) < Cardinality(Bounds)
    <3> HIDE DEF Bounds
    <3>1. /\ IsFiniteSet(Bounds \ {0})
          /\ Cardinality(Bounds \ {0}) = Cardinality(Bounds) - 1
      BY <2>1, <2>3, FS_RemoveElement
    <3>2. Cardinality(Bounds) \in Nat
      BY <2>3, FS_CardinalityType
    <3>3. QED BY <3>1, <3>2
  <2>5. Above \in [Bounds -> Bounds \ {0}]
    BY <2>2
  <2>6. \E x, y \in Bounds : x # y /\ Above[x] = Above[y]
    <3> HIDE DEF Bounds, Above
    <3>1. QED BY <2>3, <2>4, <2>5, FS_PigeonHole
  <2>7. QED BY <2>6
<1>3. QED BY <1>2

(* The first of some phases is one of them. *)
LEMMA FirstOf ==
    ASSUME NEW S \in SUBSET Phases
    PROVE  TheFirst(S) \subseteq S
<1>1. CASE S = {}
  BY <1>1 DEF TheFirst
<1>2. CASE S # {}
  <2>1. S \in SUBSET Nat
    BY OvernightAssumption
  <2>2. \E x \in S : \A y \in S : x =< y
    BY <1>2, <2>1, LeastOf
  <2>3. Min(S) \in S
    BY <2>2, Zenon DEF Min
  <2>4. QED BY <1>2, <2>3 DEF TheFirst
<1>3. QED BY <1>1, <1>2

LEMMA FirstInState ==
    ASSUME NEW s, NEW p \in TheFirst(InState(s))
    PROVE  p \in Phases /\ phase[p].state \in s
<1>1. InState(s) \in SUBSET Phases
  BY DEF InState
<1>2. p \in InState(s)
  BY <1>1, FirstOf
<1>3. QED BY <1>2 DEF InState

(* What is spawned is of a known kind. *)
LEMMA Spawned ==
    /\ Job("prepare", 0) \in JobRecord /\ Advance \in JobRecord
    /\ \A p \in Phases, n \in Nat, b \in BOOLEAN :
          Open(p, n, b) \in JobRecord /\ Decide(p, b) \in JobRecord /\ Judge(p, b) \in JobRecord
  BY DEF Job, Advance, Open, Decide, Judge, JobRecord, Work

-----------------------------------------------------------------------------
(* What a step may make of a phase that it does not choose to be the next. *)
Moves(r, s) ==
    /\ Started(r) => Started(s)
    /\ Live(s) => Live(r)
    /\ r.state = "verified" => s.state = "verified"
    /\ s.begun \in {r.begun, "no"} \/ (r.begun = "chosen" /\ Live(r))
    /\ s.gate.commit \in {r.gate.commit, 0} \cup {j.commit : j \in jobs}
    /\ Unchecked(s) => Unchecked(r) \/ (run.state = "windingDown" /\ run'.state = "reporting")

Moved == \A p \in Phases : Moves(phase[p], phase'[p])

(* A step that changes one phase keeps every phase sound, if the changed   *)
(* one is, and if its checkers stay in their round.                        *)
LEMMA OnePhase ==
    ASSUME PhasesSound,
           NEW p \in Phases, NEW r \in PhaseRecord,
           phase' = [phase EXCEPT ![p] = r],
           Evident(r), Approved(r),
           \A c \in Checker : InRound(c, phase[p]) => InRound(c, r),
           \A c \in checkers' : \/ c \in checkers
                                \/ c \in Checker /\ c.phase = p /\ InRound(c, r)
    PROVE  PhasesSound' /\ (Moves(phase[p], r) => Moved)
<1>1. phase' \in [Phases -> PhaseRecord] /\ phase'[p] = r
  BY DEF PhasesSound
<1>2. \A q \in Phases \ {p} : phase'[q] = phase[q]
  BY DEF PhasesSound
<1>3. checkers' \subseteq Checker
  BY DEF PhasesSound
<1>4. \A q \in Phases : Evident(phase'[q]) /\ Approved(phase'[q])
  BY <1>1, <1>2 DEF PhasesSound
<1>5. ASSUME NEW c \in checkers' PROVE InRound(c, phase'[c.phase])
  <2>1. CASE c \in checkers
    <3>1. c \in Checker /\ c.phase \in Phases /\ InRound(c, phase[c.phase])
      BY <2>1 DEF PhasesSound, Checker
    <3>2. QED BY <1>1, <1>2, <3>1
  <2>2. CASE c \in Checker /\ c.phase = p /\ InRound(c, r)
    BY <1>1, <2>2
  <2>3. QED BY <2>1, <2>2
<1>6. Moves(phase[p], r) => Moved
  <2>1. \A q \in Phases \ {p} : Moves(phase[q], phase'[q])
    BY <1>2 DEF Moves
  <2>2. QED BY <1>1, <2>1 DEF Moved
<1>7. QED BY <1>1, <1>3, <1>4, <1>5, <1>6 DEF PhasesSound

LEMMA SamePhases ==
    ASSUME PhasesSound, phase' = phase, checkers' \subseteq checkers
    PROVE  PhasesSound' /\ Moved
  BY DEF PhasesSound, Moved, Moves

-----------------------------------------------------------------------------
(* Whoever acts, phases stay sound: first the steps that touch no gate.    *)
LEMMA SteerSound == ASSUME PhasesSound, NEW p \in Phases, Steer(p) PROVE PhasesSound' /\ Moved
<1> DEFINE r(s) == [phase[p] EXCEPT !.state = s]
<1>1. PICK s \in {"pending", "skipped"} :
         phase[p].state \in {"pending", "skipped"} /\ phase' = [phase EXCEPT ![p] = r(s)]
  BY DEF Steer
<1>2. phase[p] \in PhaseRecord /\ checkers' = checkers
  BY DEF PhasesSound, Steer
<1>3. /\ r(s) \in PhaseRecord /\ r(s).gate = phase[p].gate
      /\ r(s).state \in {"pending", "skipped"}
  BY <1>1, <1>2 DEF PhaseRecord, PhaseStates
<1>4. Evident(r(s)) /\ Approved(r(s))
  BY <1>3 DEF PhasesSound, Evident, Approved
<1>5. \A c \in Checker : InRound(c, phase[p]) => InRound(c, r(s))
  BY <1>1, <1>3 DEF InRound, Ended
<1>6. r(s).begun = phase[p].begun
  BY <1>2 DEF PhaseRecord
<1>7. Moves(phase[p], r(s))
  BY <1>1, <1>3, <1>6 DEF Moves, Started, Live, Unchecked
<1>8. QED BY <1>1, <1>2, <1>3, <1>4, <1>5, <1>7, OnePhase

(* The next phase is chosen while none is at work. *)
Chosen(p) ==
    /\ phase[p].state = "pending"
    /\ phase' = [phase EXCEPT ![p] = [@ EXCEPT !.state = "running", !.begun = "chosen"]]
    /\ InState({"running", "checking"}) = {}
    /\ run.state \in {"running", "preparing"}

LEMMA AdvancesSound ==
    ASSUME PhasesSound, Advances
    PROVE  PhasesSound' /\ (Moved \/ \E p \in Phases : Chosen(p))
<1>1. checkers' = checkers
  BY DEF Advances
<1>2. CASE phase' = phase
  BY <1>1, <1>2, SamePhases
<1>3. CASE phase' # phase
  <2>1. PICK p \in Startable :
           phase' = [phase EXCEPT ![p].state = "running", ![p].begun = "chosen"]
    BY <1>3 DEF Advances
  <2> DEFINE r == [phase[p] EXCEPT !.state = "running", !.begun = "chosen"]
  <2>2. p \in Phases /\ phase[p].state = "pending"
    BY <2>1, FirstInState DEF Startable
  <2>3. phase[p] \in PhaseRecord
    BY <2>2 DEF PhasesSound
  <2>4. phase' = [phase EXCEPT ![p] = r]
    BY <2>1, <2>2, <2>3 DEF PhasesSound, PhaseRecord
  <2>5. r \in PhaseRecord /\ r.gate = phase[p].gate /\ r.state = "running"
    BY <2>3 DEF PhaseRecord, PhaseStates
  <2>6. Evident(r) /\ Approved(r)
    BY <2>2, <2>5 DEF PhasesSound, Evident, Approved
  <2>7. \A c \in Checker : InRound(c, phase[p]) => InRound(c, r)
    BY <2>2, <2>5 DEF InRound, Ended
  <2>8. Chosen(p)
    <3>1. InState({"running", "checking"}) = {} /\ run.state \in {"running", "preparing"}
      BY <1>3 DEF Advances
    <3>2. QED BY <2>2, <2>4, <3>1 DEF Chosen
  <2> HIDE DEF r
  <2>9. QED BY <1>1, <2>2, <2>4, <2>5, <2>6, <2>7, <2>8, OnePhase
<1>4. QED BY <1>2, <1>3

LEMMA LeadsSound == ASSUME PhasesSound, NEW p \in Phases, Leads(p) PROVE PhasesSound' /\ Moved
<1> DEFINE r == [phase[p] EXCEPT !.begun = "yes"]
<1>1. phase' = [phase EXCEPT ![p] = r] /\ checkers' = checkers
  BY DEF Leads
<1>2. phase[p] \in PhaseRecord
  BY DEF PhasesSound
<1>3. r \in PhaseRecord /\ r.gate = phase[p].gate /\ r.state = phase[p].state /\ r.verified = phase[p].verified
  BY <1>2 DEF PhaseRecord
<1>4. Evident(r) /\ Approved(r)
  BY <1>3 DEF PhasesSound, Evident, Approved
<1>5. \A c \in Checker : InRound(c, phase[p]) => InRound(c, r)
  BY <1>3 DEF InRound, Ended
<1>6. Moves(phase[p], r)
  BY <1>3 DEF Leads, Moves, Started, Live, Unchecked
<1> HIDE DEF r
<1>7. QED BY <1>1, <1>3, <1>4, <1>5, <1>6, OnePhase

LEMMA DoneRecordedSound ==
    ASSUME PhasesSound, JobsTyped, NEW job \in jobs, DoneRecorded(job) PROVE PhasesSound' /\ Moved
<1> DEFINE p == job.phase
           r == [phase[p] EXCEPT !.state = "checking"]
<1>1. checkers' = checkers /\ p \in Phases
  BY DEF DoneRecorded, JobsTyped, JobRecord
<1>2. CASE phase' = phase
  BY <1>1, <1>2, SamePhases
<1>3. CASE phase' # phase
  <2>1. phase[p].state = "running" /\ phase' = [phase EXCEPT ![p] = r]
    BY <1>3 DEF DoneRecorded
  <2>2. phase[p] \in PhaseRecord
    BY <1>1 DEF PhasesSound
  <2>3. r \in PhaseRecord /\ r.gate = phase[p].gate /\ r.state = "checking"
    BY <2>2 DEF PhaseRecord, PhaseStates
  <2>4. Evident(r) /\ Approved(r)
    BY <1>1, <2>3 DEF PhasesSound, Evident, Approved
  <2>5. \A c \in Checker : InRound(c, phase[p]) => InRound(c, r)
    BY <2>1, <2>3 DEF InRound, Ended
  <2>6. r.begun = phase[p].begun
    BY <2>2 DEF PhaseRecord
  <2>7. Moves(phase[p], r)
    BY <2>1, <2>3, <2>6 DEF Moves, Started, Live, Unchecked
  <2> HIDE DEF r
  <2>8. QED BY <1>1, <2>1, <2>3, <2>4, <2>5, <2>7, OnePhase
<1>4. QED BY <1>2, <1>3

LEMMA NoGateTyped == NoGate \in Gate
<1>1. {} \in SUBSET (Roles \X Nat) /\ 0 \in Nat /\ FALSE \in BOOLEAN
  OBVIOUS
<1>2. QED BY <1>1 DEF NoGate, Gate, Answers

(* A new round's number is above those of its phase's checkers. *)
LEMMA OpensSound ==
    ASSUME PhasesSound, JobsTyped, NEW job \in jobs, Opens(job) PROVE PhasesSound' /\ Moved
<1> DEFINE p == job.phase
           g == [NoGate EXCEPT !.round = phase[p].gate.round + 1,
                               !.commit = job.commit, !.retry = job.flag]
           member(role) == [phase |-> p, round |-> g.round, role |-> role, commit |-> job.commit]
<1>1. CASE UNCHANGED <<phase, checkers>>
  BY <1>1, SamePhases
<1>2. CASE ~UNCHANGED <<phase, checkers>>
  <2>1. phase[p].state = "checking" /\ job.do = "open"
    BY <1>2 DEF Opens
  <2>2. p \in Phases /\ job.commit \in Nat /\ job.flag \in BOOLEAN
    BY <2>1 DEF JobsTyped, JobRecord
  <2>3. phase[p] \in PhaseRecord /\ phase[p].gate \in Gate /\ phase[p].gate.round \in Nat
    BY <2>2 DEF PhasesSound, PhaseRecord, Gate
  <2>4. PICK h \in {g} \cup {[g EXCEPT !.verify = "none", !.review = review] : review \in {"none", "same"}} :
           /\ phase' = [phase EXCEPT ![p].gate = h]
           /\ checkers' \subseteq checkers \cup {member("verify"), member("review")}
    BY <1>2 DEF Opens
  <2>5. /\ h \in Gate /\ h.round = phase[p].gate.round + 1 /\ h.commit = job.commit
        /\ ~h.closed /\ h.verify # "passed" /\ h.review # "passed" /\ h.judge # "passed"
    <3>1. phase[p].gate.round + 1 \in Nat
      BY <2>3
    <3>2. /\ g \in Gate /\ g.round = phase[p].gate.round + 1 /\ g.commit = job.commit
          /\ ~g.closed /\ g.verify = "absent" /\ g.review = "absent" /\ g.judge = "absent"
      <4> DEFINE n == phase[p].gate.round + 1
                 commit == job.commit
                 retry == job.flag
      <4>1. n \in Nat /\ commit \in Nat /\ retry \in BOOLEAN
        BY <2>2, <3>1
      <4>2. g = [NoGate EXCEPT !.round = n, !.commit = commit, !.retry = retry]
        OBVIOUS
      <4>3. /\ g \in Gate /\ g.round = n /\ g.commit = commit
            /\ ~g.closed /\ g.verify = "absent" /\ g.review = "absent" /\ g.judge = "absent"
        <5> HIDE DEF g, n, commit, retry
        <5>1. g \in Gate /\ g.round = n /\ g.commit = commit
          BY <4>1, <4>2, NoGateTyped DEF Gate
        <5>2. ~g.closed /\ g.verify = "absent" /\ g.review = "absent" /\ g.judge = "absent"
          BY <4>2 DEF NoGate
        <5>3. QED BY <5>1, <5>2
      <4>4. QED BY <4>3
    <3> HIDE DEF g
    <3>4. CASE h = g
      BY <3>2, <3>4
    <3>5. ASSUME NEW review \in {"none", "same"}, h = [g EXCEPT !.verify = "none", !.review = review]
          PROVE  /\ h \in Gate /\ h.round = g.round /\ h.commit = g.commit /\ ~h.closed
                 /\ h.verify = "none" /\ h.review = review /\ h.judge = "absent"
      BY <3>2, <3>5 DEF Gate, Answers
    <3>6. h = g \/ \E review \in {"none", "same"} : h = [g EXCEPT !.verify = "none", !.review = review]
      BY <2>4
    <3>7. QED BY <3>2, <3>4, <3>5, <3>6
  <2> DEFINE r == [phase[p] EXCEPT !.gate = h]
  <2>6. phase' = [phase EXCEPT ![p] = r]
    BY <2>2, <2>3, <2>4 DEF PhasesSound, PhaseRecord
  <2>7. r \in PhaseRecord /\ r.gate = h /\ r.state = "checking"
    BY <2>1, <2>3, <2>5 DEF PhaseRecord
  <2>8. Evident(r) /\ Approved(r)
    BY <2>5, <2>7 DEF Evident, Approved, Slot
  <2>9. \A c \in Checker : InRound(c, phase[p]) => InRound(c, r)
    BY <2>1, <2>3, <2>5, <2>7 DEF InRound, Ended, Checker
  <2>10. \A role \in {"verify", "review"} :
            member(role) \in Checker /\ member(role).phase = p /\ InRound(member(role), r)
    BY <2>2, <2>3, <2>5, <2>7 DEF InRound, Checker, Roles, NoGate
  <2>11. \A c \in checkers' : \/ c \in checkers
                              \/ c \in Checker /\ c.phase = p /\ InRound(c, r)
    BY <2>4, <2>10
  <2>12. r.begun = phase[p].begun
    BY <2>3 DEF PhaseRecord
  <2>13. Moves(phase[p], r)
    BY <2>1, <2>5, <2>7, <2>12 DEF Moves, Started, Live, Unchecked
  <2> HIDE DEF r
  <2>14. QED BY <2>2, <2>6, <2>7, <2>8, <2>9, <2>11, <2>13, OnePhase
<1>3. QED BY <1>1, <1>2

(* A checker that passes its commit passes the open round's. *)
LEMMA MemberReportsSound ==
    ASSUME PhasesSound, NEW c \in checkers, MemberReports(c) PROVE PhasesSound' /\ Moved
<1> DEFINE p == c.phase
           g == phase[p].gate
<1>1. checkers' \subseteq checkers
  BY DEF MemberReports
<1>2. CASE phase' = phase
  BY <1>1, <1>2, SamePhases
<1>3. CASE phase' # phase
  <2>1. PICK result \in Results(c.role) :
           /\ g.round = c.round /\ ~g.closed
           /\ phase' = [phase EXCEPT ![p].gate = Taken(g, c, result)]
    BY <1>3 DEF MemberReports
  <2>2. c \in Checker /\ p \in Phases /\ c.role \in Roles /\ c.commit \in Nat /\ InRound(c, phase[p])
    BY DEF PhasesSound, Checker
  <2>3. phase[p] \in PhaseRecord /\ g \in Gate /\ Evident(phase[p]) /\ Approved(phase[p])
    BY <2>2 DEF PhasesSound, PhaseRecord
  <2>4. c.commit = g.commit
    BY <2>1, <2>2 DEF InRound, Ended
  <2>5. result \in Answers
    BY <2>1 DEF Results, Answers
  <2> DEFINE h == Taken(g, c, result)
             r == [phase[p] EXCEPT !.gate = h]
  <2>6. /\ Filled(g, c.role, result) \in Gate
        /\ Filled(g, c.role, result).evidence = g.evidence
        /\ Filled(g, c.role, result).round = g.round
        /\ Filled(g, c.role, result).commit = g.commit
        /\ Filled(g, c.role, result).closed = g.closed
    BY <2>2, <2>3, <2>5 DEF Filled, Gate, Roles
  <2>7. /\ h \in Gate
        /\ h.round = g.round /\ h.commit = g.commit /\ h.closed = g.closed
        /\ g.evidence \subseteq h.evidence
        /\ result = "passed" => <<c.role, c.commit>> \in h.evidence
    <3> DEFINE f == Filled(g, c.role, result)
               e == IF result = "passed" THEN {<<c.role, c.commit>>} ELSE {}
    <3>1. h = [f EXCEPT !.evidence = f.evidence \cup e]
      BY DEF Taken
    <3>2. e \subseteq Roles \X Nat /\ (result = "passed" => <<c.role, c.commit>> \in e)
      BY <2>2
    <3> HIDE DEF f, e, h
    <3>3. QED BY <2>6, <3>1, <3>2 DEF Gate, f
  <2>8. \A role \in Roles : Slot(role, h) = IF role = c.role THEN result ELSE Slot(role, g)
    BY <2>2, <2>3 DEF Taken, Filled, Slot, Gate, Roles
  <2> HIDE DEF h
  <2>9. phase' = [phase EXCEPT ![p] = r]
    BY <2>1, <2>2, <2>3 DEF PhasesSound, PhaseRecord, h
  <2>10. r \in PhaseRecord /\ r.gate = h /\ r.state = phase[p].state /\ r.verified = phase[p].verified
    BY <2>3, <2>7 DEF PhaseRecord
  <2>11. Evident(r)
    <3>1. SUFFICES ASSUME NEW role \in Roles, Slot(role, h) = "passed"
                   PROVE  <<role, h.commit>> \in h.evidence
      BY <2>10 DEF Evident
    <3>2. CASE role = c.role
      BY <2>4, <2>7, <2>8, <3>1, <3>2
    <3>3. CASE role # c.role
      BY <2>1, <2>3, <2>7, <2>8, <3>1, <3>3 DEF Evident
    <3>4. QED BY <3>2, <3>3
  <2>12. Approved(r)
    BY <2>1, <2>3, <2>7, <2>10 DEF Approved
  <2>13. \A d \in Checker : InRound(d, phase[p]) => InRound(d, r)
    BY <2>7, <2>10 DEF InRound, Ended
  <2>14. r.begun = phase[p].begun
    BY <2>3 DEF PhaseRecord
  <2>15. Moves(phase[p], r)
    BY <2>7, <2>10, <2>14 DEF Moves, Started, Live, Unchecked
  <2> HIDE DEF r
  <2>16. QED BY <1>1, <2>2, <2>9, <2>10, <2>11, <2>12, <2>13, <2>15, OnePhase
<1>4. QED BY <1>2, <1>3

(* The judge starts on the open round's commit; a judge that cannot start  *)
(* approves nothing.                                                       *)
LEMMA JudgeStartsSound ==
    ASSUME PhasesSound, JobsTyped, NEW job \in jobs, JudgeStarts(job) PROVE PhasesSound' /\ Moved
<1> DEFINE p == job.phase
           g == phase[p].gate
           judge == [phase |-> p, round |-> g.round, role |-> "judge", commit |-> g.commit]
<1>1. CASE UNCHANGED <<phase, checkers>>
  BY <1>1, SamePhases
<1>2. CASE ~UNCHANGED <<phase, checkers>>
  <2>1. job.do = "judge"
    BY DEF JudgeStarts
  <2>2. p \in Phases
    BY <2>1 DEF JobsTyped, JobRecord
  <2>3. phase[p] \in PhaseRecord /\ g \in Gate /\ Evident(phase[p]) /\ Approved(phase[p])
    BY <2>2 DEF PhasesSound, PhaseRecord
  <2>4. PICK answer \in {"none", "failed"} :
           /\ phase' = [phase EXCEPT ![p].gate.judge = answer]
           /\ checkers' \subseteq checkers \cup {judge}
    BY <1>2 DEF JudgeStarts
  <2> DEFINE h == [g EXCEPT !.judge = answer]
             r == [phase[p] EXCEPT !.gate = h]
  <2>5. /\ h \in Gate /\ h.round = g.round /\ h.commit = g.commit /\ h.closed = g.closed
        /\ h.verify = g.verify /\ h.review = g.review /\ h.judge = answer /\ h.evidence = g.evidence
    BY <2>3 DEF Gate, Answers
  <2> HIDE DEF h
  <2>6. phase' = [phase EXCEPT ![p] = r]
    BY <2>2, <2>3, <2>4 DEF PhasesSound, PhaseRecord, Gate, h
  <2>7. r \in PhaseRecord /\ r.gate = h /\ r.state = phase[p].state /\ r.verified = phase[p].verified
    BY <2>3, <2>5 DEF PhaseRecord
  <2>8. Evident(r)
    <3>1. \A role \in Roles : Slot(role, h) = "passed" => Slot(role, g) = "passed"
      BY <2>4, <2>5 DEF Slot, Roles
    <3>2. QED BY <2>3, <2>5, <2>7, <3>1 DEF Evident
  <2>9. Approved(r)
    BY <2>3, <2>5, <2>7 DEF Approved
  <2>10. \A c \in Checker : InRound(c, phase[p]) => InRound(c, r)
    BY <2>5, <2>7 DEF InRound, Ended
  <2>11. judge \in Checker /\ judge.phase = p /\ InRound(judge, r)
    <3>1. g.round \in Nat /\ g.commit \in Nat
      BY <2>3 DEF Gate
    <3>2. QED BY <2>2, <2>5, <2>7, <3>1 DEF InRound, Checker, Roles
  <2>12. \A c \in checkers' : \/ c \in checkers
                              \/ c \in Checker /\ c.phase = p /\ InRound(c, r)
    BY <2>4, <2>11
  <2>13. r.begun = phase[p].begun
    BY <2>3 DEF PhaseRecord
  <2>14. Moves(phase[p], r)
    BY <2>5, <2>7, <2>13 DEF Moves, Started, Live, Unchecked
  <2> HIDE DEF r, judge
  <2>15. QED BY <2>2, <2>6, <2>7, <2>8, <2>9, <2>10, <2>12, <2>14, OnePhase
<1>3. QED BY <1>1, <1>2

(* A phase whose round is over, with the round's number or a settled state, *)
(* keeps its checkers where they are.                                      *)
LEMMA ClosedSound ==
    ASSUME PhasesSound, NEW p \in Phases, NEW r \in PhaseRecord,
           phase' = [phase EXCEPT ![p] = r], checkers' \subseteq checkers,
           r.gate.closed, ~phase[p].gate.closed,
           r.gate.round = phase[p].gate.round \/ r.state \in {"verified", "partial"},
           r.gate.commit = 0, r.begun = phase[p].begun,
           r.state \in {phase[p].state, "running", "partial", "verified"}, Started(phase[p]),
           Approved(r)
    PROVE  PhasesSound' /\ Moved
<1>1. Evident(r)
  BY DEF Evident
<1>2. \A c \in Checker : InRound(c, phase[p]) => InRound(c, r)
  BY DEF InRound, Ended
<1>3. phase[p].state # "verified"
  BY DEF PhasesSound, Approved
<1>4. Moves(phase[p], r)
  BY <1>3 DEF Moves, Started, Live, Unchecked
<1>5. QED BY <1>1, <1>2, <1>4, OnePhase

LEMMA ClosedGate ==
    ASSUME NEW g, g.round \in Nat
    PROVE  Closed(g) \in Gate /\ Closed(g).closed /\ Closed(g).round = g.round /\ Closed(g).commit = 0
<1>1. Closed(g) \in Gate /\ Closed(g).closed /\ Closed(g).round = g.round
  BY NoGateTyped DEF Closed, Gate
<1>2. Closed(g).commit = 0
  BY DEF Closed, NoGate
<1>3. QED BY <1>1, <1>2

(* Who approved a verified round approved its commit. *)
LEMMA DecidesSound ==
    ASSUME PhasesSound, JobsTyped, WorkStarted, NEW job \in jobs, Decides(job) PROVE PhasesSound' /\ Moved
<1> DEFINE p == job.phase
           g == phase[p].gate
<1>1. CASE phase' = phase
  BY <1>1, SamePhases DEF Decides
<1>2. CASE phase' # phase
  <2>1. job.do = "decide" /\ ~g.closed /\ checkers' = checkers
    BY <1>2 DEF Decides
  <2>2. p \in Phases
    BY <2>1 DEF JobsTyped, JobRecord
  <2>3. /\ phase[p] \in PhaseRecord /\ g \in Gate /\ g.round \in Nat /\ g.commit \in Nat
        /\ Evident(phase[p]) /\ Approved(phase[p]) /\ Started(phase[p])
    BY <2>1, <2>2 DEF PhasesSound, PhaseRecord, Gate, WorkStarted, GoodJobs
  <2>4. PICK userOnly \in BOOLEAN :
           LET verdict == Verdict(p, job.flag, userOnly) IN
           \/ phase' = [phase EXCEPT ![p].gate = Closed(@)]
           \/ /\ verdict = "verified"
              /\ phase' = [phase EXCEPT ![p] =
                    [Settled(p, "verified") EXCEPT !.verified = g.commit, !.gate.evidence = g.evidence]]
           \/ phase' = [phase EXCEPT ![p] =
                    [phase[p] EXCEPT !.gate = Closed(g), !.state = "running", !.fixes = @ + 1]]
           \/ phase' = [phase EXCEPT ![p] = Settled(p, "partial")]
    BY <1>2, Zenon DEF Decides
  <2>5. CASE phase' = [phase EXCEPT ![p].gate = Closed(@)]
    <3> DEFINE r == [phase[p] EXCEPT !.gate = Closed(g)]
    <3>1. phase' = [phase EXCEPT ![p] = r]
      BY <2>5
    <3>2. /\ r \in PhaseRecord /\ r.gate = Closed(g) /\ r.state = phase[p].state
          /\ r.begun = phase[p].begun
      BY <2>3, ClosedGate DEF PhaseRecord
    <3>3. Approved(r)
      BY <2>1, <2>3, <3>2 DEF Approved
    <3> HIDE DEF r
    <3>4. QED BY <2>1, <2>2, <2>3, <3>1, <3>2, <3>3, ClosedGate, ClosedSound
  <2>6. CASE phase' = [phase EXCEPT ![p] =
                          [phase[p] EXCEPT !.gate = Closed(g), !.state = "running", !.fixes = @ + 1]]
    <3> DEFINE now == phase[p]
               fixes == now.fixes + 1
               gate == Closed(g)
               r == [now EXCEPT !.gate = gate, !.state = "running", !.fixes = fixes]
    <3>1. phase' = [phase EXCEPT ![p] = r]
      BY <2>6, Zenon
    <3>2. /\ r \in PhaseRecord /\ r.gate = Closed(g) /\ r.state = "running"
          /\ r.begun = phase[p].begun
      <4>1. now \in PhaseRecord /\ fixes \in Nat /\ gate \in Gate
        BY <2>3, ClosedGate DEF PhaseRecord
      <4> HIDE DEF now, fixes, gate
      <4>2. r \in PhaseRecord /\ r.gate = gate /\ r.state = "running" /\ r.begun = now.begun
        BY <4>1 DEF PhaseRecord, PhaseStates
      <4>3. QED BY <4>2 DEF gate, now
    <3>3. Approved(r)
      BY <3>2 DEF Approved
    <3> HIDE DEF r
    <3>4. r.gate.closed /\ r.gate.round = g.round /\ r.gate.commit = 0
      BY <2>3, <3>2, ClosedGate
    <3> HIDE DEF g
    <3>5. ~phase[p].gate.closed /\ r.gate.round = phase[p].gate.round /\ checkers' \subseteq checkers
      BY <2>1, <3>4 DEF g
    <3>6. QED BY <2>2, <2>3, <3>1, <3>2, <3>3, <3>4, <3>5, ClosedSound
  <2> DEFINE closed == [NoGate EXCEPT !.closed = TRUE]
  <2>7. closed \in Gate /\ closed.closed /\ closed.commit = 0
    BY NoGateTyped DEF Gate, NoGate
  <2>8. CASE phase' = [phase EXCEPT ![p] = Settled(p, "partial")]
    <3> DEFINE r == Settled(p, "partial")
    <3>1. /\ r \in PhaseRecord /\ r.gate = closed /\ r.state = "partial"
          /\ r.begun = phase[p].begun
      BY <2>3, <2>7 DEF Settled, PhaseRecord, PhaseStates
    <3>2. Approved(r)
      BY <3>1 DEF Approved
    <3> HIDE DEF r, closed
    <3>3. QED BY <2>1, <2>2, <2>3, <2>7, <2>8, <3>1, <3>2, ClosedSound DEF r
  <2>9. CASE /\ Verdict(p, job.flag, userOnly) = "verified"
             /\ phase' = [phase EXCEPT ![p] =
                    [Settled(p, "verified") EXCEPT !.verified = g.commit, !.gate.evidence = g.evidence]]
    <3>1. g.verify = "passed" /\ g.review = "passed" /\ g.judge = "passed"
      BY <2>9 DEF Verdict
    <3>2. \A role \in Roles : <<role, g.commit>> \in g.evidence
      BY <2>1, <2>3, <3>1 DEF Evident, Slot
    <3> DEFINE s == Settled(p, "verified")
               h == [closed EXCEPT !.evidence = g.evidence]
               r == [s EXCEPT !.verified = g.commit, !.gate.evidence = g.evidence]
    <3>3. s \in PhaseRecord /\ s.gate = closed /\ s.state = "verified" /\ s.begun = phase[p].begun
      BY <2>3, <2>7 DEF Settled, PhaseRecord, PhaseStates
    <3>4. h \in Gate /\ h.closed /\ h.commit = 0 /\ h.evidence = g.evidence
      BY <2>3, <2>7 DEF Gate
    <3>5. /\ r \in PhaseRecord /\ r.gate = h /\ r.state = "verified" /\ r.verified = g.commit
          /\ r.begun = phase[p].begun
      <4> HIDE DEF s, closed
      <4>1. r = [s EXCEPT !.verified = g.commit, !.gate = h]
        BY <3>3 DEF PhaseRecord
      <4> HIDE DEF r, h
      <4>2. QED BY <2>3, <3>3, <3>4, <4>1 DEF PhaseRecord
    <3>6. Approved(r)
      BY <3>2, <3>4, <3>5 DEF Approved
    <3>7. phase' = [phase EXCEPT ![p] = r]
      BY <2>9
    <3> HIDE DEF r, h
    <3>8. QED BY <2>1, <2>2, <2>3, <3>4, <3>5, <3>6, <3>7, ClosedSound
  <2>10. QED BY <2>4, <2>5, <2>6, <2>8, <2>9
<1>3. QED BY <1>1, <1>2

(* A stopped checker approves nothing, and all of them are gone. *)
LEMMA StoppedGate ==
    ASSUME NEW p \in Phases, phase[p].gate \in Gate
    PROVE  /\ Stopped(p) \in Gate
           /\ \A role \in Roles :
                 Slot(role, Stopped(p)) \in {Slot(role, phase[p].gate), "failed"}
           /\ Stopped(p).round = phase[p].gate.round /\ Stopped(p).commit = phase[p].gate.commit
           /\ Stopped(p).closed = phase[p].gate.closed
           /\ Stopped(p).evidence = phase[p].gate.evidence
<1> DEFINE g == phase[p].gate
           cut(role) == /\ Slot(role, g) = "none" /\ ~g.closed
                        /\ \E c \in checkers : c.phase = p /\ c.role = role /\ c.round = g.round
           after(role) == IF cut(role) THEN "failed" ELSE Slot(role, g)
           v == after("verify")
           r == after("review")
           j == after("judge")
<1>1. v \in {g.verify, "failed"} /\ r \in {g.review, "failed"} /\ j \in {g.judge, "failed"}
  <2>1. /\ v \in {Slot("verify", g), "failed"} /\ r \in {Slot("review", g), "failed"}
        /\ j \in {Slot("judge", g), "failed"}
    <3> HIDE DEF cut, g
    <3>1. QED OBVIOUS
  <2>2. QED BY <2>1 DEF Slot
<1>2. Stopped(p) = [g EXCEPT !.verify = v, !.review = r, !.judge = j]
  BY Zenon DEF Stopped
<1> HIDE DEF v, r, j, g
<1>3. g \in Gate
  BY DEF g
<1>4. v \in Answers /\ r \in Answers /\ j \in Answers
  BY <1>1, <1>3 DEF Gate, Answers
<1>5. /\ Stopped(p) \in Gate
      /\ Stopped(p).verify = v /\ Stopped(p).review = r /\ Stopped(p).judge = j
      /\ Stopped(p).round = g.round /\ Stopped(p).commit = g.commit
      /\ Stopped(p).closed = g.closed /\ Stopped(p).evidence = g.evidence
  BY <1>2, <1>3, <1>4 DEF Gate
<1>6. \A role \in Roles : Slot(role, Stopped(p)) \in {Slot(role, g), "failed"}
  BY <1>1, <1>5 DEF Slot, Roles
<1>7. QED BY <1>5, <1>6 DEF g

LEMMA EndSettlesSound == ASSUME PhasesSound, RunTyped, EndSettles PROVE PhasesSound' /\ Moved
<1>1. checkers' = {}
  BY DEF EndSettles
<1>2. CASE phase' = phase
  BY <1>1, <1>2, SamePhases
<1>3. CASE phase' # phase
  <2> DEFINE state(p) == IF run.state = "windingDown" /\ phase[p].state \in {"running", "checking"}
                         THEN "partial" ELSE phase[p].state
             gate(p) == Stopped(p)
             r(p) == [phase[p] EXCEPT !.gate = gate(p), !.state = state(p)]
  <2>1. phase' = [p \in Phases |-> r(p)]
    BY <1>3 DEF EndSettles
  <2>2. ASSUME NEW p \in Phases
        PROVE  /\ r(p) \in PhaseRecord /\ Evident(r(p)) /\ Approved(r(p))
               /\ Moves(phase[p], r(p))
    <3>1. phase[p] \in PhaseRecord /\ phase[p].gate \in Gate /\ Evident(phase[p]) /\ Approved(phase[p])
      BY DEF PhasesSound, PhaseRecord
    <3>2. /\ gate(p) \in Gate
          /\ \A role \in Roles : Slot(role, gate(p)) = "passed" => Slot(role, phase[p].gate) = "passed"
          /\ gate(p).commit = phase[p].gate.commit /\ gate(p).closed = phase[p].gate.closed
          /\ gate(p).evidence = phase[p].gate.evidence
      BY <3>1, StoppedGate
    <3>3. state(p) \in PhaseStates /\ (state(p) = "verified" => phase[p].state = "verified")
      BY <3>1 DEF PhaseRecord, PhaseStates
    <3> HIDE DEF state, gate
    <3>4. /\ r(p) \in PhaseRecord /\ r(p).gate = gate(p) /\ r(p).state = state(p)
          /\ r(p).verified = phase[p].verified /\ r(p).begun = phase[p].begun
      BY <3>1, <3>2, <3>3 DEF PhaseRecord
    <3> HIDE DEF r
    <3>5. Evident(r(p))
      BY <3>1, <3>2, <3>4 DEF Evident
    <3>6. Approved(r(p))
      BY <3>1, <3>2, <3>3, <3>4 DEF Approved
    <3>7. \/ state(p) = phase[p].state
          \/ /\ state(p) = "partial" /\ phase[p].state \in {"running", "checking"}
             /\ run.state = "windingDown" /\ run'.state = "reporting"
      BY DEF state, EndSettles, RunTyped, RunRecord
    <3>8. Moves(phase[p], r(p))
      BY <3>2, <3>4, <3>7 DEF Moves, Started, Live, Unchecked
    <3>9. QED BY <3>4, <3>5, <3>6, <3>8
  <2> HIDE DEF r
  <2>3. QED BY <1>1, <2>1, <2>2 DEF PhasesSound, Moved
<1>4. QED BY <1>2, <1>3

LEMMA RestartSound == ASSUME PhasesSound, Restart PROVE PhasesSound' /\ Moved
<1>1. checkers' = {}
  BY DEF Restart
<1> DEFINE closed(p) == run.state = "phaseGate" /\ p \in Reopened /\ phase[p].gate.round > 0
           gate(p) == Closed(phase[p].gate)
           r(p) == IF closed(p) THEN [Lost(p) EXCEPT !.gate = gate(p)] ELSE Lost(p)
<1>2. phase' = [p \in Phases |-> r(p)]
  <2>1. CASE run.state = "phaseGate"
    <3>1. phase' = [p \in Phases |->
                      IF p \in Reopened /\ phase[p].gate.round > 0
                      THEN [Lost(p) EXCEPT !.gate = Closed(@)] ELSE Lost(p)]
      BY <2>1 DEF Restart
    <3>2. \A p \in Phases : Lost(p).gate = phase[p].gate
      BY DEF Lost, PhasesSound, PhaseRecord
    <3>3. QED BY <2>1, <3>1, <3>2
  <2>2. CASE run.state # "phaseGate"
    BY <2>2 DEF Restart
  <2>3. QED BY <2>1, <2>2
<1>3. ASSUME NEW p \in Phases
      PROVE  r(p) \in PhaseRecord /\ Evident(r(p)) /\ Approved(r(p)) /\ Moves(phase[p], r(p))
  <2>1. /\ phase[p] \in PhaseRecord /\ phase[p].gate.round \in Nat
        /\ Evident(phase[p]) /\ Approved(phase[p])
    BY DEF PhasesSound, PhaseRecord, Gate
  <2>2. /\ Lost(p) \in PhaseRecord /\ Lost(p).gate = phase[p].gate
        /\ Lost(p).state = phase[p].state /\ Lost(p).verified = phase[p].verified
        /\ Lost(p).begun \in {phase[p].begun, "no"}
    BY <2>1 DEF Lost, PhaseRecord
  <2>3. CASE closed(p)
    <3>1. Lost(p).state = "checking"
      BY <2>2, <2>3 DEF Reopened, InState
    <3>2. gate(p) \in Gate /\ gate(p).closed /\ gate(p).commit = 0
      BY <2>1, ClosedGate
    <3> DEFINE s == [Lost(p) EXCEPT !.gate = gate(p)]
    <3> HIDE DEF gate, closed
    <3>3. s \in PhaseRecord /\ s.gate = gate(p) /\ s.state = "checking" /\ s.begun = Lost(p).begun
      BY <2>2, <3>1, <3>2 DEF PhaseRecord
    <3>4. Evident(s) /\ Approved(s)
      BY <3>2, <3>3 DEF Evident, Approved
    <3> HIDE DEF s
    <3>5. Moves(phase[p], s)
      BY <2>2, <3>1, <3>2, <3>3 DEF Moves, Started, Live, Unchecked
    <3>6. QED BY <2>3, <3>3, <3>4, <3>5 DEF s
  <2>4. CASE ~closed(p)
    <3>1. Evident(Lost(p)) /\ Approved(Lost(p))
      BY <2>1, <2>2 DEF Evident, Approved
    <3>2. Moves(phase[p], Lost(p))
      BY <2>2 DEF Moves, Started, Live, Unchecked
    <3>3. QED BY <2>2, <2>4, <3>1, <3>2
  <2>5. QED BY <2>3, <2>4
<1> HIDE DEF r
<1>4. QED BY <1>1, <1>2, <1>3 DEF PhasesSound, Moved

LEMMA SoundNext ==
    ASSUME PhasesSound, JobsTyped, RunTyped, WorkStarted, [Next]_vars
    PROVE  PhasesSound' /\ (Moved \/ (Advances /\ \E p \in Phases : Chosen(p)))
<1>1. CASE UNCHANGED <<phase, checkers>>
  BY <1>1, SamePhases
<1>2. CASE \E p \in Phases : Steer(p) \/ Leads(p)
  BY <1>2, SteerSound, LeadsSound
<1>3. CASE Advances \/ EndSettles \/ Restart
  BY <1>3, AdvancesSound, EndSettlesSound, RestartSound
<1>4. CASE \E job \in jobs : DoneRecorded(job) \/ Opens(job) \/ JudgeStarts(job) \/ Decides(job)
  BY <1>4, DoneRecordedSound, OpensSound, JudgeStartsSound, DecidesSound
<1>5. CASE \E c \in checkers : MemberReports(c)
  BY <1>5, MemberReportsSound
<1>6. \/ UNCHANGED <<phase, checkers>>
      \/ \E p \in Phases : Steer(p) \/ Leads(p)
      \/ Advances \/ EndSettles \/ Restart
      \/ \E job \in jobs : DoneRecorded(job) \/ Opens(job) \/ JudgeStarts(job) \/ Decides(job)
      \/ \E c \in checkers : MemberReports(c)
  <2>1. Start \/ Stop \/ Prepare \/ EndPosts \/ EndFinishes \/ ClockResumes \/ Over
           => UNCHANGED <<phase, checkers>>
    BY DEF Start, Stop, Prepare, EndPosts, EndFinishes, ClockResumes, Over, vars, memory
  <2>2. PhaseDone \/ CheckedAsIs => UNCHANGED <<phase, checkers>>
    BY DEF PhaseDone, CheckedAsIs
  <2>3. \A p \in Phases : Delegate(p) \/ TaskEnds(p) => UNCHANGED <<phase, checkers>>
    BY DEF Delegate, TaskEnds, memory
  <2>4. UNCHANGED vars => UNCHANGED <<phase, checkers>>
    BY DEF vars, memory
  <2>5. QED BY <2>1, <2>2, <2>3, <2>4 DEF Next, User, Conductor, Agents, Ends
<1>7. QED BY <1>1, <1>2, <1>3, <1>4, <1>5, <1>6

-----------------------------------------------------------------------------
(* What is spawned is about a phase that started and a commit of the branch. *)
LEMMA TipTyped == ASSUME JobsTyped PROVE tip \in Nat
  BY DEF JobsTyped, tip

LEMMA GoodSpawned ==
    ASSUME JobsTyped
    PROVE  /\ Job("prepare", 0) \in GoodJobs /\ Advance \in GoodJobs
           /\ \A p \in Phases, n \in Nat, b \in BOOLEAN : Started(phase[p]) =>
                 /\ n <= tip => Open(p, n, b) \in GoodJobs
                 /\ Decide(p, b) \in GoodJobs /\ Judge(p, b) \in GoodJobs
<1>1. tip \in Nat /\ 0 <= tip
  BY TipTyped
<1>2. /\ Job("prepare", 0).commit = 0 /\ Job("prepare", 0).do = "prepare"
      /\ Advance.commit = 0 /\ Advance.do = "advance"
  BY DEF Job, Advance
<1>3. ASSUME NEW p \in Phases, NEW n \in Nat, NEW b \in BOOLEAN
      PROVE  /\ Open(p, n, b).phase = p /\ Open(p, n, b).commit = n
             /\ Decide(p, b).phase = p /\ Decide(p, b).commit = 0
             /\ Judge(p, b).phase = p /\ Judge(p, b).commit = 0
  BY DEF Job, Open, Decide, Judge
<1>4. QED BY <1>1, <1>2, <1>3, Spawned DEF GoodJobs

LEMMA FollowsGood ==
    ASSUME JobsTyped, NEW p \in Phases, Started(phase[p]), NEW g
    PROVE  Follows(p, g) \subseteq GoodJobs
<1>1. (run.state \notin {"running", "phaseGate"}) \in BOOLEAN
  OBVIOUS
<1>2. QED BY <1>1, GoodSpawned, Zenon DEF Follows

LEMMA DoneGood ==
    ASSUME JobsTyped, NEW p \in Phases, Started(phase[p]) PROVE Done(p) \in GoodJobs
<1>1. tip \in Nat /\ tip <= tip
  BY TipTyped
<1>2. ASSUME NEW n \in Nat
      PROVE  LET j == [Job("done", p) EXCEPT !.commit = n]
             IN  j \in JobRecord /\ j.phase = p /\ j.commit = n
  BY DEF Job, JobRecord, Work
<1>3. Done(p) \in JobRecord /\ Done(p).phase = p /\ Done(p).commit = tip
  <2> DEFINE n == tip
  <2>1. n \in Nat /\ Done(p) = [Job("done", p) EXCEPT !.commit = n]
    BY <1>1 DEF Done
  <2> HIDE DEF n
  <2>2. Done(p) \in JobRecord /\ Done(p).phase = p /\ Done(p).commit = n
    BY <1>2, <2>1
  <2>3. QED BY <2>2 DEF n
<1>4. QED BY <1>1, <1>3 DEF GoodJobs

LEMMA JobsConductor ==
    ASSUME PhasesSound, JobsTyped, WorkStarted, OnBranch, NEW job \in jobs,
           DoneRecorded(job) \/ Opens(job) \/ JudgeStarts(job) \/ Decides(job)
    PROVE  jobs' \subseteq GoodJobs
<1> DEFINE p == job.phase
<1>1. job \in JobRecord /\ job.commit \in Nat /\ job.commit <= tip /\ job.flag \in BOOLEAN
  BY DEF JobsTyped, JobRecord, WorkStarted, GoodJobs
<1>2. job.do \notin {"prepare", "advance"}
  BY DEF DoneRecorded, Opens, JudgeStarts, Decides
<1>3. p \in Phases /\ Started(phase[p])
  BY <1>1, <1>2 DEF JobRecord, WorkStarted, GoodJobs
<1>4. CASE DoneRecorded(job)
  <2>1. Open(p, job.commit, FALSE) \in GoodJobs
    BY <1>1, <1>3, GoodSpawned
  <2>2. jobs' \subseteq jobs \cup {Open(p, job.commit, FALSE)}
    BY <1>4 DEF DoneRecorded
  <2>3. QED BY <2>1, <2>2 DEF WorkStarted
<1>5. CASE Opens(job)
  <2>1. Decide(p, FALSE) \in GoodJobs
    BY <1>3, GoodSpawned
  <2>2. jobs' \subseteq jobs \cup {Decide(p, FALSE)}
    BY <1>5 DEF Opens
  <2>3. QED BY <2>1, <2>2 DEF WorkStarted
<1>6. CASE JudgeStarts(job)
  <2> DEFINE follows == Follows(p, [phase[p].gate EXCEPT !.judge = "failed"])
  <2>1. Decide(p, job.flag) \in GoodJobs /\ follows \subseteq GoodJobs
    BY <1>1, <1>3, GoodSpawned, FollowsGood
  <2>2. jobs' \subseteq jobs \cup {Decide(p, job.flag)} \cup follows
    BY <1>6, Zenon DEF JudgeStarts
  <2> HIDE DEF follows
  <2>3. QED BY <2>1, <2>2 DEF WorkStarted
<1>7. CASE Decides(job)
  <2> DEFINE commit == phase[p].gate.commit
             all == {Advance, Open(p, commit, TRUE), Open(p, tip, FALSE)}
  <2>1. commit \in Nat /\ commit <= tip /\ tip \in Nat /\ tip <= tip
    BY <1>3, TipTyped DEF PhasesSound, PhaseRecord, Gate, OnBranch
  <2>2. all \subseteq GoodJobs
    BY <1>3, <2>1, GoodSpawned
  <2>3. jobs' \subseteq jobs \cup all
    BY <1>7, Zenon DEF Decides
  <2> HIDE DEF all
  <2>4. QED BY <2>2, <2>3 DEF WorkStarted
<1>8. QED BY <1>4, <1>5, <1>6, <1>7

LEMMA JobsAgents ==
    ASSUME PhasesSound, JobsTyped, WorkStarted, Agents
    PROVE  jobs' \subseteq GoodJobs
<1>1. CASE PhaseDone \/ CheckedAsIs
  <2>1. PICK p \in TheFirst(InState({"running"})) : jobs' = jobs \cup {Done(p)}
    BY <1>1 DEF PhaseDone, CheckedAsIs
  <2>2. p \in Phases /\ Started(phase[p])
    BY FirstInState DEF Started
  <2>3. QED BY <2>1, <2>2, DoneGood DEF WorkStarted
<1>2. ASSUME NEW p \in Phases, Delegate(p) \/ TaskEnds(p) PROVE jobs' \subseteq GoodJobs
  BY <1>2 DEF Delegate, TaskEnds, memory, WorkStarted
<1>3. ASSUME NEW c \in checkers, MemberReports(c) PROVE jobs' \subseteq GoodJobs
  <2>1. c.phase \in Phases /\ Started(phase[c.phase])
    BY DEF PhasesSound, Checker, WorkStarted
  <2>2. \E g : jobs' \subseteq jobs \cup Follows(c.phase, g)
    BY <1>3, Zenon DEF MemberReports
  <2>3. QED BY <2>1, <2>2, FollowsGood DEF WorkStarted
<1>4. QED BY <1>1, <1>2, <1>3 DEF Agents

(* A phase whose round the stop of the checkers changes had one at work. *)
LEMMA CutStarted ==
    ASSUME PhasesSound, WorkStarted, NEW p \in Phases, Stopped(p) # phase[p].gate
    PROVE  Started(phase[p])
<1>1. CASE \E c \in checkers : c.phase = p
  BY <1>1 DEF WorkStarted
<1>2. CASE ~\E c \in checkers : c.phase = p
  <2> DEFINE g == phase[p].gate
             v == g.verify
             r == g.review
             j == g.judge
  <2>1. Stopped(p) = [g EXCEPT !.verify = v, !.review = r, !.judge = j]
    BY <1>2 DEF Stopped, Slot
  <2>2. g \in Gate
    BY DEF PhasesSound, PhaseRecord
  <2>3. [g EXCEPT !.verify = v, !.review = r, !.judge = j] = g
    <3> HIDE DEF g
    <3>1. QED BY <2>2 DEF Gate
  <2>4. QED BY <2>1, <2>3
<1>3. QED BY <1>1, <1>2

LEMMA JobsNext ==
    ASSUME PhasesSound, JobsTyped, WorkStarted, OnBranch, [Next]_vars
    PROVE  jobs' \subseteq GoodJobs
<1>1. CASE Start \/ Prepare \/ Advances \/ \E p \in Phases : Steer(p) \/ Leads(p)
  <2>1. jobs' \subseteq jobs \cup {Job("prepare", 0), Advance}
    BY <1>1 DEF Start, Prepare, Advances, Steer, Leads
  <2>2. QED BY <2>1, GoodSpawned DEF WorkStarted
<1>2. CASE \E job \in jobs : DoneRecorded(job) \/ Opens(job) \/ JudgeStarts(job) \/ Decides(job)
  BY <1>2, JobsConductor
<1>3. CASE Agents
  BY <1>3, JobsAgents
<1>4. CASE EndSettles
  <2> DEFINE cut == {q \in Phases : Stopped(q) # phase[q].gate}
  <2>1. jobs' \subseteq jobs \cup UNION {Follows(p, Stopped(p)) : p \in cut}
    BY <1>4, Zenon DEF EndSettles
  <2>2. \A p \in cut : Follows(p, Stopped(p)) \subseteq GoodJobs
    BY CutStarted, FollowsGood
  <2> HIDE DEF cut
  <2>3. UNION {Follows(p, Stopped(p)) : p \in cut} \subseteq GoodJobs
    BY <2>2
  <2>4. QED BY <2>1, <2>3 DEF WorkStarted
<1>5. CASE Restart
  <2>1. \A p \in Reopened : Open(p, Candidate(p), FALSE) \in GoodJobs
    <3>1. \A p \in Reopened : /\ p \in Phases /\ Started(phase[p])
                               /\ Candidate(p) \in Nat /\ Candidate(p) <= tip
      BY TipTyped DEF Reopened, InState, Candidate, PhasesSound, PhaseRecord, Gate, OnBranch, Started
    <3>2. QED BY <3>1, GoodSpawned
  <2>2. \/ jobs' = {Open(p, Candidate(p), FALSE) : p \in Reopened}
        \/ jobs' \in {{Job("prepare", 0)}, {Advance}, {}}
    BY <1>5 DEF Restart
  <2>3. QED BY <2>1, <2>2, GoodSpawned
<1>6. CASE Stop \/ EndPosts \/ EndFinishes \/ ClockResumes \/ UNCHANGED vars
  <2>1. jobs' = jobs
    BY <1>6 DEF Stop, EndPosts, EndFinishes, ClockResumes, vars, memory
  <2>2. QED BY <2>1 DEF WorkStarted
<1>7. QED BY <1>1, <1>2, <1>3, <1>4, <1>5, <1>6 DEF Next, User, Conductor, Ends, Over

(* The branch grows by the commits of phases with an open task. *)
LEMMA BranchNext ==
    ASSUME JobsTyped, WorkStarted, [Next]_vars
    PROVE  author' = author \/ \E p \in open : author' = Append(author, p)
<1>1. User \/ Conductor \/ Ends \/ ClockResumes \/ Restart \/ Over \/ UNCHANGED vars => author' = author
  <2>1. User => author' = author
    BY DEF User, Start, Stop, Steer, world
  <2>2. Conductor => author' = author
    BY DEF Conductor, Prepare, Advances, Leads, DoneRecorded, Opens, JudgeStarts, Decides, world
  <2>3. QED BY <2>1, <2>2 DEF Ends, EndSettles, EndPosts, EndFinishes, ClockResumes, Restart, Over, vars, world
<1>2. Agents => author' = author \/ \E p \in open : author' = Append(author, p)
  BY DEF Agents, PhaseDone, CheckedAsIs, Delegate, TaskEnds, MemberReports, world
<1>3. QED BY <1>1, <1>2 DEF Next

LEMMA JobsTypedNext ==
    ASSUME PhasesSound, JobsTyped, WorkStarted, OnBranch, [Next]_vars PROVE JobsTyped'
<1>1. jobs' \subseteq JobRecord
  BY JobsNext DEF GoodJobs
<1>2. author' \in Seq(Phases)
  BY BranchNext DEF JobsTyped, WorkStarted
<1>3. QED BY <1>1, <1>2 DEF JobsTyped

-----------------------------------------------------------------------------
(* The run's record. *)
LEMMA StateTyped ==
    ASSUME RunTyped, NEW s \in RunStates, run' = [run EXCEPT !.state = s] PROVE RunTyped'
  BY DEF RunTyped, RunRecord

LEMMA RunNext == ASSUME RunTyped, PhasesSound, JobsTyped, [Next]_vars PROVE RunTyped'
<1>1. CASE run' = run
  BY <1>1 DEF RunTyped
<1>2. CASE \E s \in RunStates : run' = [run EXCEPT !.state = s]
  BY <1>2, StateTyped
<1>3. CASE run' = [run EXCEPT !.branch = TRUE]
  BY <1>3 DEF RunTyped, RunRecord
<1>4. CASE \E job \in jobs : Decides(job)
  <2>1. PICK job \in jobs : Decides(job)
    BY <1>4
  <2> DEFINE p == job.phase
             onward == IF run.state = "phaseGate" THEN "running" ELSE run.state
             merge == MergePoint(p)
  <2>2. p \in Phases
    BY <2>1 DEF Decides, JobsTyped, JobRecord
  <2>3. merge \in Nat
    BY <2>2 DEF MergePoint, PhasesSound, PhaseRecord, Gate, RunTyped, RunRecord
  <2>4. onward \in RunStates
    BY DEF RunTyped, RunRecord, RunStates
  <2>5. \/ run' = run
        \/ run' = [run EXCEPT !.state = onward, !.merge = merge]
        \/ run' = [run EXCEPT !.state = onward]
    BY <2>1, Zenon DEF Decides
  <2> HIDE DEF onward, merge
  <2>6. QED BY <2>3, <2>4, <2>5 DEF RunTyped, RunRecord
<1>5. \/ run' = run
      \/ \E s \in RunStates : run' = [run EXCEPT !.state = s]
      \/ run' = [run EXCEPT !.branch = TRUE]
      \/ \E job \in jobs : Decides(job)
  <2>1. User => run' = run \/ \E s \in RunStates : run' = [run EXCEPT !.state = s]
    <3>1. Start => run' = [run EXCEPT !.state = "preparing"]
      BY DEF Start
    <3>2. Stop => run' = [run EXCEPT !.state = "superseded"] \/ run' = [run EXCEPT !.state = "windingDown"]
      BY DEF Stop
    <3>3. \A p \in Phases : Steer(p) => run' = run
      BY DEF Steer
    <3>4. QED BY <3>1, <3>2, <3>3, Zenon DEF User, RunStates
  <2>2. Prepare => \/ run' = run \/ run' = [run EXCEPT !.branch = TRUE]
                   \/ \E s \in RunStates : run' = [run EXCEPT !.state = s]
    BY Zenon DEF Prepare, RunStates
  <2>3. Advances => run' = run \/ \E s \in RunStates : run' = [run EXCEPT !.state = s]
    BY Zenon DEF Advances, RunStates
  <2>4. \A p \in Phases : Leads(p) => run' = run
    BY DEF Leads
  <2>5. \A job \in jobs : DoneRecorded(job) \/ Opens(job) \/ JudgeStarts(job) =>
           run' = run \/ \E s \in RunStates : run' = [run EXCEPT !.state = s]
    BY Zenon DEF DoneRecorded, Opens, JudgeStarts, RunStates
  <2>6. Agents => run' = run
    BY DEF Agents, PhaseDone, CheckedAsIs, Delegate, TaskEnds, MemberReports
  <2>7. Ends => run' = run \/ \E s \in RunStates : run' = [run EXCEPT !.state = s]
    BY Zenon DEF Ends, EndSettles, EndPosts, EndFinishes, RunStates
  <2>8. ClockResumes \/ Restart \/ Over \/ UNCHANGED vars => run' = run
    BY DEF ClockResumes, Restart, Over, vars
  <2>9. QED BY <2>1, <2>2, <2>3, <2>4, <2>5, <2>6, <2>7, <2>8, Zenon DEF Next, Conductor
<1>6. QED BY <1>1, <1>2, <1>3, <1>4, <1>5

-----------------------------------------------------------------------------
(* No run ends without a report, but for one of which nothing began.       *)
LEMMA StoppedUntouched ==
    ASSUME Untouched, NEW job \in jobs
    PROVE  job.do \in {"prepare", "advance"}
  BY DEF Untouched, Job, Advance

LEMMA ReportedConductor ==
    ASSUME Reported, RunTyped, Prepare \/ Advances \/ (\E p \in Phases : Leads(p)) PROVE Reported'
<1>1. posted' = posted /\ checkers' = checkers
  BY DEF Prepare, Advances, Leads, world
<1>2. CASE Prepare
  <2>1. phase' = phase /\ ending' = ending /\ jobs' \subseteq jobs \cup {Advance}
    BY <1>2 DEF Prepare
  <2>2. Untouched => Untouched'
    BY <1>1, <2>1 DEF Untouched, Advance, Job
  <2>3. \/ run' = run
        \/ run.state = "preparing" /\ run'.state = run.state
        \/ run.state = "preparing" /\ run'.state = "finished"
    BY <1>2 DEF Prepare, RunTyped, RunRecord
  <2>4. QED BY <1>1, <2>1, <2>2, <2>3 DEF Reported
<1>3. CASE Advances
  <2>1. \/ /\ run'.state \notin {"proposed", "superseded", "preparing", "finished"}
           /\ ending' \in {ending, "waiting"}
        \/ UNCHANGED <<run, phase, ending>> /\ jobs' \subseteq jobs
    BY <1>3 DEF Advances, EndsOnce, RunTyped, RunRecord
  <2>2. QED BY <1>1, <2>1 DEF Reported, Untouched
<1>4. ASSUME NEW p \in Phases, Leads(p) PROVE Reported'
  <2>1. UNCHANGED <<run, ending, jobs>> /\ Active /\ phase[p].state = "running"
    BY <1>4 DEF Leads
  <2>2. ~Untouched
    BY <2>1 DEF Untouched
  <2>3. QED BY <1>1, <2>1, <2>2 DEF Reported, Active
<1>5. QED BY <1>2, <1>3, <1>4

LEMMA ReportedJobs ==
    ASSUME Reported, RunTyped, PhasesSound, JobsTyped, NEW job \in jobs,
           DoneRecorded(job) \/ Opens(job) \/ JudgeStarts(job) \/ Decides(job)
    PROVE  Reported'
<1>1. ~Untouched
  BY StoppedUntouched DEF DoneRecorded, Opens, JudgeStarts, Decides
<1>2. UNCHANGED <<posted, ending>>
  BY DEF DoneRecorded, Opens, JudgeStarts, Decides, world
<1>3. run'.state \in {run.state, "phaseGate", "running"}
  <2> DEFINE onward == IF run.state = "phaseGate" THEN "running" ELSE run.state
             p == job.phase
  <2>1. \/ run' = run
        \/ run' = [run EXCEPT !.state = "phaseGate"]
        \/ \E merge : run' = [run EXCEPT !.state = onward, !.merge = merge]
        \/ run' = [run EXCEPT !.state = onward]
    BY Zenon DEF DoneRecorded, Opens, JudgeStarts, Decides
  <2>2. QED BY <2>1 DEF RunTyped, RunRecord
<1>4. QED BY <1>1, <1>2, <1>3 DEF Reported

LEMMA ReportedUser ==
    ASSUME Reported, RunTyped, phase \in [Phases -> PhaseRecord], User PROVE Reported'
<1>1. posted' = posted /\ checkers' = checkers
  BY DEF User, Start, Stop, Steer, world
<1>2. CASE Start
  <2>1. /\ run.state = "proposed" /\ run'.state = "preparing" /\ UNCHANGED <<phase, ending>>
        /\ jobs' = jobs \cup {Job("prepare", 0)}
    BY <1>2 DEF Start
  <2>2. QED BY <1>1, <2>1 DEF Reported, Untouched
<1>3. CASE Stop
  <2>1. /\ run.state \notin {"superseded", "finished"} /\ UNCHANGED <<phase, jobs>>
        /\ \/ run.state = "proposed" /\ run'.state = "superseded" /\ ending' = ending
           \/ run'.state = "windingDown" /\ ending' \in {ending, "waiting"}
    BY <1>3 DEF Stop, EndsOnce, Active
  <2>2. QED BY <1>1, <2>1 DEF Reported, Untouched
<1>4. ASSUME NEW p \in Phases, Steer(p) PROVE Reported'
  <2>1. UNCHANGED <<run, ending>> /\ jobs' = jobs \cup {Advance}
    BY <1>4 DEF Steer
  <2>2. PICK s \in {"pending", "skipped"} : phase' = [phase EXCEPT ![p].state = s]
    BY <1>4 DEF Steer
  <2>3. \A q \in Phases : phase'[q].state \in {phase[q].state, s}
    BY <2>2 DEF PhaseRecord
  <2>4. Untouched => Untouched'
    BY <1>1, <2>1, <2>3 DEF Untouched
  <2>5. QED BY <1>1, <2>1, <2>4 DEF Reported
<1>5. QED BY <1>2, <1>3, <1>4 DEF User

LEMMA ReportedAgents == ASSUME Reported, RunTyped, Agents PROVE Reported'
<1>1. CASE PhaseDone \/ CheckedAsIs
  <2>1. UNCHANGED <<run, posted, ending>>
    BY <1>1 DEF PhaseDone, CheckedAsIs, world
  <2>2. \E p \in Phases : phase[p].state \in {"running"}
    BY <1>1, FirstInState DEF PhaseDone, CheckedAsIs
  <2>3. run.state \notin {"proposed", "superseded", "preparing"} /\ ~Untouched
    BY <2>2 DEF Reported, Untouched
  <2>4. QED BY <2>1, <2>3 DEF Reported
<1>2. ASSUME NEW p \in Phases, Delegate(p) \/ TaskEnds(p) PROVE Reported'
  <2>1. UNCHANGED <<run, phase, checkers, jobs, ending, posted>>
    BY <1>2 DEF Delegate, TaskEnds, memory
  <2>2. QED BY <2>1 DEF Reported, Untouched
<1>3. ASSUME NEW c \in checkers, MemberReports(c) PROVE Reported'
  <2>1. ~Untouched /\ UNCHANGED <<run, ending, posted>>
    BY <1>3 DEF Untouched, MemberReports
  <2>2. QED BY <2>1 DEF Reported
<1>4. QED BY <1>1, <1>2, <1>3 DEF Agents

LEMMA ReportedEnds == ASSUME Reported, RunTyped, Ends \/ ClockResumes \/ Restart PROVE Reported'
<1>1. CASE EndSettles
  <2>1. /\ ending = "waiting" /\ posted' = posted /\ ending' \in {"settled", "no"}
        /\ checkers' = {}
    BY <1>1 DEF EndSettles
  <2>2. run.state \notin {"proposed", "superseded", "preparing"}
    BY <2>1 DEF Reported
  <2>3. CASE run.state = "finished"
    <3>1. UNCHANGED <<run, phase, jobs>>
      BY <1>1, <2>3 DEF EndSettles, Active
    <3>2. QED BY <2>1, <2>2, <2>3, <3>1 DEF Reported, Untouched
  <2>4. CASE run.state # "finished"
    <3>1. run'.state \in {run.state, "reporting"}
      BY <1>1 DEF EndSettles, RunTyped, RunRecord
    <3>2. QED BY <2>1, <2>2, <2>4, <3>1 DEF Reported
  <2>5. QED BY <2>3, <2>4
<1>2. CASE EndPosts
  <2>1. /\ ending = "settled" /\ ending' = "posted" /\ run' = run
        /\ posted' = IF posted > 0 THEN posted ELSE posted + 1
    BY <1>2 DEF EndPosts
  <2>2. posted' = 1
    BY <2>1 DEF Reported
  <2>3. QED BY <2>1, <2>2 DEF Reported
<1>3. CASE EndFinishes
  <2>1. /\ ending = "posted" /\ posted' = posted /\ ending' = "no"
        /\ run'.state = run.state \/ run'.state = "finished"
    BY <1>3 DEF EndFinishes, world, RunTyped, RunRecord
  <2>2. QED BY <2>1 DEF Reported
<1>4. CASE ClockResumes
  <2>1. run.state = "reporting" /\ run' = run /\ posted' = posted /\ ending' = "waiting"
    BY <1>4 DEF ClockResumes, world
  <2>2. QED BY <2>1 DEF Reported
<1>5. CASE Restart
  <2>1. /\ Active /\ run' = run /\ posted' = posted
        /\ ending' = IF WindingDown THEN "waiting" ELSE "no"
        /\ checkers' = {}
    BY <1>5 DEF Restart
  <2>2. CASE run.state = "preparing"
    <3>1. jobs' = {Job("prepare", 0)} /\ phase' = [p \in Phases |-> Lost(p)]
      BY <1>5, <2>2 DEF Restart
    <3>2. \A p \in Phases : Lost(p).state = phase[p].state
      BY DEF Lost
    <3>3. QED BY <2>1, <2>2, <3>1, <3>2 DEF Reported, Untouched, WindingDown
  <2>3. CASE run.state # "preparing"
    BY <2>1, <2>3 DEF Reported, Active
  <2>4. QED BY <2>2, <2>3
<1>6. QED BY <1>1, <1>2, <1>3, <1>4, <1>5 DEF Ends

LEMMA ReportedNext ==
    ASSUME Reported, RunTyped, PhasesSound, JobsTyped, [Next]_vars PROVE Reported'
<1>1. UNCHANGED vars => Reported'
  BY DEF vars, memory, world, Reported, Untouched
<1>2. phase \in [Phases -> PhaseRecord]
  BY DEF PhasesSound
<1>3. QED BY <1>1, <1>2, ReportedConductor, ReportedJobs, ReportedUser, ReportedAgents, ReportedEnds
          DEF Next, Conductor, Over

-----------------------------------------------------------------------------
(* One phase at a time, and the merge point behind no unfinished one.      *)
LEMMA OrderedInit == Init => Ordered
<1> SUFFICES ASSUME Init PROVE Ordered
  OBVIOUS
<1>1. /\ \A p \in Phases : phase[p].state = "pending" /\ phase[p].gate.commit = 0
      /\ jobs = {} /\ checkers = {} /\ open = {} /\ tip = 0 /\ run.merge = 0
  BY DEF Init, NoGate, tip
<1>2. OneLive /\ EndedOpen /\ OnBranch
  BY <1>1 DEF OneLive, EndedOpen, OnBranch, Live, Started, Unchecked
<1>3. WorkStarted /\ Covered
  BY <1>1 DEF WorkStarted, Covered
<1>4. QED BY <1>2, <1>3 DEF Ordered

(* A run that was ending is taken back only for a phase at work.           *)
LEMMA TakenBack ==
    ASSUME RunTyped, JobsTyped, [Next]_vars,
           run.state \in {"reporting", "finished"}, run'.state \notin {"reporting", "finished"}
    PROVE  \E p \in Phases : phase[p].state \in {"running", "checking"}
<1>1. User \/ Prepare \/ Advances \/ Agents \/ Ends \/ ClockResumes \/ Restart \/ Over \/ UNCHANGED vars
         => run'.state \in {"reporting", "finished"}
  <2>1. User => run' = run
    BY DEF User, Start, Stop, Steer
  <2>2. Prepare \/ Advances => run' = run
    BY DEF Prepare, Advances
  <2>3. Agents => run' = run
    BY DEF Agents, PhaseDone, CheckedAsIs, Delegate, TaskEnds, MemberReports
  <2>4. Ends => run'.state \in {"reporting", "finished"}
    BY DEF Ends, EndSettles, EndPosts, EndFinishes, RunTyped, RunRecord
  <2>5. ClockResumes \/ Restart \/ Over \/ UNCHANGED vars => run' = run
    BY DEF ClockResumes, Restart, Over, vars
  <2>6. QED BY <2>1, <2>2, <2>3, <2>4, <2>5
<1>2. \A p \in Phases : Leads(p) => run' = run
  BY DEF Leads
<1>3. ASSUME NEW job \in jobs, DoneRecorded(job) \/ Opens(job)
      PROVE  run' = run \/ phase[job.phase].state \in {"running", "checking"}
  BY <1>3 DEF DoneRecorded, Opens
<1>4. ASSUME NEW job \in jobs, JudgeStarts(job) \/ Decides(job)
      PROVE  run'.state \in {"reporting", "finished"}
  <2>1. \/ run' = run
        \/ \E merge : run' = [run EXCEPT !.state = run.state, !.merge = merge]
        \/ run' = [run EXCEPT !.state = run.state]
    <3>1. JudgeStarts(job) => run' = run
      BY DEF JudgeStarts
    <3>2. (IF run.state = "phaseGate" THEN "running" ELSE run.state) = run.state
      OBVIOUS
    <3>3. Decides(job) => \/ run' = run
                          \/ \E merge : run' = [run EXCEPT !.state = run.state, !.merge = merge]
                          \/ run' = [run EXCEPT !.state = run.state]
      BY <3>2, Zenon DEF Decides
    <3>4. QED BY <1>4, <3>1, <3>3
  <2>2. QED BY <2>1 DEF RunTyped, RunRecord
<1>5. PICK job \in jobs : DoneRecorded(job) \/ Opens(job)
  BY <1>1, <1>2, <1>4 DEF Next, Conductor
<1>6. job.phase \in Phases
  BY <1>5 DEF JobsTyped, JobRecord, DoneRecorded, Opens
<1>7. QED BY <1>3, <1>5, <1>6

(* Choosing a phase sets it running and leaves its gate and every other phase alone. *)
LEMMA ChosenOne ==
    ASSUME PhasesSound, NEW p \in Phases, Chosen(p)
    PROVE  /\ phase'[p].state = "running"
           /\ phase'[p].gate = phase[p].gate
           /\ \A q \in Phases \ {p} : phase'[q] = phase[q]
<1> DEFINE r == [phase[p] EXCEPT !.state = "running", !.begun = "chosen"]
<1>1. phase' = [phase EXCEPT ![p] = r]
  BY DEF Chosen
<1>2. phase \in [Phases -> PhaseRecord]
  BY DEF PhasesSound
<1>3. phase'[p] = r /\ \A q \in Phases \ {p} : phase'[q] = phase[q]
  BY <1>1, <1>2
<1>4. r.state = "running" /\ r.gate = phase[p].gate
  BY <1>2 DEF PhaseRecord
<1>5. QED BY <1>3, <1>4

(* What phases keep, whether one is chosen or not. *)
LEMMA Kept ==
    ASSUME PhasesSound, Moved \/ \E p \in Phases : Chosen(p), NEW q \in Phases
    PROVE  /\ Started(phase[q]) => Started(phase'[q])
           /\ phase'[q].gate.commit \in {phase[q].gate.commit, 0} \cup {j.commit : j \in jobs}
<1>1. CASE Moved
  BY <1>1 DEF Moved, Moves
<1>2. ASSUME NEW p \in Phases, Chosen(p)
      PROVE  /\ Started(phase[q]) => Started(phase'[q])
             /\ phase'[q].gate = phase[q].gate
  <2>1. CASE q = p
    BY <1>2, <2>1, ChosenOne DEF Started
  <2>2. CASE q # p
    BY <1>2, <2>2, ChosenOne
  <2>3. QED BY <2>1, <2>2
<1>3. QED BY <1>1, <1>2

(* No phase is live when one is chosen. *)
LEMMA NoneLive ==
    ASSUME PhasesSound, EndedOpen, NEW p \in Phases, Chosen(p), NEW q \in Phases
    PROVE  ~Live(phase[q])
<1>1. phase[q].state \notin {"running", "checking"}
  BY DEF Chosen, InState
<1>2. ~Unchecked(phase[q])
  BY DEF EndedOpen, Chosen
<1>3. phase[q].state \in PhaseStates /\ (phase[q].state = "verified" => phase[q].gate.closed)
  BY DEF PhasesSound, PhaseRecord, Approved
<1>4. QED BY <1>1, <1>2, <1>3 DEF Live, Started, Unchecked, PhaseStates

LEMMA OneLiveNext ==
    ASSUME PhasesSound, OneLive, EndedOpen, Moved \/ \E p \in Phases : Chosen(p)
    PROVE  OneLive'
<1>1. CASE Moved
  BY <1>1 DEF Moved, Moves, OneLive
<1>2. ASSUME NEW p \in Phases, Chosen(p) PROVE OneLive'
  <2>1. \A q \in Phases \ {p} : phase'[q] = phase[q]
    BY <1>2, ChosenOne
  <2>2. \A q \in Phases \ {p} : ~Live(phase'[q])
    BY <1>2, <2>1, NoneLive
  <2>3. QED BY <2>2 DEF OneLive
<1>3. QED BY <1>1, <1>2

LEMMA EndedOpenNext ==
    ASSUME PhasesSound, JobsTyped, RunTyped, OneLive, EndedOpen, [Next]_vars,
           Moved \/ \E p \in Phases : Chosen(p)
    PROVE  EndedOpen'
<1> SUFFICES ASSUME NEW u \in Phases, Unchecked(phase'[u]), run'.state \notin {"reporting", "finished"}
             PROVE  FALSE
  BY DEF EndedOpen
<1>1. CASE Moved
  <2>1. Unchecked(phase[u])
    BY <1>1 DEF Moved, Moves
  <2>2. PICK p \in Phases : phase[p].state \in {"running", "checking"}
    BY <2>1, TakenBack DEF EndedOpen
  <2>3. Live(phase[u]) /\ Live(phase[p]) /\ p # u
    BY <2>1, <2>2 DEF Live, Started, Unchecked
  <2>4. QED BY <2>3 DEF OneLive
<1>2. ASSUME NEW p \in Phases, Chosen(p) PROVE FALSE
  <2>1. phase'[p].state = "running" /\ \A q \in Phases \ {p} : phase'[q] = phase[q]
    BY <1>2, ChosenOne
  <2>2. Unchecked(phase[u])
    BY <2>1 DEF Unchecked
  <2>3. QED BY <1>2, <2>2 DEF EndedOpen, Chosen
<1>3. QED BY <1>1, <1>2

(* Whoever comes to work on a phase comes to one that started. *)
LEMMA Joined ==
    ASSUME JobsTyped, WorkStarted, [Next]_vars
    PROVE  /\ \A c \in checkers' : c \in checkers \/ Started(phase[c.phase])
           /\ \A p \in open' : p \in open \/ (p \in Phases /\ Started(phase[p]))
<1>1. CASE User \/ Ends \/ ClockResumes \/ Restart \/ Over \/ UNCHANGED vars
  <2>1. checkers' \subseteq checkers /\ open' \subseteq open
    BY <1>1 DEF User, Start, Stop, Steer, Ends, EndSettles, EndPosts, EndFinishes, ClockResumes,
                Restart, Over, vars, memory, world
  <2>2. QED BY <2>1
<1>2. CASE Prepare \/ Advances \/ \E p \in Phases : Leads(p)
  BY <1>2 DEF Prepare, Advances, Leads, world
<1>3. ASSUME NEW job \in jobs, DoneRecorded(job) \/ Opens(job) \/ JudgeStarts(job) \/ Decides(job)
      PROVE  /\ open' = open
             /\ \A c \in checkers' : c \in checkers \/ Started(phase[c.phase])
  <2>1. open' = open
    BY <1>3 DEF DoneRecorded, Opens, JudgeStarts, Decides, world
  <2>2. Started(phase[job.phase])
    BY <1>3 DEF DoneRecorded, Opens, JudgeStarts, Decides, WorkStarted, GoodJobs
  <2>3. DoneRecorded(job) \/ Decides(job) => checkers' = checkers
    BY DEF DoneRecorded, Decides
  <2>4. Opens(job) => \A c \in checkers' : c \in checkers \/ c.phase = job.phase
    <3> DEFINE n == [NoGate EXCEPT !.round = phase[job.phase].gate.round + 1,
                                   !.commit = job.commit, !.retry = job.flag].round
               member(role) == [phase |-> job.phase, round |-> n, role |-> role,
                                commit |-> job.commit]
    <3>1. Opens(job) => checkers' \subseteq checkers \cup {member("verify"), member("review")}
      BY DEF Opens
    <3>2. \A role : member(role).phase = job.phase
      OBVIOUS
    <3> HIDE DEF member
    <3>3. QED BY <3>1, <3>2
  <2>5. JudgeStarts(job) => \A c \in checkers' : c \in checkers \/ c.phase = job.phase
    BY DEF JudgeStarts
  <2>6. QED BY <1>3, <2>1, <2>2, <2>3, <2>4, <2>5
<1>4. CASE Agents
  <2>1. CASE PhaseDone \/ CheckedAsIs \/ \E c \in checkers : MemberReports(c)
    BY <2>1 DEF PhaseDone, CheckedAsIs, MemberReports, world
  <2>2. ASSUME NEW p \in Phases, Delegate(p)
        PROVE  checkers' = checkers /\ open' = open \cup {p} /\ Started(phase[p])
    <3>1. p \in TheFirst(InState({"running", "checking"}) \ open)
            \/ p \in TheFirst(InState({"running", "checking"}))
      BY <2>2 DEF Delegate
    <3>2. QED BY <2>2, <3>1, FirstInState DEF Delegate, memory, Started
  <2>3. ASSUME NEW p \in Phases, TaskEnds(p) PROVE checkers' = checkers /\ open' = open \ {p}
    BY <2>3 DEF TaskEnds, memory
  <2>4. QED BY <1>4, <2>1, <2>2, <2>3 DEF Agents
<1>5. QED BY <1>1, <1>2, <1>3, <1>4 DEF Next, Conductor

(* The branch only grows. *)
LEMMA Grows ==
    ASSUME JobsTyped, WorkStarted, [Next]_vars
    PROVE  /\ tip \in Nat /\ tip' \in Nat /\ tip <= tip'
           /\ \A i \in 1 .. tip : author'[i] = author[i]
           /\ \A i \in 1 .. tip' : i \in 1 .. tip \/ author'[i] \in open
<1>1. author \in Seq(Phases) /\ tip \in Nat
  BY TipTyped DEF JobsTyped
<1>2. CASE author' = author
  BY <1>1, <1>2 DEF tip
<1>3. ASSUME NEW p \in open, author' = Append(author, p)
      PROVE  /\ tip' = tip + 1 /\ \A i \in 1 .. tip : author'[i] = author[i]
             /\ author'[tip + 1] = p
  <2>1. p \in Phases
    BY DEF WorkStarted
  <2>2. QED BY <1>1, <1>3, <2>1 DEF tip
<1>4. QED BY <1>1, <1>2, <1>3, BranchNext

LEMMA WorkStartedNext ==
    ASSUME PhasesSound, JobsTyped, WorkStarted, OnBranch, [Next]_vars, PhasesSound',
           Moved \/ \E p \in Phases : Chosen(p)
    PROVE  WorkStarted'
<1>1. jobs' \subseteq GoodJobs'
  <2>1. SUFFICES ASSUME NEW j \in jobs' PROVE j \in GoodJobs'
    OBVIOUS
  <2>2. j \in GoodJobs
    BY JobsNext
  <2>3. j.commit <= tip'
    <3>1. j.commit \in Nat /\ j.commit <= tip
      BY <2>2 DEF GoodJobs, JobRecord
    <3>2. QED BY <3>1, Grows
  <2>4. j.do \in {"prepare", "advance"} \/ Started(phase'[j.phase])
    BY <2>2, Kept DEF GoodJobs, JobRecord
  <2>5. QED BY <2>2, <2>3, <2>4 DEF GoodJobs
<1>2. \A c \in checkers' : Started(phase'[c.phase])
  <2>1. \A c \in checkers' : c.phase \in Phases /\ Started(phase[c.phase])
    BY Joined DEF WorkStarted, PhasesSound, Checker
  <2>2. QED BY <2>1, Kept
<1>3. open' \subseteq Phases /\ \A p \in open' : Started(phase'[p])
  BY Joined, Kept DEF WorkStarted
<1>4. \A i \in 1 .. tip' : Started(phase'[author'[i]])
  <2>1. SUFFICES ASSUME NEW i \in 1 .. tip' PROVE Started(phase'[author'[i]])
    OBVIOUS
  <2>2. author'[i] \in Phases /\ Started(phase[author'[i]])
    <3>1. CASE i \in 1 .. tip
      <4>1. author[i] \in Phases
        BY <3>1 DEF JobsTyped, tip
      <4>2. QED BY <3>1, <4>1, Grows DEF WorkStarted
    <3>2. CASE author'[i] \in open
      BY <3>2 DEF WorkStarted
    <3>3. QED BY <3>1, <3>2, Grows
  <2>3. QED BY <2>2, Kept
<1>5. QED BY <1>1, <1>2, <1>3, <1>4 DEF WorkStarted

(* The merge point moves to a live phase's commit as that is verified, with *)
(* every other that began verified before.                                 *)
MergeMoves(p) ==
    /\ Live(phase[p]) /\ run'.merge = phase[p].gate.commit
    /\ phase'[p].state = "verified" /\ phase'[p].gate.closed
    /\ \A q \in Phases \ {p} : /\ phase'[q] = phase[q]
                               /\ phase[q].begun = "yes" => phase[q].state = "verified"
    /\ author' = author

LEMMA DecidesMerge ==
    ASSUME PhasesSound, JobsTyped, RunTyped, WorkStarted, NEW job \in jobs, Decides(job)
    PROVE  run'.merge = run.merge \/ \E p \in Phases : MergeMoves(p)
<1> DEFINE p == job.phase
           g == phase[p].gate
           onward == IF run.state = "phaseGate" THEN "running" ELSE run.state
           merge == MergePoint(p)
           s == Settled(p, "verified")
           r == [s EXCEPT !.verified = g.commit, !.gate.evidence = g.evidence]
<1>1. job.do = "decide" /\ author' = author
  BY DEF Decides, world
<1>2. p \in Phases /\ Started(phase[p])
  BY <1>1 DEF JobsTyped, JobRecord, WorkStarted, GoodJobs
<1>3. \/ run' = run
      \/ run' = [run EXCEPT !.state = onward]
      \/ /\ ~g.closed /\ phase' = [phase EXCEPT ![p] = r]
         /\ run' = [run EXCEPT !.state = onward, !.merge = merge]
  BY Zenon DEF Decides
<1>4. CASE run' = run \/ run' = [run EXCEPT !.state = onward]
  BY <1>4 DEF RunTyped, RunRecord
<1>5. CASE /\ ~g.closed /\ phase' = [phase EXCEPT ![p] = r]
           /\ run' = [run EXCEPT !.state = onward, !.merge = merge]
  <2>1. run'.merge = merge
    <3> HIDE DEF merge, onward, r, g
    <3>1. QED BY <1>5 DEF RunTyped, RunRecord
  <2>2. CASE merge = run.merge
    BY <2>1, <2>2
  <2>3. CASE merge # run.merge
    <3>1. /\ merge = g.commit
          /\ \A q \in Phases \ {p} : phase[q].begun = "yes" => phase[q].state = "verified"
      BY <2>3 DEF MergePoint
    <3>2. Live(phase[p])
      BY <1>2, <1>5 DEF Live
    <3>3. phase[p] \in PhaseRecord /\ g \in Gate
      BY <1>2 DEF PhasesSound, PhaseRecord
    <3>4. r.state = "verified" /\ r.gate.closed
      <4> DEFINE closed == [NoGate EXCEPT !.closed = TRUE]
                 h == [closed EXCEPT !.evidence = g.evidence]
      <4>1. closed \in Gate /\ closed.closed
        BY NoGateTyped DEF Gate
      <4>2. s \in PhaseRecord /\ s.gate = closed /\ s.state = "verified"
        BY <3>3, <4>1 DEF Settled, PhaseRecord, PhaseStates
      <4>3. h \in Gate /\ h.closed
        BY <3>3, <4>1 DEF Gate
      <4>4. r = [s EXCEPT !.verified = g.commit, !.gate = h]
        <5> HIDE DEF s, closed
        <5>1. QED BY <4>2 DEF PhaseRecord
      <4> HIDE DEF r, h, s, closed
      <4>5. QED BY <4>2, <4>3, <4>4 DEF PhaseRecord
    <3> HIDE DEF r
    <3>5. phase'[p] = r /\ \A q \in Phases \ {p} : phase'[q] = phase[q]
      BY <1>2, <1>5 DEF PhasesSound
    <3>6. MergeMoves(p)
      BY <1>1, <2>1, <3>1, <3>2, <3>4, <3>5 DEF MergeMoves
    <3>7. QED BY <1>2, <3>6
  <2>4. QED BY <2>2, <2>3
<1>6. QED BY <1>3, <1>4, <1>5

LEMMA MergeNext ==
    ASSUME PhasesSound, JobsTyped, RunTyped, WorkStarted, [Next]_vars
    PROVE  run'.merge = run.merge \/ \E p \in Phases : MergeMoves(p)
<1>1. CASE \E job \in jobs : Decides(job)
  <2>1. PICK job \in jobs : Decides(job)
    BY <1>1
  <2>2. QED BY <2>1, DecidesMerge
<1>2. CASE ~\E job \in jobs : Decides(job)
  <2>1. User => run'.merge = run.merge
    BY DEF User, Start, Stop, Steer, RunTyped, RunRecord
  <2>2. Prepare \/ Advances => run'.merge = run.merge
    BY DEF Prepare, Advances, RunTyped, RunRecord
  <2>3. \A p \in Phases : Leads(p) => run' = run
    BY DEF Leads
  <2>4. \A job \in jobs : DoneRecorded(job) \/ Opens(job) \/ JudgeStarts(job)
                            => run' = run \/ run' = [run EXCEPT !.state = "phaseGate"]
    BY Zenon DEF DoneRecorded, Opens, JudgeStarts
  <2>5. \A job \in jobs : DoneRecorded(job) \/ Opens(job) \/ JudgeStarts(job)
                            => run'.merge = run.merge
    BY <2>4 DEF RunTyped, RunRecord
  <2>6. Agents => run' = run
    BY DEF Agents, PhaseDone, CheckedAsIs, Delegate, TaskEnds, MemberReports
  <2>7. Ends => run'.merge = run.merge
    BY DEF Ends, EndSettles, EndPosts, EndFinishes, RunTyped, RunRecord
  <2>8. ClockResumes \/ Restart \/ Over \/ UNCHANGED vars => run' = run
    BY DEF ClockResumes, Restart, Over, vars
  <2>9. QED BY <1>2, <2>1, <2>2, <2>3, <2>5, <2>6, <2>7, <2>8 DEF Next, Conductor
<1>3. QED BY <1>1, <1>2

LEMMA OnBranchNext ==
    ASSUME PhasesSound, JobsTyped, RunTyped, WorkStarted, OnBranch, [Next]_vars,
           PhasesSound', RunTyped', Moved \/ \E p \in Phases : Chosen(p)
    PROVE  OnBranch'
<1>1. ASSUME NEW p \in Phases PROVE phase'[p].gate.commit <= tip'
  <2>1. /\ phase[p].gate.commit \in Nat /\ phase[p].gate.commit <= tip
        /\ \A j \in jobs : j.commit \in Nat /\ j.commit <= tip
    BY DEF PhasesSound, PhaseRecord, Gate, OnBranch, WorkStarted, GoodJobs, JobRecord
  <2>2. QED BY <2>1, Kept, Grows
<1>2. run'.merge <= tip'
  <2>1. run.merge \in Nat /\ run.merge <= tip
    BY DEF RunTyped, RunRecord, OnBranch
  <2>2. \A p \in Phases : phase[p].gate.commit \in Nat /\ phase[p].gate.commit <= tip
    BY DEF PhasesSound, PhaseRecord, Gate, OnBranch
  <2>3. QED BY <2>1, <2>2, MergeNext, Grows DEF MergeMoves
<1>3. QED BY <1>1, <1>2 DEF OnBranch

(* A phase with work behind the merge point is not chosen and led later: it *)
(* has started, and its turn is over.                                       *)
LEMMA CoveredNext ==
    ASSUME PhasesSound, JobsTyped, RunTyped, Ordered, [Next]_vars,
           Moved \/ \E p \in Phases : Chosen(p)
    PROVE  Covered'
<1> SUFFICES ASSUME NEW i \in 1 .. run'.merge
             PROVE  /\ phase'[author'[i]].begun = "yes" => phase'[author'[i]].state = "verified"
                    /\ phase'[author'[i]].begun = "chosen" => ~Live(phase'[author'[i]])
  BY DEF Covered
<1> DEFINE q == author[i]
<1>1. WorkStarted /\ OnBranch /\ OneLive /\ Covered
  BY DEF Ordered
<1>2. CASE run'.merge = run.merge
  <2>1. i \in 1 .. run.merge /\ i \in 1 .. tip
    BY <1>1, <1>2, TipTyped DEF OnBranch, RunTyped, RunRecord
  <2>2. author'[i] = q /\ q \in Phases /\ Started(phase[q])
    BY <1>1, <2>1, Grows DEF JobsTyped, tip, WorkStarted
  <2>3. /\ phase[q].begun = "yes" => phase[q].state = "verified"
        /\ phase[q].begun = "chosen" => ~Live(phase[q])
    BY <1>1, <2>1 DEF Covered
  <2> HIDE DEF q
  <2>4. CASE Moved
    BY <2>2, <2>3, <2>4 DEF Moved, Moves
  <2>5. ASSUME NEW p \in Phases, Chosen(p)
        PROVE  phase'[q] = phase[q]
    <3>1. q # p
      BY <2>2, <2>5 DEF Chosen, Started
    <3>2. QED BY <2>2, <2>5, <3>1 DEF Chosen, PhasesSound
  <2>6. QED BY <2>2, <2>3, <2>4, <2>5
<1>3. ASSUME NEW p \in Phases, MergeMoves(p)
      PROVE  /\ phase'[author'[i]].begun = "yes" => phase'[author'[i]].state = "verified"
             /\ phase'[author'[i]].begun = "chosen" => ~Live(phase'[author'[i]])
  <2>1. i \in 1 .. tip /\ author' = author
    BY <1>1, <1>3, TipTyped DEF OnBranch, MergeMoves, PhasesSound, PhaseRecord, Gate
  <2>2. q \in Phases
    BY <2>1 DEF JobsTyped, tip
  <2> HIDE DEF q
  <2>3. /\ phase'[q].begun = "yes" => phase'[q].state = "verified"
        /\ phase'[q].begun = "chosen" => ~Live(phase'[q])
    <3>1. CASE q = p
      BY <1>3, <3>1 DEF MergeMoves, Live
    <3>2. CASE q # p
      BY <1>1, <1>3, <2>2, <3>2 DEF MergeMoves, OneLive
    <3>3. QED BY <3>1, <3>2
  <2>4. QED BY <2>1, <2>3 DEF q
<1>4. QED BY <1>1, <1>2, <1>3, MergeNext

LEMMA OrderedNext ==
    ASSUME PhasesSound, JobsTyped, RunTyped, Ordered, [Next]_vars, PhasesSound', RunTyped'
    PROVE  Ordered'
<1>1. OneLive /\ EndedOpen /\ WorkStarted /\ OnBranch /\ Covered
  BY DEF Ordered
<1>2. Moved \/ \E p \in Phases : Chosen(p)
  BY <1>1, SoundNext
<1>3. OneLive' /\ EndedOpen' /\ WorkStarted' /\ OnBranch'
  BY <1>1, <1>2, OneLiveNext, EndedOpenNext, WorkStartedNext, OnBranchNext
<1>4. Covered'
  BY <1>2, CoveredNext
<1>5. QED BY <1>3, <1>4 DEF Ordered

-----------------------------------------------------------------------------
(***************************************************************************)
(* The limits: a phase's rounds stay within MAX_ROUNDS, but for those that *)
(* a restart begins again, and its fixes within FIX_ROUNDS.                *)
(***************************************************************************)
(* A phase with no round open, where n mishaps happened: it may open one   *)
(* more while it is at work; and what is spawned for its round has one.    *)
NoRound(r) == r.gate.closed \/ r.gate.round = 0
Sober(r, n) ==
    /\ r.gate.round <= MaxRounds + n
    /\ ~Started(r) => r.gate.round = 0
    /\ r.state = "running" => NoRound(r) /\ r.gate.round < MaxRounds + n
Fine(j, r, n) ==
    /\ j.do = "open" => NoRound(r) /\ r.gate.round < MaxRounds + n /\ r.state # "running"
    /\ j.do \in {"judge", "decide"} => r.gate.closed \/ r.gate.round # 0

(* With the branch at commit t. *)
Within(r, n, t) ==
    /\ Sober(r, n)
    /\ r.fixes <= FixRounds /\ r.verified <= t
    /\ \A role \in Roles, commit \in Nat : <<role, commit>> \in r.gate.evidence => commit <= t
Checks(c, n, t) == c.round \in 1 .. MaxRounds + n /\ c.commit <= t

OneOpen == \A j, k \in jobs : j.do = "open" /\ k.do = "open" /\ j.phase = k.phase => j = k

InLimits ==
    /\ mishaps \in 0 .. MaxMishaps /\ tip <= MaxCommits
    /\ \A p \in Phases : Within(phase[p], mishaps, tip)
    /\ \A c \in checkers : Checks(c, mishaps, tip)
    /\ \A j \in jobs : j.do \in {"open", "judge", "decide"} => Fine(j, phase[j.phase], mishaps)
    /\ OneOpen

LEMMA MoreIsWithin ==
    ASSUME NEW r \in PhaseRecord, NEW n \in Nat, NEW m \in Nat, NEW t \in Nat, NEW u \in Nat,
           n <= m, t <= u
    PROVE  /\ Within(r, n, t) => Within(r, m, u)
           /\ \A j : Fine(j, r, n) => Fine(j, r, m)
<1>1. r.gate.round \in Nat /\ r.verified \in Nat /\ MaxRounds \in Nat
  BY OvernightAssumption DEF PhaseRecord, Gate
<1>2. Within(r, n, t) => Within(r, m, u)
  BY <1>1 DEF Within, Sober
<1>3. \A j : Fine(j, r, n) => Fine(j, r, m)
  BY <1>1 DEF Fine
<1>4. QED BY <1>2, <1>3

LEMMA MoreChecks ==
    ASSUME NEW c \in Checker, NEW n \in Nat, NEW m \in Nat, NEW t \in Nat, NEW u \in Nat,
           n <= m, t <= u, Checks(c, n, t)
    PROVE  Checks(c, m, u)
  BY OvernightAssumption DEF Checks, Checker

(* Mishaps are counted, and the branch grows, within their bounds. *)
LEMMA Counted ==
    ASSUME JobsTyped, InLimits, WorkStarted, [Next]_vars
    PROVE  /\ mishaps \in Nat /\ mishaps' \in 0 .. MaxMishaps /\ mishaps <= mishaps'
           /\ tip \in Nat /\ tip' \in Nat /\ tip <= tip' /\ tip' <= MaxCommits
<1>1. mishaps' = mishaps \/ (mishaps < MaxMishaps /\ mishaps' = mishaps + 1)
  <2>1. User => mishaps' = mishaps \/ (mishaps < MaxMishaps /\ mishaps' = mishaps + 1)
    BY DEF User, Start, Stop, Steer, Mishap
  <2>2. Prepare \/ Advances \/ (\E p \in Phases : Leads(p))
           => mishaps' = mishaps \/ (mishaps < MaxMishaps /\ mishaps' = mishaps + 1)
    BY DEF Prepare, Advances, Leads, Mishap
  <2>3. \A job \in jobs : DoneRecorded(job) \/ Opens(job) \/ JudgeStarts(job) \/ Decides(job)
           => mishaps' = mishaps \/ (mishaps < MaxMishaps /\ mishaps' = mishaps + 1)
    BY Zenon DEF DoneRecorded, Opens, JudgeStarts, Decides, Mishap
  <2>4. Agents => mishaps' = mishaps
    BY DEF Agents, PhaseDone, CheckedAsIs, Delegate, TaskEnds, MemberReports
  <2>5. Ends \/ ClockResumes \/ Restart \/ Over \/ UNCHANGED vars
           => mishaps' = mishaps \/ (mishaps < MaxMishaps /\ mishaps' = mishaps + 1)
    BY DEF Ends, EndSettles, EndPosts, EndFinishes, ClockResumes, Restart, Over, vars, Mishap
  <2>6. QED BY <2>1, <2>2, <2>3, <2>4, <2>5 DEF Next, Conductor
<1>2. mishaps \in 0 .. MaxMishaps /\ MaxMishaps \in Nat
  BY OvernightAssumption DEF InLimits
<1>3. tip' = tip \/ (tip < MaxCommits /\ tip' = tip + 1)
  <2>1. CASE author' = author
    BY <2>1 DEF tip
  <2>2. CASE author' # author
    <3>1. PICK p \in Phases : TaskEnds(p)
      <4>1. ~(User \/ Conductor \/ Ends \/ ClockResumes \/ Restart \/ Over \/ UNCHANGED vars)
        BY <2>2 DEF User, Start, Stop, Steer, Conductor, Prepare, Advances, Leads, DoneRecorded, Opens,
              JudgeStarts, Decides, Ends, EndSettles, EndPosts, EndFinishes, ClockResumes, Restart, Over,
              vars, world
      <4>2. ~(PhaseDone \/ CheckedAsIs \/ (\E p \in Phases : Delegate(p)) \/ \E c \in checkers : MemberReports(c))
        BY <2>2 DEF PhaseDone, CheckedAsIs, Delegate, MemberReports, world
      <4>3. QED BY <4>1, <4>2 DEF Next, Agents
    <3>2. tip < MaxCommits /\ author' = Append(author, p)
      BY <2>2, <3>1 DEF TaskEnds
    <3>3. QED BY <3>2 DEF JobsTyped, tip
  <2>3. QED BY <2>1, <2>2
<1>4. tip \in Nat /\ tip <= MaxCommits /\ MaxCommits \in Nat
  BY TipTyped, OvernightAssumption DEF InLimits
<1> HIDE DEF tip
<1>5. QED BY <1>1, <1>2, <1>3, <1>4

(* A step that changes one phase, on the same branch. *)
LEMMA PhaseInLimits ==
    ASSUME PhasesSound, JobsTyped, InLimits, WorkStarted, [Next]_vars, author' = author,
           NEW p \in Phases, NEW r \in PhaseRecord, phase' = [phase EXCEPT ![p] = r],
           Within(r, mishaps', tip),
           \A c \in checkers' : c \in checkers \/ Checks(c, mishaps', tip),
           \A j \in jobs' : \/ j.do \notin {"open", "judge", "decide"}
                            \/ j \in jobs /\ j.phase # p
                            \/ j.phase = p /\ Fine(j, r, mishaps'),
           OneOpen'
    PROVE  InLimits'
<1>1. /\ mishaps \in Nat /\ mishaps' \in Nat /\ mishaps' \in 0 .. MaxMishaps /\ mishaps <= mishaps'
      /\ tip \in Nat /\ tip' = tip /\ tip' <= MaxCommits
  BY Counted, OvernightAssumption DEF tip
<1>2. phase'[p] = r /\ \A q \in Phases \ {p} : phase'[q] = phase[q] /\ phase[q] \in PhaseRecord
  BY DEF PhasesSound
<1>3. \A q \in Phases : Within(phase'[q], mishaps', tip')
  <2>1. \A q \in Phases \ {p} : Within(phase[q], mishaps', tip)
    BY <1>1, <1>2, MoreIsWithin DEF InLimits
  <2>2. QED BY <1>1, <1>2, <2>1
<1>4. \A c \in checkers' : Checks(c, mishaps', tip')
  <2>1. \A c \in checkers : Checks(c, mishaps', tip)
    BY <1>1, MoreChecks DEF InLimits, PhasesSound
  <2>2. QED BY <1>1, <2>1
<1>5. ASSUME NEW j \in jobs', j.do \in {"open", "judge", "decide"} PROVE Fine(j, phase'[j.phase], mishaps')
  <2>1. CASE j \in jobs /\ j.phase # p
    <3>1. j.phase \in Phases \ {p}
      BY <1>5, <2>1 DEF JobsTyped, JobRecord
    <3>2. Fine(j, phase[j.phase], mishaps)
      BY <1>5, <2>1 DEF InLimits
    <3>3. QED BY <1>1, <1>2, <3>1, <3>2, MoreIsWithin
  <2>2. CASE j.phase = p /\ Fine(j, r, mishaps')
    BY <1>2, <2>2
  <2>3. QED BY <1>5, <2>1, <2>2
<1>6. QED BY <1>1, <1>3, <1>4, <1>5 DEF InLimits

(* And one that changes none. *)
LEMMA SameInLimits ==
    ASSUME PhasesSound, JobsTyped, InLimits, WorkStarted, [Next]_vars,
           phase' = phase, checkers' \subseteq checkers,
           \A j \in jobs' : j.do \notin {"open", "judge", "decide"} \/ j \in jobs
    PROVE  InLimits'
<1>1. /\ mishaps \in Nat /\ mishaps' \in Nat /\ mishaps' \in 0 .. MaxMishaps /\ mishaps <= mishaps'
      /\ tip \in Nat /\ tip' \in Nat /\ tip <= tip' /\ tip' <= MaxCommits
  BY Counted, OvernightAssumption
<1> HIDE DEF tip
<1>2. \A q \in Phases : Within(phase'[q], mishaps', tip')
  BY <1>1, MoreIsWithin DEF InLimits, PhasesSound
<1>3. \A c \in checkers' : Checks(c, mishaps', tip')
  BY <1>1, MoreChecks DEF InLimits, PhasesSound
<1>4. \A j \in jobs' : j.do \in {"open", "judge", "decide"} => Fine(j, phase'[j.phase], mishaps')
  <2>1. \A j \in jobs : j.do \in {"open", "judge", "decide"} => phase[j.phase] \in PhaseRecord
    BY DEF JobsTyped, JobRecord, PhasesSound
  <2>2. QED BY <1>1, <2>1, MoreIsWithin DEF InLimits
<1>5. OneOpen'
  BY DEF InLimits, OneOpen
<1>6. QED BY <1>1, <1>2, <1>3, <1>4, <1>5 DEF InLimits

LEMMA SameOpen ==
    ASSUME InLimits, \A j \in jobs' : j.do = "open" => j \in jobs
    PROVE  OneOpen'
  BY DEF InLimits, OneOpen

LEMMA Kinds ==
    ASSUME NEW p, NEW n, NEW b
    PROVE  /\ Job("prepare", 0).do = "prepare" /\ Advance.do = "advance" /\ Done(p).do = "done"
           /\ Open(p, n, b).do = "open" /\ Open(p, n, b).phase = p
           /\ Decide(p, b).do = "decide" /\ Decide(p, b).phase = p
           /\ Judge(p, b).do = "judge" /\ Judge(p, b).phase = p
  BY DEF Job, Advance, Done, Open, Decide, Judge

LEMMA Spawns ==
    ASSUME NEW p, NEW g
    PROVE  \A j \in Follows(p, g) : j.do \in {"judge", "decide"} /\ j.phase = p
<1> DEFINE winding == run.state \notin {"running", "phaseGate"}
<1>1. Follows(p, g) \subseteq {Decide(p, winding), Judge(p, winding)}
  BY Zenon DEF Follows
<1> HIDE DEF winding
<1>2. QED BY <1>1, Kinds

(* A phase's record with another state, and with another gate. *)
LEMMA StateOf ==
    ASSUME NEW now \in PhaseRecord, NEW s \in PhaseStates
    PROVE  LET r == [now EXCEPT !.state = s]
           IN  /\ r \in PhaseRecord /\ r.state = s /\ r.gate = now.gate
               /\ r.fixes = now.fixes /\ r.verified = now.verified /\ r.begun = now.begun
  BY DEF PhaseRecord

LEMMA GateOf ==
    ASSUME NEW now \in PhaseRecord, NEW gate \in Gate
    PROVE  LET r == [now EXCEPT !.gate = gate]
           IN  /\ r \in PhaseRecord /\ r.state = now.state /\ r.gate = gate
               /\ r.fixes = now.fixes /\ r.verified = now.verified /\ r.begun = now.begun
  BY DEF PhaseRecord

LEMMA SteerInLimits ==
    ASSUME PhasesSound, JobsTyped, InLimits, WorkStarted, [Next]_vars, NEW p \in Phases, Steer(p)
    PROVE  InLimits'
<1>1. PICK s \in {"pending", "skipped"} :
         phase[p].state \in {"pending", "skipped"} /\ phase' = [phase EXCEPT ![p].state = s]
  BY DEF Steer
<1>2. author' = author /\ checkers' = checkers /\ jobs' = jobs \cup {Advance}
  BY DEF Steer, world
<1> DEFINE r == [phase[p] EXCEPT !.state = s]
<1>3. phase' = [phase EXCEPT ![p] = r] /\ phase[p] \in PhaseRecord
  BY <1>1 DEF PhasesSound
<1>4. /\ r \in PhaseRecord /\ r.state = s /\ r.gate = phase[p].gate
      /\ r.fixes = phase[p].fixes /\ r.verified = phase[p].verified
  <2>1. s \in PhaseStates /\ phase[p] \in PhaseRecord
    BY <1>3 DEF PhaseStates
  <2>2. QED BY <2>1, StateOf
<1> HIDE DEF r
<1>5. /\ mishaps \in Nat /\ mishaps' \in Nat /\ mishaps <= mishaps' /\ tip \in Nat /\ tip <= tip
      /\ Within(phase[p], mishaps', tip)
      /\ \A j \in jobs : j.do \in {"open", "judge", "decide"} /\ j.phase = p => Fine(j, phase[p], mishaps')
  BY <1>3, Counted, MoreIsWithin, OvernightAssumption DEF InLimits
<1>6. Within(r, mishaps', tip)
  BY <1>1, <1>4, <1>5 DEF Within, Sober, Started
<1>7. \A j \in jobs' : \/ j.do \notin {"open", "judge", "decide"}
                       \/ j \in jobs /\ j.phase # p
                       \/ j.phase = p /\ Fine(j, r, mishaps')
  <2>1. \A j : Fine(j, phase[p], mishaps') => Fine(j, r, mishaps')
    BY <1>1, <1>4 DEF Fine, NoRound
  <2>2. QED BY <1>2, <1>5, <2>1, Kinds
<1>8. OneOpen'
  BY <1>2, Kinds, SameOpen
<1> HIDE DEF tip
<1>9. QED BY <1>2, <1>3, <1>4, <1>6, <1>7, <1>8, PhaseInLimits

LEMMA AdvancesInLimits ==
    ASSUME PhasesSound, JobsTyped, InLimits, WorkStarted, [Next]_vars, Advances
    PROVE  InLimits'
<1>1. author' = author /\ checkers' = checkers /\ jobs' \subseteq jobs /\ mishaps' = mishaps
  BY DEF Advances, world
<1>2. CASE phase' = phase
  BY <1>1, <1>2, SameInLimits
<1>3. CASE phase' # phase
  <2>1. PICK p \in Phases : Chosen(p)
    <3>1. ~Moved
      <4>1. PICK p \in Startable :
               phase' = [phase EXCEPT ![p].state = "running", ![p].begun = "chosen"]
        BY <1>3 DEF Advances
      <4>2. p \in Phases /\ phase[p].state = "pending"
        BY <4>1, FirstInState DEF Startable
      <4>3. phase[p] \in PhaseRecord /\ phase'[p].state = "running"
        BY <4>1, <4>2 DEF PhasesSound, PhaseRecord
      <4>4. QED BY <4>2, <4>3 DEF Moved, Moves, Live, Started
    <3>2. QED BY <3>1, AdvancesSound
  <2> DEFINE r == [phase[p] EXCEPT !.state = "running", !.begun = "chosen"]
  <2>2. phase[p] \in PhaseRecord /\ phase[p].state = "pending" /\ phase' = [phase EXCEPT ![p] = r]
    BY <2>1 DEF Chosen, PhasesSound
  <2>3. /\ r \in PhaseRecord /\ r.state = "running" /\ r.gate = phase[p].gate
        /\ r.fixes = phase[p].fixes /\ r.verified = phase[p].verified
    BY <2>2 DEF PhaseRecord, PhaseStates
  <2> HIDE DEF r
  <2>4. Within(phase[p], mishaps, tip) /\ phase[p].gate.round = 0 /\ 0 < MaxRounds + mishaps
    BY <2>2, Counted, OvernightAssumption DEF InLimits, Within, Sober, Started
  <2>5. Within(r, mishaps', tip)
    BY <1>1, <2>3, <2>4 DEF Within, Sober, Started, NoRound
  <2>6. \A j \in jobs' : \/ j.do \notin {"open", "judge", "decide"}
                         \/ j \in jobs /\ j.phase # p
    BY <1>1, <2>2 DEF WorkStarted, GoodJobs, Started
  <2>7. OneOpen'
    BY <1>1, SameOpen
  <2> HIDE DEF tip
  <2>8. QED BY <1>1, <2>2, <2>3, <2>5, <2>6, <2>7, PhaseInLimits
<1>4. QED BY <1>2, <1>3

LEMMA LeadsInLimits ==
    ASSUME PhasesSound, JobsTyped, InLimits, WorkStarted, [Next]_vars, NEW p \in Phases, Leads(p)
    PROVE  InLimits'
<1> DEFINE r == [phase[p] EXCEPT !.begun = "yes"]
<1>1. /\ phase' = [phase EXCEPT ![p] = r] /\ checkers' = checkers /\ jobs' = jobs /\ mishaps' = mishaps
      /\ author' = author
  BY DEF Leads, world
<1>2. phase[p] \in PhaseRecord
  BY DEF PhasesSound
<1>3. /\ r \in PhaseRecord /\ r.gate = phase[p].gate /\ r.state = phase[p].state
      /\ r.verified = phase[p].verified /\ r.fixes = phase[p].fixes
  BY <1>2 DEF PhaseRecord
<1> HIDE DEF r
<1>4. Within(r, mishaps', tip)
  BY <1>1, <1>3 DEF InLimits, Within, Sober, Started, NoRound
<1>5. \A j \in jobs' : \/ j.do \notin {"open", "judge", "decide"}
                       \/ j \in jobs /\ j.phase # p
                       \/ j.phase = p /\ Fine(j, r, mishaps')
  BY <1>1, <1>3 DEF InLimits, Fine, NoRound
<1>6. OneOpen'
  BY <1>1, SameOpen
<1> HIDE DEF tip
<1>7. QED BY <1>1, <1>3, <1>4, <1>5, <1>6, PhaseInLimits

(* A phase that is at work has no round to open: the one that comes of its *)
(* being declared done is the only one.                                    *)
LEMMA DoneRecordedInLimits ==
    ASSUME PhasesSound, JobsTyped, InLimits, WorkStarted, [Next]_vars, NEW job \in jobs, DoneRecorded(job)
    PROVE  InLimits'
<1> DEFINE p == job.phase
           r == [phase[p] EXCEPT !.state = "checking"]
           new == Open(p, job.commit, FALSE)
<1>1. checkers' = checkers /\ p \in Phases /\ author' = author /\ mishaps' = mishaps
  BY DEF DoneRecorded, JobsTyped, JobRecord, world
<1>2. CASE phase' = phase /\ jobs' \subseteq jobs
  BY <1>1, <1>2, SameInLimits
<1>3. CASE ~(phase' = phase /\ jobs' \subseteq jobs)
  <2>1. /\ phase[p].state = "running" /\ phase' = [phase EXCEPT ![p] = r]
        /\ jobs' \subseteq jobs \cup {new}
    BY <1>3 DEF DoneRecorded
  <2>2. phase[p] \in PhaseRecord
    BY <1>1 DEF PhasesSound
  <2>3. /\ r \in PhaseRecord /\ r.gate = phase[p].gate /\ r.state = "checking"
        /\ r.fixes = phase[p].fixes /\ r.verified = phase[p].verified
    BY <2>2, StateOf DEF PhaseStates
  <2>4. new.do = "open" /\ new.phase = p
    BY DEF Open, Job
  <2> HIDE DEF r, new
  <2>5. Within(phase[p], mishaps, tip) /\ NoRound(phase[p]) /\ phase[p].gate.round < MaxRounds + mishaps
    BY <1>1, <2>1 DEF InLimits, Within, Sober
  <2>6. Within(r, mishaps', tip)
    BY <1>1, <2>3, <2>5 DEF Within, Sober, Started, NoRound
  <2>7. Fine(new, r, mishaps')
    BY <1>1, <2>3, <2>4, <2>5 DEF Fine, NoRound
  <2>8. \A j \in jobs : /\ j.do = "open" => j.phase # p
                        /\ j.do \in {"judge", "decide"} /\ j.phase = p => Fine(j, r, mishaps')
    BY <1>1, <2>1, <2>3 DEF InLimits, Fine
  <2>9. OneOpen'
    BY <2>1, <2>4, <2>8 DEF InLimits, OneOpen
  <2>10. \A j \in jobs' : \/ j.do \notin {"open", "judge", "decide"}
                          \/ j \in jobs /\ j.phase # p
                          \/ j.phase = p /\ Fine(j, r, mishaps')
    BY <2>1, <2>4, <2>7, <2>8
  <2> HIDE DEF tip, p
  <2>11. QED BY <1>1, <2>1, <2>3, <2>6, <2>9, <2>10, PhaseInLimits
<1>4. QED BY <1>2, <1>3

LEMMA NewGate ==
    ASSUME NEW n \in Nat, NEW commit \in Nat, NEW retry \in BOOLEAN
    PROVE  LET g == [NoGate EXCEPT !.round = n, !.commit = commit, !.retry = retry]
           IN  g \in Gate /\ g.round = n /\ g.evidence = {}
<1>1. [NoGate EXCEPT !.round = n, !.commit = commit, !.retry = retry].evidence = {}
  BY DEF NoGate
<1>2. QED BY <1>1, NoGateTyped DEF Gate

LEMMA OpenedGate ==
    ASSUME NEW g \in Gate, NEW review \in {"none", "same"}
    PROVE  LET h == [g EXCEPT !.verify = "none", !.review = review]
           IN  h \in Gate /\ h.round = g.round /\ h.evidence = g.evidence
  BY DEF Gate, Answers

(* A round opens only where none is open, with the one job that is to open *)
(* one; its number is one more than the last.                              *)
LEMMA OpensInLimits ==
    ASSUME PhasesSound, JobsTyped, InLimits, WorkStarted, [Next]_vars, NEW job \in jobs, Opens(job)
    PROVE  InLimits'
<1> DEFINE p == job.phase
           n == phase[p].gate.round + 1
           commit == job.commit
           retry == job.flag
           g == [NoGate EXCEPT !.round = n, !.commit = commit, !.retry = retry]
           member(role) == [phase |-> p, round |-> g.round, role |-> role, commit |-> commit]
           decide == Decide(p, FALSE)
<1>1. author' = author /\ job.do = "open"
  BY DEF Opens
<1>2. CASE UNCHANGED <<phase, checkers>> /\ jobs' \subseteq jobs
  BY <1>2, SameInLimits
<1>3. CASE ~(UNCHANGED <<phase, checkers>> /\ jobs' \subseteq jobs)
  <2>1. phase[p].state = "checking"
    BY <1>3 DEF Opens
  <2>2. p \in Phases /\ commit \in Nat /\ retry \in BOOLEAN /\ commit <= tip
    BY <1>1 DEF JobsTyped, JobRecord, WorkStarted, GoodJobs
  <2>3. phase[p] \in PhaseRecord /\ phase[p].gate.round \in Nat /\ n \in Nat
    BY <2>2 DEF PhasesSound, PhaseRecord, Gate
  <2>4. PICK h \in {g} \cup {[g EXCEPT !.verify = "none", !.review = review] : review \in {"none", "same"}} :
           /\ phase' = [phase EXCEPT ![p].gate = h]
           /\ checkers' \subseteq checkers \cup {member("verify"), member("review")}
           /\ jobs' \subseteq (jobs \ {job}) \cup {decide}
    BY <1>3 DEF Opens
  <2>5. h \in Gate /\ h.round = n /\ h.evidence = {} /\ g.round = n
    <3>1. n \in Nat /\ commit \in Nat /\ retry \in BOOLEAN
      BY <2>2, <2>3
    <3> HIDE DEF n, commit, retry
    <3>2. g \in Gate /\ g.round = n /\ g.evidence = {}
      BY <3>1, NewGate
    <3> HIDE DEF g
    <3>3. CASE h = g
      BY <3>2, <3>3
    <3>4. CASE h # g
      <4>1. PICK review \in {"none", "same"} : h = [g EXCEPT !.verify = "none", !.review = review]
        BY <2>4, <3>4
      <4>2. QED BY <3>2, <4>1, OpenedGate
    <3>5. QED BY <3>2, <3>3, <3>4
  <2>6. decide.do = "decide" /\ decide.phase = p
    BY DEF Decide, Job
  <2> DEFINE r == [phase[p] EXCEPT !.gate = h]
  <2>7. phase' = [phase EXCEPT ![p] = r]
    BY <2>4
  <2>8. /\ r \in PhaseRecord /\ r.gate = h /\ r.state = "checking"
        /\ r.fixes = phase[p].fixes /\ r.verified = phase[p].verified
    BY <2>1, <2>3, <2>5, GateOf
  <2> HIDE DEF r, g, decide
  <2>9. /\ mishaps \in Nat /\ mishaps' \in Nat /\ mishaps <= mishaps' /\ tip \in Nat /\ MaxRounds \in Nat
        /\ Within(phase[p], mishaps, tip) /\ Fine(job, phase[p], mishaps)
    BY <1>1, <2>2, Counted, OvernightAssumption DEF InLimits
  <2>10. n \in 1 .. MaxRounds + mishaps'
    BY <1>1, <2>3, <2>9 DEF Fine
  <2> HIDE DEF tip
  <2>11. Within(r, mishaps', tip)
    BY <2>3, <2>5, <2>8, <2>9, <2>10 DEF Within, Sober, Started
  <2>12. \A c \in checkers' : c \in checkers \/ Checks(c, mishaps', tip)
    BY <2>2, <2>4, <2>5, <2>10 DEF Checks
  <2>13. \A j \in jobs' : \/ j.do \notin {"open", "judge", "decide"}
                          \/ j \in jobs /\ j.phase # p
                          \/ j.phase = p /\ Fine(j, r, mishaps')
    <3>1. \A j : j.do \in {"judge", "decide"} => Fine(j, r, mishaps')
      BY <2>5, <2>8, <2>10 DEF Fine
    <3>2. \A j \in jobs \ {job} : j.do = "open" => j.phase # p
      BY <1>1 DEF InLimits, OneOpen
    <3>3. QED BY <2>4, <2>6, <3>1, <3>2
  <2>14. OneOpen'
    BY <2>4, <2>6, SameOpen
  <2> HIDE DEF p, n, commit
  <2>15. QED BY <1>1, <2>2, <2>7, <2>8, <2>11, <2>12, <2>13, <2>14, PhaseInLimits
<1>4. QED BY <1>2, <1>3

(* A gate whose round goes on. *)
LEMMA RoundGoesOn ==
    ASSUME PhasesSound, JobsTyped, InLimits, WorkStarted, [Next]_vars, author' = author,
           NEW p \in Phases, NEW h \in Gate, phase' = [phase EXCEPT ![p].gate = h],
           h.round = phase[p].gate.round, h.closed = phase[p].gate.closed,
           \A role \in Roles, commit \in Nat :
              <<role, commit>> \in h.evidence => <<role, commit>> \in phase[p].gate.evidence \/ commit <= tip,
           \A c \in checkers' : c \in checkers \/ Checks(c, mishaps', tip),
           \A j \in jobs' \ jobs : /\ j.do \in {"judge", "decide"} /\ j.phase = p
                                   /\ phase[p].gate.closed \/ phase[p].gate.round # 0
    PROVE  InLimits'
<1> DEFINE r == [phase[p] EXCEPT !.gate = h]
<1>1. phase' = [phase EXCEPT ![p] = r] /\ phase[p] \in PhaseRecord
  BY DEF PhasesSound
<1>2. /\ r \in PhaseRecord /\ r.gate = h /\ r.state = phase[p].state
      /\ r.fixes = phase[p].fixes /\ r.verified = phase[p].verified
  BY <1>1, GateOf
<1> HIDE DEF r
<1>3. /\ mishaps \in Nat /\ mishaps' \in Nat /\ mishaps <= mishaps' /\ tip \in Nat /\ tip <= tip
      /\ Within(phase[p], mishaps', tip)
      /\ \A j \in jobs : j.do \in {"open", "judge", "decide"} /\ j.phase = p => Fine(j, phase[p], mishaps')
  BY <1>1, Counted, MoreIsWithin, OvernightAssumption DEF InLimits
<1> HIDE DEF tip
<1>4. Within(r, mishaps', tip)
  BY <1>2, <1>3 DEF Within, Sober, Started, NoRound
<1>5. \A j \in jobs' : \/ j.do \notin {"open", "judge", "decide"}
                       \/ j \in jobs /\ j.phase # p
                       \/ j.phase = p /\ Fine(j, r, mishaps')
  BY <1>2, <1>3 DEF Fine, NoRound
<1>6. OneOpen'
  <2>1. \A j \in jobs' : j.do = "open" => j \in jobs
    OBVIOUS
  <2>2. QED BY <2>1, SameOpen
<1>7. QED BY <1>1, <1>2, <1>4, <1>5, <1>6, PhaseInLimits

LEMMA MemberReportsInLimits ==
    ASSUME PhasesSound, JobsTyped, InLimits, WorkStarted, [Next]_vars, NEW c \in checkers, MemberReports(c)
    PROVE  InLimits'
<1> DEFINE p == c.phase
           g == phase[p].gate
<1>1. checkers' \subseteq checkers /\ author' = author
  BY DEF MemberReports
<1>2. CASE phase' = phase /\ jobs' = jobs
  BY <1>1, <1>2, SameInLimits
<1>3. CASE ~(phase' = phase /\ jobs' = jobs)
  <2>1. PICK result \in Results(c.role) :
           /\ g.round = c.round
           /\ phase' = [phase EXCEPT ![p].gate = Taken(g, c, result)]
           /\ jobs' = jobs \cup Follows(p, Taken(g, c, result))
    BY <1>3 DEF MemberReports
  <2>2. /\ c \in Checker /\ p \in Phases /\ c.role \in Roles /\ c.commit \in Nat /\ g \in Gate
        /\ Checks(c, mishaps, tip)
    BY DEF PhasesSound, Checker, PhaseRecord, InLimits
  <2>3. result \in Answers
    BY <2>1 DEF Results, Answers
  <2> DEFINE h == Taken(g, c, result)
             f == Filled(g, c.role, result)
             e == IF result = "passed" THEN {<<c.role, c.commit>>} ELSE {}
  <2>4. f \in Gate /\ f.evidence = g.evidence /\ f.round = g.round /\ f.closed = g.closed
    BY <2>2, <2>3 DEF Filled, Gate, Roles
  <2>5. h \in Gate /\ h.round = g.round /\ h.closed = g.closed /\ h.evidence = g.evidence \cup e
    <3>1. h = [f EXCEPT !.evidence = f.evidence \cup e]
      BY DEF Taken
    <3>2. e \subseteq Roles \X Nat
      BY <2>2
    <3> HIDE DEF f, e, h
    <3>3. QED BY <2>4, <3>1, <3>2 DEF Gate
  <2>6. c.round # 0 /\ c.commit <= tip
    BY <2>2 DEF Checks
  <2>7. \A role \in Roles, commit \in Nat : <<role, commit>> \in e => commit <= tip
    BY <2>6
  <2> HIDE DEF h, e, tip
  <2>8. \A j \in jobs' \ jobs : j.do \in {"judge", "decide"} /\ j.phase = p
    BY <2>1, Spawns DEF h
  <2>9. phase' = [phase EXCEPT ![p].gate = h]
    BY <2>1 DEF h
  <2>10. QED BY <1>1, <2>1, <2>2, <2>5, <2>6, <2>7, <2>8, <2>9, RoundGoesOn
<1>4. QED BY <1>2, <1>3

LEMMA JudgeStartsInLimits ==
    ASSUME PhasesSound, JobsTyped, InLimits, WorkStarted, OnBranch, [Next]_vars,
           NEW job \in jobs, JudgeStarts(job)
    PROVE  InLimits'
<1> DEFINE p == job.phase
           g == phase[p].gate
           judge == [phase |-> p, round |-> g.round, role |-> "judge", commit |-> g.commit]
           follows == Follows(p, [g EXCEPT !.judge = "failed"])
<1>1. job.do = "judge" /\ author' = author
  BY DEF JudgeStarts, world
<1>2. p \in Phases /\ phase[p] \in PhaseRecord /\ g \in Gate /\ g.round \in Nat
  BY <1>1 DEF JobsTyped, JobRecord, PhasesSound, PhaseRecord, Gate
<1>3. /\ g.closed \/ g.round # 0
      /\ g.commit <= tip
      /\ Within(phase[p], mishaps, tip)
  BY <1>1, <1>2 DEF InLimits, Fine, OnBranch
<1>4. \A j \in jobs' \ jobs : j.do \in {"judge", "decide"} /\ j.phase = p
  <2>1. jobs' \subseteq jobs \cup {Decide(p, job.flag)} \cup follows
    BY Zenon DEF JudgeStarts
  <2>2. Decide(p, job.flag).do = "decide" /\ Decide(p, job.flag).phase = p
    BY DEF Decide, Job
  <2>3. \A j \in follows : j.do \in {"judge", "decide"} /\ j.phase = p
    BY Spawns
  <2> HIDE DEF follows
  <2>4. QED BY <2>1, <2>2, <2>3
<1>5. PICK answer \in Answers : /\ phase' = phase \/ phase' = [phase EXCEPT ![p].gate.judge = answer]
                                /\ checkers' = checkers \/ (checkers' = checkers \cup {judge} /\ ~g.closed)
  <2>1. /\ \/ phase' = phase
           \/ \E answer \in {"none", "failed"} : phase' = [phase EXCEPT ![p].gate.judge = answer]
        /\ checkers' = checkers \/ (checkers' = checkers \cup {judge} /\ ~g.closed)
    BY DEF JudgeStarts
  <2>2. QED BY <2>1 DEF Answers
<1> DEFINE h == IF phase' = phase THEN g ELSE [g EXCEPT !.judge = answer]
<1>6. h \in Gate /\ h.round = g.round /\ h.closed = g.closed /\ h.evidence = g.evidence
  BY <1>2 DEF Gate
<1>7. phase' = [phase EXCEPT ![p].gate = h]
  <2>1. CASE phase' = phase
    BY <1>2, <2>1 DEF PhasesSound, PhaseRecord
  <2>2. CASE phase' # phase
    BY <1>2, <1>5, <2>2 DEF PhasesSound, PhaseRecord, Gate
  <2>3. QED BY <2>1, <2>2
<1>8. mishaps \in Nat /\ mishaps' \in Nat /\ mishaps <= mishaps' /\ MaxRounds \in Nat
  BY Counted, OvernightAssumption
<1> HIDE DEF h, tip
<1>9. ~g.closed => Checks(judge, mishaps', tip)
  BY <1>2, <1>3, <1>8 DEF Checks, Within, Sober
<1>10. \A c \in checkers' : c \in checkers \/ Checks(c, mishaps', tip)
  BY <1>5, <1>9
<1>11. QED BY <1>1, <1>2, <1>3, <1>4, <1>6, <1>7, <1>10, RoundGoesOn

(* A round that is decided is over, and its phase may open another only    *)
(* for the one job that comes of it.                                       *)
LEMMA DecidedInLimits ==
    ASSUME PhasesSound, JobsTyped, InLimits, WorkStarted, [Next]_vars, author' = author,
           NEW p \in Phases, ~phase[p].gate.closed, phase[p].gate.round # 0,
           NEW r \in PhaseRecord, phase' = [phase EXCEPT ![p] = r],
           Started(r), r.gate.closed, r.gate.round \in {0, phase[p].gate.round},
           r.state = "running" => r.gate.round < MaxRounds + mishaps,
           r.fixes <= FixRounds, r.verified <= tip,
           \A role \in Roles, commit \in Nat : <<role, commit>> \in r.gate.evidence => commit <= tip,
           checkers' = checkers, mishaps' = mishaps,
           NEW new, new.do = "advance" \/ /\ new.do = "open" /\ new.phase = p
                                          /\ r.state # "running" /\ r.gate.round < MaxRounds + mishaps,
           jobs' \subseteq jobs \cup {new}
    PROVE  InLimits'
<1>1. Within(phase[p], mishaps, tip) /\ mishaps \in Nat /\ MaxRounds \in Nat
  BY Counted, OvernightAssumption DEF InLimits
<1>2. Within(r, mishaps', tip)
  BY <1>1 DEF Within, Sober, NoRound
<1>3. \A j \in jobs : /\ j.do = "open" => j.phase # p
                      /\ j.do \in {"judge", "decide"} => Fine(j, r, mishaps')
  BY DEF InLimits, Fine, NoRound
<1>4. new.do = "open" => Fine(new, r, mishaps')
  BY DEF Fine, NoRound
<1>5. \A j \in jobs' : \/ j.do \notin {"open", "judge", "decide"}
                       \/ j \in jobs /\ j.phase # p
                       \/ j.phase = p /\ Fine(j, r, mishaps')
  BY <1>3, <1>4
<1>6. OneOpen'
  BY <1>3 DEF InLimits, OneOpen
<1> HIDE DEF tip
<1>7. QED BY <1>2, <1>5, <1>6, PhaseInLimits

LEMMA ClosedEvidence == ASSUME NEW g PROVE Closed(g).evidence = {}
  BY DEF Closed, NoGate

LEMMA DecidesInLimits ==
    ASSUME PhasesSound, JobsTyped, InLimits, WorkStarted, OnBranch, [Next]_vars,
           NEW job \in jobs, Decides(job)
    PROVE  InLimits'
<1> DEFINE p == job.phase
           g == phase[p].gate
<1>1. checkers' = checkers /\ author' = author /\ mishaps' = mishaps /\ job.do = "decide"
  BY DEF Decides, world
<1>2. CASE phase' = phase /\ jobs' \subseteq jobs
  BY <1>1, <1>2, SameInLimits
<1>3. CASE ~(phase' = phase /\ jobs' \subseteq jobs)
  <2>1. ~g.closed
    BY <1>3 DEF Decides
  <2>2. p \in Phases
    BY <1>1 DEF JobsTyped, JobRecord
  <2>3. /\ phase[p] \in PhaseRecord /\ g \in Gate /\ g.round \in Nat /\ g.commit \in Nat
        /\ phase[p].fixes \in Nat /\ phase[p].verified \in Nat
        /\ Started(phase[p]) /\ g.commit <= tip
    BY <1>1, <2>2 DEF PhasesSound, PhaseRecord, Gate, WorkStarted, GoodJobs, OnBranch
  <2>4. /\ g.round # 0 /\ Within(phase[p], mishaps, tip)
        /\ mishaps \in Nat /\ MaxRounds \in Nat /\ FixRounds \in Nat /\ tip \in Nat
    BY <1>1, <2>1, <2>2, Counted, OvernightAssumption DEF InLimits, Fine
  <2>5. PICK userOnly \in BOOLEAN :
           LET verdict == Verdict(p, job.flag, userOnly) IN
           \/ /\ verdict \in {"recheck", "retry"}
              /\ phase' = [phase EXCEPT ![p].gate = Closed(@)]
              /\ jobs' = (jobs \ {job}) \cup {IF verdict = "retry" THEN Open(p, g.commit, TRUE)
                                              ELSE Open(p, tip, FALSE)}
           \/ /\ verdict = "verified"
              /\ phase' = [phase EXCEPT ![p] =
                    [Settled(p, "verified") EXCEPT !.verified = g.commit, !.gate.evidence = g.evidence]]
              /\ jobs' = (jobs \ {job}) \cup {Advance}
           \/ /\ verdict = "fix"
              /\ phase' = [phase EXCEPT ![p] =
                    [phase[p] EXCEPT !.gate = Closed(g), !.state = "running", !.fixes = @ + 1]]
              /\ jobs' = jobs \ {job}
           \/ /\ phase' = [phase EXCEPT ![p] = Settled(p, "partial")]
              /\ jobs' = (jobs \ {job}) \cup {Advance}
    BY <1>3, Zenon DEF Decides
  <2> DEFINE verdict == Verdict(p, job.flag, userOnly)
  <2>6. /\ verdict \in {"recheck", "retry", "fix"} => g.round < MaxRounds
        /\ verdict = "fix" => phase[p].fixes < FixRounds
    BY DEF Verdict
  <2>7. Advance.do = "advance"
    BY DEF Advance, Job
  <2> DEFINE closed == [NoGate EXCEPT !.closed = TRUE]
  <2>8. closed \in Gate /\ closed.closed /\ closed.round = 0 /\ closed.evidence = {}
    BY NoGateTyped DEF Gate, NoGate
  <2>9. CASE /\ verdict \in {"recheck", "retry"}
             /\ phase' = [phase EXCEPT ![p].gate = Closed(@)]
             /\ jobs' = (jobs \ {job}) \cup {IF verdict = "retry" THEN Open(p, g.commit, TRUE)
                                             ELSE Open(p, tip, FALSE)}
    <3> DEFINE r == [phase[p] EXCEPT !.gate = Closed(g)]
               new == IF verdict = "retry" THEN Open(p, g.commit, TRUE) ELSE Open(p, tip, FALSE)
    <3>1. phase' = [phase EXCEPT ![p] = r] /\ jobs' \subseteq jobs \cup {new}
      BY <2>9
    <3>2. /\ r \in PhaseRecord /\ r.gate = Closed(g) /\ r.state = phase[p].state
          /\ r.fixes = phase[p].fixes /\ r.verified = phase[p].verified
      BY <2>3, ClosedGate, GateOf
    <3>3. new.do = "open" /\ new.phase = p
      BY DEF Open, Job
    <3>4. phase[p].state # "running"
      BY <2>1, <2>4 DEF Within, Sober, NoRound
    <3> HIDE DEF r, new, verdict
    <3>5. r.gate.closed /\ r.gate.round = g.round /\ r.gate.evidence = {}
      BY <2>3, <3>2, ClosedGate, ClosedEvidence
    <3>6. /\ Started(r) /\ r.state # "running" /\ r.gate.round < MaxRounds + mishaps
          /\ r.fixes <= FixRounds /\ r.verified <= tip
      BY <2>3, <2>4, <2>6, <2>9, <3>2, <3>4, <3>5 DEF Started, Within
    <3> HIDE DEF p, tip
    <3>7. QED BY <1>1, <2>1, <2>2, <2>4, <3>1, <3>2, <3>3, <3>5, <3>6, DecidedInLimits
  <2>10. CASE /\ verdict = "fix"
              /\ phase' = [phase EXCEPT ![p] =
                    [phase[p] EXCEPT !.gate = Closed(g), !.state = "running", !.fixes = @ + 1]]
              /\ jobs' = jobs \ {job}
    <3> DEFINE now == phase[p]
               fixes == now.fixes + 1
               gate == Closed(g)
               r == [now EXCEPT !.gate = gate, !.state = "running", !.fixes = fixes]
    <3>1. phase' = [phase EXCEPT ![p] = r]
      BY <2>10, Zenon
    <3>2. /\ r \in PhaseRecord /\ r.gate = gate /\ r.state = "running"
          /\ r.fixes = fixes /\ r.verified = phase[p].verified
      <4>1. now \in PhaseRecord /\ fixes \in Nat /\ gate \in Gate
        BY <2>3, ClosedGate
      <4> HIDE DEF now, fixes, gate
      <4>2. /\ r \in PhaseRecord /\ r.gate = gate /\ r.state = "running"
            /\ r.fixes = fixes /\ r.verified = now.verified
        BY <4>1 DEF PhaseRecord, PhaseStates
      <4>3. QED BY <4>2 DEF now
    <3> HIDE DEF r, verdict
    <3>3. r.gate.closed /\ r.gate.round = g.round /\ r.gate.evidence = {}
      BY <2>3, <3>2, ClosedGate, ClosedEvidence
    <3>4. /\ Started(r) /\ r.gate.round < MaxRounds + mishaps
          /\ r.fixes <= FixRounds /\ r.verified <= tip
      BY <2>3, <2>4, <2>6, <2>10, <3>2, <3>3 DEF Started, Within
    <3>5. jobs' \subseteq jobs \cup {Advance}
      BY <2>10
    <3> HIDE DEF p, tip
    <3>6. QED BY <1>1, <2>1, <2>2, <2>4, <2>7, <3>1, <3>2, <3>3, <3>4, <3>5, DecidedInLimits
  <2>11. CASE /\ phase' = [phase EXCEPT ![p] = Settled(p, "partial")]
              /\ jobs' = (jobs \ {job}) \cup {Advance}
    <3> DEFINE r == Settled(p, "partial")
    <3>1. /\ r \in PhaseRecord /\ r.gate = closed /\ r.state = "partial"
          /\ r.fixes = 0 /\ r.verified = phase[p].verified
      BY <2>3, <2>8 DEF Settled, PhaseRecord, PhaseStates
    <3>2. phase' = [phase EXCEPT ![p] = r] /\ jobs' \subseteq jobs \cup {Advance}
      BY <2>11
    <3> HIDE DEF r, closed
    <3>3. /\ Started(r) /\ r.gate.round = 0 /\ r.gate.evidence = {} /\ r.gate.closed
          /\ r.fixes <= FixRounds /\ r.verified <= tip
      BY <2>4, <2>8, <3>1 DEF Started, Within
    <3> HIDE DEF p, tip
    <3>4. QED BY <1>1, <2>1, <2>2, <2>4, <2>7, <3>1, <3>2, <3>3, DecidedInLimits
  <2>12. CASE /\ phase' = [phase EXCEPT ![p] =
                    [Settled(p, "verified") EXCEPT !.verified = g.commit, !.gate.evidence = g.evidence]]
              /\ jobs' = (jobs \ {job}) \cup {Advance}
    <3> DEFINE s == Settled(p, "verified")
               h == [closed EXCEPT !.evidence = g.evidence]
               r == [s EXCEPT !.verified = g.commit, !.gate.evidence = g.evidence]
    <3>1. s \in PhaseRecord /\ s.gate = closed /\ s.state = "verified" /\ s.fixes = 0
      BY <2>3, <2>8 DEF Settled, PhaseRecord, PhaseStates
    <3>2. h \in Gate /\ h.closed /\ h.round = 0 /\ h.evidence = g.evidence
      BY <2>3, <2>8 DEF Gate
    <3>3. phase' = [phase EXCEPT ![p] = r] /\ jobs' \subseteq jobs \cup {Advance}
      BY <2>12
    <3>4. /\ r \in PhaseRecord /\ r.gate = h /\ r.state = "verified" /\ r.verified = g.commit
          /\ r.fixes = 0
      <4> HIDE DEF s, closed
      <4>1. r = [s EXCEPT !.verified = g.commit, !.gate = h]
        BY <3>1 DEF PhaseRecord
      <4> HIDE DEF r, h
      <4>2. QED BY <2>3, <3>1, <3>2, <4>1 DEF PhaseRecord
    <3> HIDE DEF r, h, tip
    <3>5. /\ Started(r) /\ r.gate.round = 0 /\ r.gate.closed
          /\ r.fixes <= FixRounds /\ r.verified <= tip
          /\ \A role \in Roles, commit \in Nat : <<role, commit>> \in r.gate.evidence => commit <= tip
      BY <2>3, <2>4, <3>2, <3>4 DEF Started, Within
    <3> HIDE DEF p, closed
    <3>6. QED BY <1>1, <2>1, <2>2, <2>4, <2>7, <3>3, <3>4, <3>5, DecidedInLimits
  <2>13. QED BY <2>5, <2>9, <2>10, <2>11, <2>12, Zenon
<1>4. QED BY <1>2, <1>3

(* What is left when the run ends: a stopped round goes on to its verdict, *)
(* and a phase whose rounds are counted anew opens none.                   *)
LEMMA CutWasOpen ==
    ASSUME PhasesSound, InLimits, NEW p \in Phases, Stopped(p) # phase[p].gate
    PROVE  phase[p].gate.round # 0
<1> DEFINE g == phase[p].gate
           cut(role) == /\ Slot(role, g) = "none" /\ ~g.closed
                        /\ \E c \in checkers : c.phase = p /\ c.role = role /\ c.round = g.round
           after(role) == IF cut(role) THEN "failed" ELSE Slot(role, g)
<1>1. Stopped(p) = [g EXCEPT !.verify = after("verify"), !.review = after("review"), !.judge = after("judge")]
  BY Zenon DEF Stopped
<1>2. g \in Gate
  BY DEF PhasesSound, PhaseRecord
<1>3. CASE \E role \in Roles : cut(role)
  <2>1. PICK c \in checkers : c.round = g.round
    BY <1>3
  <2>2. c.round # 0
    BY DEF InLimits, Checks
  <2>3. QED BY <2>1, <2>2
<1>4. CASE ~\E role \in Roles : cut(role)
  <2>1. after("verify") = g.verify /\ after("review") = g.review /\ after("judge") = g.judge
    <3>1. ~cut("verify") /\ ~cut("review") /\ ~cut("judge")
      BY <1>4 DEF Roles
    <3> HIDE DEF cut, g
    <3>2. QED BY <3>1 DEF Slot
  <2> HIDE DEF after, g
  <2>2. [g EXCEPT !.verify = g.verify, !.review = g.review, !.judge = g.judge] = g
    BY <1>2 DEF Gate
  <2>3. QED BY <1>1, <2>1, <2>2 DEF g
<1>5. QED BY <1>3, <1>4

LEMMA EndSettlesInLimits ==
    ASSUME PhasesSound, JobsTyped, InLimits, WorkStarted, [Next]_vars, EndSettles
    PROVE  InLimits'
<1> DEFINE state(p) == IF Active /\ run.state = "windingDown" /\ phase[p].state \in {"running", "checking"}
                       THEN "partial" ELSE phase[p].state
           gate(p) == IF Active THEN Stopped(p) ELSE phase[p].gate
           r(p) == [phase[p] EXCEPT !.gate = gate(p), !.state = state(p)]
           follows == UNION {Follows(p, Stopped(p)) : p \in {q \in Phases : Stopped(q) # phase[q].gate}}
<1>1. author' = author /\ mishaps' = mishaps /\ checkers' = {}
  BY DEF EndSettles
<1>2. /\ mishaps \in Nat /\ mishaps' \in 0 .. MaxMishaps
      /\ tip \in Nat /\ tip' = tip /\ tip' <= MaxCommits
  BY <1>1, Counted DEF tip
<1>3. phase' = [p \in Phases |-> r(p)]
  <2>1. CASE Active
    BY <2>1 DEF EndSettles
  <2>2. CASE ~Active
    <3>1. \A p \in Phases : r(p) = phase[p]
      BY <2>2 DEF PhasesSound, PhaseRecord
    <3>2. phase' = phase
      BY <2>2 DEF EndSettles
    <3> HIDE DEF r
    <3>3. QED BY <3>1, <3>2 DEF PhasesSound
  <2>3. QED BY <2>1, <2>2
<1>4. ASSUME NEW p \in Phases
      PROVE  /\ r(p).gate = gate(p) /\ r(p).state = state(p)
             /\ r(p).fixes = phase[p].fixes /\ r(p).verified = phase[p].verified
             /\ gate(p).round = phase[p].gate.round /\ gate(p).closed = phase[p].gate.closed
             /\ gate(p).evidence = phase[p].gate.evidence
             /\ state(p) \in {phase[p].state, "partial"} /\ (state(p) # phase[p].state => Started(phase[p]))
  <2>1. phase[p] \in PhaseRecord /\ phase[p].gate \in Gate
    BY DEF PhasesSound, PhaseRecord
  <2>2. /\ gate(p) \in Gate
        /\ gate(p).round = phase[p].gate.round /\ gate(p).closed = phase[p].gate.closed
        /\ gate(p).evidence = phase[p].gate.evidence
    BY <2>1, StoppedGate
  <2>3. /\ state(p) \in {phase[p].state, "partial"} /\ state(p) \in PhaseStates
        /\ state(p) # phase[p].state => Started(phase[p])
    BY <2>1 DEF PhaseRecord, PhaseStates, Started
  <2> HIDE DEF gate, state
  <2>4. /\ r(p).gate = gate(p) /\ r(p).state = state(p)
        /\ r(p).fixes = phase[p].fixes /\ r(p).verified = phase[p].verified
    BY <2>1 DEF PhaseRecord
  <2>5. QED BY <2>2, <2>3, <2>4
<1> HIDE DEF r, gate, state, tip
<1>5. ASSUME NEW p \in Phases PROVE Within(r(p), mishaps, tip)
  <2>1. Within(phase[p], mishaps, tip)
    BY DEF InLimits
  <2>2. QED BY <1>4, <2>1 DEF Within, Sober, Started, NoRound
<1>6. ASSUME NEW j \in jobs', j.do \in {"open", "judge", "decide"} PROVE Fine(j, phase'[j.phase], mishaps)
  <2>1. CASE j \in jobs
    <3>1. j.phase \in Phases /\ Fine(j, phase[j.phase], mishaps)
      BY <1>6, <2>1 DEF JobsTyped, JobRecord, InLimits
    <3>2. QED BY <1>3, <1>4, <3>1 DEF Fine, NoRound
  <2>2. CASE j \notin jobs
    <3>1. PICK p \in Phases : Stopped(p) # phase[p].gate /\ j \in Follows(p, Stopped(p))
      BY <2>2, Zenon DEF EndSettles
    <3>2. phase[p].gate.round # 0
      BY <3>1, CutWasOpen
    <3>3. j.do \in {"judge", "decide"} /\ j.phase = p
      BY <3>1, Spawns
    <3>4. QED BY <1>3, <1>4, <3>2, <3>3 DEF Fine
  <2>3. QED BY <2>1, <2>2
<1>7. OneOpen'
  <2>1. jobs' \subseteq jobs \cup follows
    BY Zenon DEF EndSettles
  <2>2. \A j \in follows : j.do # "open"
    BY Spawns
  <2> HIDE DEF follows
  <2>3. QED BY <2>1, <2>2, SameOpen
<1>8. QED BY <1>1, <1>2, <1>3, <1>5, <1>6, <1>7 DEF InLimits

(* A restart begins a round again: one more than the limit, that it itself *)
(* counts for, and the only one its phase may open.                        *)
LEMMA RestartInLimits ==
    ASSUME PhasesSound, JobsTyped, InLimits, WorkStarted, [Next]_vars, Restart
    PROVE  InLimits'
<1>1. author' = author /\ mishaps' = mishaps + 1 /\ checkers' = {}
  BY DEF Restart, Mishap
<1>2. /\ mishaps \in Nat /\ mishaps' \in Nat /\ mishaps' \in 0 .. MaxMishaps /\ MaxRounds \in Nat
      /\ tip \in Nat /\ tip' = tip /\ tip' <= MaxCommits /\ tip <= tip /\ mishaps <= mishaps'
  BY <1>1, Counted, OvernightAssumption DEF tip
<1> DEFINE again(p) == run.state = "phaseGate" /\ p \in Reopened
           closed(p) == again(p) /\ phase[p].gate.round > 0
           gate(p) == Closed(phase[p].gate)
           r(p) == IF closed(p) THEN [Lost(p) EXCEPT !.gate = gate(p)] ELSE Lost(p)
<1>3. phase' = [p \in Phases |-> r(p)]
  <2>1. CASE run.state = "phaseGate"
    <3>1. phase' = [p \in Phases |->
                      IF p \in Reopened /\ phase[p].gate.round > 0
                      THEN [Lost(p) EXCEPT !.gate = Closed(@)] ELSE Lost(p)]
      BY <2>1 DEF Restart
    <3>2. \A p \in Phases : Lost(p).gate = phase[p].gate
      BY DEF Lost, PhasesSound, PhaseRecord
    <3>3. QED BY <2>1, <3>1, <3>2
  <2>2. CASE run.state # "phaseGate"
    BY <2>2 DEF Restart
  <2>3. QED BY <2>1, <2>2
<1>4. ASSUME NEW p \in Phases
      PROVE  /\ r(p).state = phase[p].state /\ r(p).fixes = phase[p].fixes
             /\ r(p).verified = phase[p].verified
             /\ r(p).gate.round = phase[p].gate.round
             /\ closed(p) => r(p).gate.closed /\ r(p).gate.evidence = {}
             /\ ~closed(p) => r(p).gate = phase[p].gate
  <2>1. phase[p] \in PhaseRecord /\ phase[p].gate.round \in Nat
    BY DEF PhasesSound, PhaseRecord, Gate
  <2>2. /\ Lost(p) \in PhaseRecord /\ Lost(p).gate = phase[p].gate
        /\ Lost(p).state = phase[p].state /\ Lost(p).verified = phase[p].verified
        /\ Lost(p).fixes = phase[p].fixes
    BY <2>1 DEF Lost, PhaseRecord
  <2>3. /\ gate(p) \in Gate /\ gate(p).closed /\ gate(p).round = phase[p].gate.round
        /\ gate(p).evidence = {}
    BY <2>1, ClosedGate, ClosedEvidence
  <2> HIDE DEF gate, closed
  <2>4. CASE closed(p)
    <3>1. r(p) = [Lost(p) EXCEPT !.gate = gate(p)]
      BY <2>4
    <3> HIDE DEF r
    <3>2. QED BY <2>2, <2>3, <2>4, <3>1, GateOf
  <2>5. CASE ~closed(p)
    <3>1. r(p) = Lost(p)
      BY <2>5
    <3> HIDE DEF r
    <3>2. QED BY <2>2, <2>5, <3>1
  <2>6. QED BY <2>4, <2>5
<1> HIDE DEF r, gate, tip
<1>5. ASSUME NEW p \in Phases PROVE Within(r(p), mishaps', tip)
  <2>1. Within(phase[p], mishaps', tip)
    BY <1>2, MoreIsWithin DEF InLimits, PhasesSound
  <2>2. closed(p) => phase[p].state = "checking"
    BY DEF Reopened, InState
  <2> HIDE DEF closed
  <2>3. QED BY <1>4, <2>1, <2>2 DEF Within, Sober, Started, NoRound
<1>6. jobs' \subseteq {Job("prepare", 0), Advance}
                     \cup {Open(p, Candidate(p), FALSE) : p \in {q \in Phases : again(q)}}
  <2>1. CASE run.state = "phaseGate"
    <3>1. jobs' = {Open(p, Candidate(p), FALSE) : p \in Reopened}
      BY <2>1 DEF Restart
    <3>2. Reopened \subseteq Phases
      BY DEF Reopened, InState
    <3>3. QED BY <2>1, <3>1, <3>2
  <2>2. CASE run.state # "phaseGate"
    BY <2>2, Zenon DEF Restart
  <2>3. QED BY <2>1, <2>2
<1>7. ASSUME NEW j \in jobs', j.do \in {"open", "judge", "decide"}
      PROVE  \E p \in Phases : again(p) /\ j = Open(p, Candidate(p), FALSE) /\ j.phase = p /\ j.do = "open"
  <2>1. Job("prepare", 0).do = "prepare" /\ Advance.do = "advance"
    BY DEF Job, Advance
  <2>2. PICK p \in Phases : again(p) /\ j = Open(p, Candidate(p), FALSE)
    BY <1>6, <1>7, <2>1
  <2>3. Open(p, Candidate(p), FALSE).phase = p /\ Open(p, Candidate(p), FALSE).do = "open"
    BY DEF Open, Job
  <2>4. QED BY <2>2, <2>3
<1>8. ASSUME NEW j \in jobs', j.do \in {"open", "judge", "decide"} PROVE Fine(j, phase'[j.phase], mishaps')
  <2>1. PICK p \in Phases : again(p) /\ j.phase = p /\ j.do = "open"
    BY <1>7, <1>8
  <2>2. /\ phase[p].state = "checking" /\ phase[p].gate.round \in Nat
        /\ phase[p].gate.round <= MaxRounds + mishaps
    BY <2>1 DEF Reopened, InState, PhasesSound, PhaseRecord, Gate, InLimits, Within, Sober
  <2>3. r(p).gate.closed \/ r(p).gate.round = 0
    BY <1>4, <2>1, <2>2
  <2>4. r(p).gate.round < MaxRounds + mishaps' /\ r(p).state = "checking"
    BY <1>1, <1>2, <1>4, <2>2
  <2>5. QED BY <1>3, <2>1, <2>3, <2>4 DEF Fine, NoRound
<1>9. OneOpen'
  <2>1. SUFFICES ASSUME NEW j \in jobs', NEW k \in jobs',
                        j.do = "open", k.do = "open", j.phase = k.phase
                 PROVE  j = k
    BY DEF OneOpen
  <2> HIDE DEF again
  <2>2. /\ \E p \in Phases : again(p) /\ j = Open(p, Candidate(p), FALSE) /\ j.phase = p
        /\ \E p \in Phases : again(p) /\ k = Open(p, Candidate(p), FALSE) /\ k.phase = p
    BY <1>7, <2>1
  <2>3. QED BY <2>1, <2>2
<1>10. QED BY <1>1, <1>2, <1>3, <1>5, <1>8, <1>9 DEF InLimits

-----------------------------------------------------------------------------
LEMMA InLimitsNext ==
    ASSUME PhasesSound, JobsTyped, InLimits, WorkStarted, OnBranch, [Next]_vars
    PROVE  InLimits'
<1>1. CASE \/ \E p \in Phases : Steer(p) \/ Leads(p)
           \/ Advances \/ EndSettles \/ Restart
  BY <1>1, SteerInLimits, LeadsInLimits, AdvancesInLimits, EndSettlesInLimits, RestartInLimits
<1>2. CASE \E job \in jobs : DoneRecorded(job) \/ Opens(job) \/ JudgeStarts(job) \/ Decides(job)
  BY <1>2, DoneRecordedInLimits, OpensInLimits, JudgeStartsInLimits, DecidesInLimits
<1>3. CASE \E c \in checkers : MemberReports(c)
  BY <1>3, MemberReportsInLimits
<1>4. ASSUME \/ Start \/ Stop \/ Prepare \/ EndPosts \/ EndFinishes \/ ClockResumes \/ Over \/ UNCHANGED vars
             \/ PhaseDone \/ CheckedAsIs
             \/ \E p \in Phases : Delegate(p) \/ TaskEnds(p)
      PROVE  /\ phase' = phase /\ checkers' \subseteq checkers
             /\ \A j \in jobs' : j.do \notin {"open", "judge", "decide"} \/ j \in jobs
  <2>1. Job("prepare", 0).do = "prepare" /\ Advance.do = "advance" /\ \A p : Done(p).do = "done"
    BY DEF Job, Advance, Done
  <2>2. Start \/ Stop \/ Prepare => /\ phase' = phase /\ checkers' = checkers
                                    /\ jobs' \subseteq jobs \cup {Job("prepare", 0), Advance}
    BY DEF Start, Stop, Prepare
  <2>3. EndPosts \/ EndFinishes \/ ClockResumes \/ Over \/ UNCHANGED vars
           => phase' = phase /\ checkers' = checkers /\ jobs' = jobs
    BY DEF EndPosts, EndFinishes, ClockResumes, Over, vars, memory
  <2>4. PhaseDone \/ CheckedAsIs => /\ phase' = phase /\ checkers' = checkers
                                    /\ \E p : jobs' = jobs \cup {Done(p)}
    BY Zenon DEF PhaseDone, CheckedAsIs
  <2>5. \A p \in Phases : Delegate(p) \/ TaskEnds(p) => phase' = phase /\ checkers' = checkers /\ jobs' = jobs
    BY DEF Delegate, TaskEnds, memory
  <2>6. CASE Start \/ Stop \/ Prepare
    BY <2>1, <2>2, <2>6
  <2>7. CASE EndPosts \/ EndFinishes \/ ClockResumes \/ Over \/ UNCHANGED vars
    BY <2>3, <2>7
  <2>8. CASE PhaseDone \/ CheckedAsIs
    BY <2>1, <2>4, <2>8
  <2>9. CASE \E p \in Phases : Delegate(p) \/ TaskEnds(p)
    BY <2>5, <2>9
  <2>10. QED BY <1>4, <2>6, <2>7, <2>8, <2>9
<1>5. CASE \/ Start \/ Stop \/ Prepare \/ EndPosts \/ EndFinishes \/ ClockResumes \/ Over \/ UNCHANGED vars
           \/ PhaseDone \/ CheckedAsIs
           \/ \E p \in Phases : Delegate(p) \/ TaskEnds(p)
  BY <1>4, <1>5, SameInLimits
<1>6. QED BY <1>1, <1>2, <1>3, <1>5 DEF Next, User, Conductor, Agents, Ends

LEMMA InLimitsInit == Init => InLimits
<1> SUFFICES ASSUME Init PROVE InLimits
  OBVIOUS
<1>1. /\ \A p \in Phases : /\ phase[p].state = "pending" /\ phase[p].gate = NoGate
                           /\ phase[p].fixes = 0 /\ phase[p].verified = 0
      /\ jobs = {} /\ checkers = {} /\ tip = 0 /\ mishaps = 0
  BY DEF Init, tip
<1>2. NoGate.round = 0 /\ NoGate.evidence = {}
  BY DEF NoGate
<1>3. MaxRounds \in Nat /\ FixRounds \in Nat /\ MaxCommits \in Nat /\ MaxMishaps \in Nat
  BY OvernightAssumption
<1> HIDE DEF tip
<1>4. \A p \in Phases : Within(phase[p], mishaps, tip)
  BY <1>1, <1>2, <1>3 DEF Within, Sober, Started
<1>5. QED BY <1>1, <1>3, <1>4 DEF InLimits, OneOpen

(* How far the ending came, and whether the fence held. *)
Flagged == ending \in {"no", "waiting", "settled", "posted"} /\ held \in BOOLEAN

LEMMA FlaggedNext == ASSUME Flagged, [Next]_vars PROVE Flagged'
<1>1. User => Flagged'
  BY DEF User, Start, Stop, Steer, EndsOnce, Flagged, world
<1>2. Prepare \/ Advances \/ (\E p \in Phases : Leads(p)) => Flagged'
  BY DEF Prepare, Advances, Leads, EndsOnce, Flagged, world
<1>3. \A job \in jobs : DoneRecorded(job) \/ Opens(job) => Flagged'
  <2>1. \A job \in jobs : DoneRecorded(job) \/ Opens(job) => ending' = ending
    BY DEF DoneRecorded, Opens
  <2>2. \A job \in jobs : DoneRecorded(job) \/ Opens(job) => held' = held \/ held' = (held /\ ~WindingDown)
    BY Zenon DEF DoneRecorded, Opens
  <2>3. (held /\ ~WindingDown) \in BOOLEAN
    OBVIOUS
  <2>4. QED BY <2>1, <2>2, <2>3, Zenon DEF Flagged
<1>4. \A job \in jobs : JudgeStarts(job) \/ Decides(job) => Flagged'
  BY DEF JudgeStarts, Decides, Flagged
<1>5. Agents => Flagged'
  BY DEF Agents, PhaseDone, CheckedAsIs, Delegate, TaskEnds, MemberReports, memory, Flagged
<1>6. Ends \/ ClockResumes \/ Restart \/ Over \/ UNCHANGED vars => Flagged'
  BY DEF Ends, EndSettles, EndPosts, EndFinishes, ClockResumes, Restart, Over, vars, memory, Flagged
<1>7. QED BY <1>1, <1>2, <1>3, <1>4, <1>5, <1>6 DEF Next, Conductor

-----------------------------------------------------------------------------
Inductive == PhasesSound /\ JobsTyped /\ RunTyped /\ Ordered /\ Reported

LEMMA InductiveInit == Init => Inductive
<1> SUFFICES ASSUME Init PROVE Inductive
  OBVIOUS
<1>1. PhasesSound
  <2> DEFINE r == [state |-> "pending", begun |-> "no", gate |-> NoGate, fixes |-> 0, verified |-> 0]
  <2>1. phase = [p \in Phases |-> r] /\ checkers = {}
    BY DEF Init
  <2>2. r \in PhaseRecord
    BY NoGateTyped DEF PhaseRecord, PhaseStates
  <2>3. NoGate.verify = "absent" /\ NoGate.review = "absent" /\ NoGate.judge = "absent"
    BY DEF NoGate
  <2>4. Evident(r) /\ Approved(r)
    BY <2>3 DEF Evident, Approved, Slot
  <2> HIDE DEF r
  <2>5. QED BY <2>1, <2>2, <2>4 DEF PhasesSound
<1>2. JobsTyped /\ RunTyped
  BY DEF Init, JobsTyped, RunTyped, RunRecord, RunStates
<1>3. Reported
  BY DEF Init, Reported, Untouched
<1>4. QED BY <1>1, <1>2, <1>3, OrderedInit DEF Inductive

LEMMA InductiveNext == Inductive /\ [Next]_vars => Inductive'
<1> SUFFICES ASSUME Inductive, [Next]_vars PROVE Inductive'
  OBVIOUS
<1>1. PhasesSound' /\ JobsTyped' /\ RunTyped'
  BY SoundNext, JobsTypedNext, RunNext DEF Inductive, Ordered
<1>2. Reported'
  BY ReportedNext DEF Inductive
<1>3. Ordered'
  BY <1>1, OrderedNext DEF Inductive
<1>4. QED BY <1>1, <1>2, <1>3 DEF Inductive

(* For any plan, and however often its phases are checked, sent back or    *)
(* restarted: an open round's passes are on its commit, checkers stay with *)
(* their round, one phase is live, and a report is on its way or posted    *)
(* once (overnight/).                                                      *)
THEOREM InductiveInvariant == Spec => []Inductive
<1>1. QED BY InductiveInit, InductiveNext, PTL DEF Spec

(* A verified phase was passed by a verifier, a reviewer and a judge, each *)
(* on the commit it is verified at (phase_member_result, verdict_of).      *)
THEOREM VerifiedWasChecked == Spec => []CheckedAsVerified
<1>1. Inductive => CheckedAsVerified
  BY DEF Inductive, PhasesSound, Approved, CheckedAsVerified, InState
<1>2. QED BY <1>1, InductiveInvariant, PTL

(* Up to the merge point there is no work of a phase that began and was not *)
(* verified (decide_phase).                                                *)
THEOREM MergeIsCovered == Spec => []WorkCovered
<1>1. Inductive => WorkCovered
  BY DEF Inductive, Ordered, Covered, WorkCovered
<1>2. QED BY <1>1, InductiveInvariant, PTL

(* However often the ending is cut off or fails, one report is posted, and *)
(* no run that began finishes without it (write_run_report, end_run).      *)
THEOREM ReportedOnce == Spec => []OneReport
<1>1. Inductive => OneReport
  BY DEF Inductive, Reported, Untouched, OneReport
<1>2. QED BY <1>1, InductiveInvariant, PTL

LEMMA LimitedKinds ==
    ASSUME Inductive, InLimits, Flagged
    PROVE  TypeOK
<1>1. /\ mishaps \in 0 .. MaxMishaps /\ mishaps \in Nat /\ tip \in Nat /\ tip <= MaxCommits
      /\ MaxRounds \in Nat /\ FixRounds \in Nat /\ MaxCommits \in Nat /\ MaxMishaps \in Nat
  BY TipTyped, OvernightAssumption DEF Inductive, InLimits
<1>2. author \in Seq(Phases) /\ Len(author) <= MaxCommits
  BY <1>1 DEF Inductive, JobsTyped, tip
<1> HIDE DEF tip
<1>3. run \in [state : RunStates, branch : BOOLEAN, merge : Commits]
  BY <1>1 DEF Inductive, RunTyped, RunRecord, Ordered, OnBranch, Commits
<1>4. phase \in [Phases -> [state : PhaseStates, begun : {"no", "chosen", "yes"}, gate : Gates,
                            fixes : 0 .. FixRounds, verified : Commits]]
  <2>1. ASSUME NEW p \in Phases
        PROVE  phase[p] \in [state : PhaseStates, begun : {"no", "chosen", "yes"}, gate : Gates,
                             fixes : 0 .. FixRounds, verified : Commits]
    <3>1. phase[p] \in PhaseRecord /\ phase[p].gate \in Gate
      BY DEF Inductive, PhasesSound, PhaseRecord
    <3>2. Within(phase[p], mishaps, tip) /\ phase[p].gate.commit <= tip
      BY DEF InLimits, Inductive, Ordered, OnBranch
    <3>3. phase[p].gate.evidence \subseteq Roles \X Commits
      <4>1. phase[p].gate.evidence \subseteq Roles \X Nat
        BY <3>1 DEF Gate
      <4>2. \A e \in phase[p].gate.evidence : e \in Roles \X Commits
        BY <1>1, <3>2, <4>1 DEF Within, Commits
      <4>3. QED BY <4>2
    <3>4. phase[p].gate.round \in 0 .. MaxRounds + MaxMishaps /\ phase[p].gate.commit \in Commits
      BY <1>1, <3>1, <3>2 DEF Gate, Within, Sober, Commits
    <3>5. phase[p].gate \in Gates
      BY <3>1, <3>3, <3>4 DEF Gate, Gates
    <3>6. phase[p].fixes \in 0 .. FixRounds /\ phase[p].verified \in Commits
      BY <1>1, <3>1, <3>2 DEF PhaseRecord, Within, Commits
    <3>7. QED BY <3>1, <3>5, <3>6 DEF PhaseRecord
  <2>2. phase \in [Phases -> PhaseRecord]
    BY DEF Inductive, PhasesSound
  <2>3. QED BY <2>1, <2>2
<1>5. open \subseteq Phases
  BY DEF Inductive, Ordered, WorkStarted
<1>6. checkers \subseteq [phase : Phases, round : 1 .. MaxRounds + MaxMishaps, role : Roles, commit : Commits]
  <2>1. ASSUME NEW c \in checkers
        PROVE  c \in [phase : Phases, round : 1 .. MaxRounds + MaxMishaps, role : Roles, commit : Commits]
    <3>1. c \in Checker /\ Checks(c, mishaps, tip)
      BY DEF Inductive, PhasesSound, InLimits
    <3>2. c.round \in 1 .. MaxRounds + MaxMishaps /\ c.commit \in Commits
      BY <1>1, <3>1 DEF Checker, Checks, Commits
    <3>3. QED BY <3>1, <3>2 DEF Checker
  <2>2. QED BY <2>1
<1>7. jobs \subseteq [do : Work, phase : Phases \cup {0}, commit : Commits, flag : BOOLEAN]
  <2>1. ASSUME NEW j \in jobs
        PROVE  j \in [do : Work, phase : Phases \cup {0}, commit : Commits, flag : BOOLEAN]
    <3>1. j \in [do : Work, phase : Phases \cup {0}, commit : Nat, flag : BOOLEAN] /\ j.commit <= tip
      BY DEF Inductive, Ordered, WorkStarted, GoodJobs, JobRecord
    <3>2. j.commit \in Commits
      BY <1>1, <3>1 DEF Commits
    <3>3. QED BY <3>1, <3>2
  <2>2. QED BY <2>1
<1>8. posted \in Nat
  BY DEF Inductive, Reported
<1>9. QED BY <1>1, <1>2, <1>3, <1>4, <1>5, <1>6, <1>7, <1>8 DEF TypeOK, Flagged

(* Every value stays of its kind, and the rounds of a phase's checks within *)
(* MAX_ROUNDS, but for those a restart begins again, and its fixes within   *)
(* FIX_ROUNDS (phase_gates.rs: open_phase_round, verdict_of; resume_run).  *)
THEOREM LimitsKept == Spec => []TypeOK
<1>1. Init => InLimits /\ Flagged
  BY InLimitsInit DEF Init, Flagged
<1>2. Inductive /\ InLimits /\ Flagged /\ [Next]_vars => InLimits' /\ Flagged'
  BY InLimitsNext, FlaggedNext DEF Inductive, Ordered
<1>3. Inductive /\ InLimits /\ Flagged => TypeOK
  BY LimitedKinds
<1>4. QED BY <1>1, <1>2, <1>3, InductiveInvariant, PTL DEF Spec
=============================================================================

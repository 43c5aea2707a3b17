------------------------- MODULE CleanupLedgerProofs -------------------------
(***************************************************************************)
(* Proofs about the cleanup ledger, for any owners, tasks and artifacts:   *)
(* what a job created is always in the log, the memory is the log once     *)
(* settled, and nothing takes the files of an owner that was not to be     *)
(* disposed of.                                                            *)
(***************************************************************************)
EXTENDS CleanupLedger, TLAPS

USE LedgerAssumption

LEMMA NoJobType == NoJob \in Job
BY DEF NoJob, Job

LEMMA HoldingsTypes ==
    ASSUME NEW h \in Holdings, NEW o \in Owners, NEW set \in SUBSET Artifacts
    PROVE  /\ With(h, o, set) \in Holdings /\ Without(h, o, set) \in Holdings
           /\ With(h, o, set)[o] = h[o] \union set /\ Without(h, o, set)[o] = h[o] \ set
           /\ \A p \in Owners \ {o} : With(h, o, set)[p] = h[p] /\ Without(h, o, set)[p] = h[p]
BY DEF With, Without, Holdings

LEMMA HoldingsAt ==
    ASSUME NEW h \in Holdings, NEW p \in Owners, NEW set \in SUBSET Artifacts, NEW o \in Owners
    PROVE  /\ p = o => With(h, p, set)[o] = h[o] \union set /\ Without(h, p, set)[o] = h[o] \ set
           /\ p # o => With(h, p, set)[o] = h[o] /\ Without(h, p, set)[o] = h[o]
<1>1. CASE p = o
  BY <1>1 DEF With, Without, Holdings
<1>2. CASE p # o
  BY <1>2 DEF With, Without, Holdings
<1> QED
  BY <1>1, <1>2

LEMMA GotoTypes ==
    ASSUME TypeOK, NEW t \in Tasks, NEW s \in Steps, NEW j \in Job, Goto(t, s, j)
    PROVE  /\ pc' \in [Tasks -> Steps] /\ job' \in [Tasks -> Job]
           /\ pc'[t] = s /\ job'[t] = j
           /\ \A u \in Tasks \ {t} : pc'[u] = pc[u] /\ job'[u] = job[u]
BY DEF TypeOK, Goto

-----------------------------------------------------------------------------
(* Type correctness. *)
LEMMA InitTypes == Init => TypeOK
BY NoJobType DEF Init, TypeOK, Nothing, Holdings, Steps

LEMMA StartTypes ==
    ASSUME TypeOK, NEW t \in Tasks, NEW o \in Owners, StartDispose(t, o) \/ StartEnd(t, o)
    PROVE  pc' \in [Tasks -> Steps] /\ job' \in [Tasks -> Job]
<1>1. CASE StartDispose(t, o)
  <2> DEFINE s == IF o \in disposing THEN "snapshot" ELSE "request"
             j == [NoJob EXCEPT !.owner = o, !.disposes = TRUE]
  <2>1. s \in Steps /\ j \in Job
    BY NoJobType DEF Steps, Job
  <2>2. Goto(t, s, j)
    BY <1>1 DEF StartDispose
  <2> HIDE DEF s, j
  <2> QED
    BY <2>1, <2>2, GotoTypes
<1>2. CASE StartEnd(t, o)
  <2> DEFINE j == [NoJob EXCEPT !.owner = o, !.left = ItsProcesses(o)]
  <2>1. j \in Job
    BY NoJobType DEF Job, ItsProcesses, Processes
  <2>2. Goto(t, "remove", j)
    BY <1>2 DEF StartEnd
  <2> HIDE DEF j
  <2> QED
    BY <2>1, <2>2, GotoTypes DEF Steps
<1> QED
  BY <1>1, <1>2

LEMMA NextPartTypes ==
    ASSUME TypeOK, NEW t \in Tasks, NextPart(t)
    PROVE  /\ pc' \in [Tasks -> Steps] /\ job' \in [Tasks -> Job]
           /\ disposing' \subseteq Owners
           /\ life' \in [Owners -> {"open", "leaving", "closed"}]
<1>1. job[t] \in Job
  BY DEF TypeOK
<1>2. CASE job[t].files # {}
  <2> DEFINE j == [job[t] EXCEPT !.left = job[t].files, !.files = {}, !.removed = {}]
  <2>1. j \in Job
    BY <1>1 DEF Job
  <2>2. Goto(t, "remove", j) /\ UNCHANGED <<disposing, life>>
    BY <1>2 DEF NextPart
  <2> HIDE DEF j
  <2> QED
    BY <2>1, <2>2, GotoTypes DEF Steps, TypeOK
<1>3. CASE job[t].files = {}
  <2>1. Goto(t, "idle", NoJob)
    BY <1>3 DEF NextPart
  <2>2. pc' \in [Tasks -> Steps] /\ job' \in [Tasks -> Job]
    BY <2>1, GotoTypes, NoJobType DEF Steps
  <2>3. disposing' \subseteq Owners
    BY <1>3 DEF NextPart, TypeOK
  <2>4. life' \in [Owners -> {"open", "leaving", "closed"}]
    BY <1>3 DEF NextPart, TypeOK
  <2> QED
    BY <2>2, <2>3, <2>4
<1> QED
  BY <1>2, <1>3

LEMMA TypesKept == TypeOK /\ [Next]_vars => TypeOK'
<1> SUFFICES ASSUME TypeOK, [Next]_vars
             PROVE  TypeOK'
  OBVIOUS
<1>r. \A t \in Tasks : job[t] \in Job
  BY DEF TypeOK
<1>1. ASSUME NEW t \in Tasks, NEW o \in Owners, NEW a \in Artifacts, StartRecord(t, o, a)
      PROVE  TypeOK'
  <2> DEFINE s == IF a \in held[o] THEN "create" ELSE "append"
             j == [NoJob EXCEPT !.owner = o, !.left = {a}]
  <2>1. s \in Steps /\ j \in Job
    BY NoJobType DEF Steps, Job
  <2>2. Goto(t, s, j)
    BY <1>1 DEF StartRecord
  <2> HIDE DEF s, j
  <2>3. pc' \in [Tasks -> Steps] /\ job' \in [Tasks -> Job]
    BY <2>1, <2>2, GotoTypes
  <2>4. {a} \in SUBSET Artifacts /\ {a} \ Reused \in SUBSET Artifacts
    OBVIOUS
  <2>5. ever' \in Holdings
    BY <1>1, <2>4, HoldingsTypes DEF StartRecord, TypeOK
  <2>6. exists' \in Holdings
    BY <1>1, <2>4, HoldingsTypes DEF StartRecord, TypeOK
  <2> QED
    BY <1>1, <2>3, <2>5, <2>6 DEF StartRecord, TypeOK, log, state, sweep
<1>2. ASSUME NEW t \in Tasks, AppendRecord(t)
      PROVE  TypeOK'
  <2>1. pc' \in [Tasks -> Steps] /\ job' \in [Tasks -> Job]
    BY <1>2, <1>r, GotoTypes DEF AppendRecord, Steps
  <2>2. logged' \in Holdings
    BY <1>2, <1>r, HoldingsTypes DEF AppendRecord, Recorded, TypeOK, Job
  <2> QED
    BY <1>2, <2>1, <2>2 DEF AppendRecord, TypeOK, state, sweep, users
<1>3. ASSUME NEW t \in Tasks, RecordFails(t)
      PROVE  TypeOK'
  <2>1. pc' \in [Tasks -> Steps] /\ job' \in [Tasks -> Job]
    BY <1>3, NoJobType, GotoTypes DEF RecordFails, Steps
  <2> QED
    BY <1>3, <2>1 DEF RecordFails, TypeOK, log, state, sweep, users
<1>4. ASSUME NEW t \in Tasks, Note(t)
      PROVE  TypeOK'
  <2>1. Goto(t, "idle", NoJob) \/ Goto(t, "create", job[t])
    BY <1>4 DEF Note
  <2>2. pc' \in [Tasks -> Steps] /\ job' \in [Tasks -> Job]
    BY <2>1, <1>r, NoJobType, GotoTypes DEF Steps
  <2>3. held' \in Holdings
    BY <1>4, <1>r, HoldingsTypes DEF Note, TypeOK, Job
  <2> QED
    BY <1>4, <2>2, <2>3 DEF Note, TypeOK, log, sweep, users
<1>5. ASSUME NEW t \in Tasks, Create(t)
      PROVE  TypeOK'
  <2>1. pc' \in [Tasks -> Steps] /\ job' \in [Tasks -> Job]
    BY <1>5, NoJobType, GotoTypes DEF Create, Steps
  <2>2. exists' \in Holdings
    BY <1>5, <1>r, HoldingsTypes DEF Create, TypeOK, Job
  <2> QED
    BY <1>5, <2>1, <2>2 DEF Create, TypeOK, log, state, sweep, users
<1>6. ASSUME NEW t \in Tasks, NEW o \in Owners, EndProcesses(t, o)
      PROVE  TypeOK'
  <2>1. pc' \in [Tasks -> Steps] /\ job' \in [Tasks -> Job]
    BY <1>6, StartTypes DEF EndProcesses
  <2> QED
    BY <1>6, <2>1 DEF EndProcesses, TypeOK, log, state, sweep, users
<1>7. ASSUME NEW t \in Tasks, NEW o \in Owners, Dispose(t, o)
      PROVE  TypeOK'
  <2>1. pc' \in [Tasks -> Steps] /\ job' \in [Tasks -> Job]
    BY <1>7, StartTypes DEF Dispose
  <2>2. life' \in [Owners -> {"open", "leaving", "closed"}]
    BY <1>7 DEF Dispose, TypeOK
  <2> QED
    BY <1>7, <2>1, <2>2 DEF Dispose, TypeOK, log, state, sweep
<1>8. ASSUME NEW t \in Tasks, Request(t)
      PROVE  TypeOK'
  <2>1. pc' \in [Tasks -> Steps] /\ job' \in [Tasks -> Job]
    BY <1>8, <1>r, GotoTypes DEF Request, Steps
  <2>2. requested' \subseteq Owners
    BY <1>8, <1>r DEF Request, TypeOK, Job
  <2> QED
    BY <1>8, <2>1, <2>2 DEF Request, TypeOK, state, sweep, users
<1>9. ASSUME NEW t \in Tasks, Snapshot(t)
      PROVE  TypeOK'
  <2> DEFINE all == held[job[t].owner]
             j == [job[t] EXCEPT !.left = all \intersect Processes, !.files = all \ Processes]
  <2>1. all \subseteq Artifacts
    BY <1>r DEF TypeOK, Job, Holdings
  <2>2. j \in Job
    BY <2>1, <1>r DEF Job
  <2>3. Goto(t, "remove", j)
    BY <1>9 DEF Snapshot
  <2>4. disposing' \subseteq Owners
    BY <1>9, <1>r DEF Snapshot, TypeOK, Job
  <2> HIDE DEF j, all
  <2>5. pc' \in [Tasks -> Steps] /\ job' \in [Tasks -> Job]
    BY <2>2, <2>3, GotoTypes DEF Steps
  <2> QED
    BY <1>9, <2>4, <2>5 DEF Snapshot, TypeOK, log, sweep, users
<1>10. ASSUME NEW t \in Tasks, NEW a \in Artifacts, NEW gone \in BOOLEAN, RemoveOne(t, a, gone)
       PROVE  TypeOK'
  <2> DEFINE r == IF Acked(a, gone) THEN job[t].removed \union {a} ELSE job[t].removed
             j == [job[t] EXCEPT !.left = job[t].left \ {a}, !.removed = r]
  <2>1. j \in Job
    BY <1>r DEF Job
  <2>2. Goto(t, "remove", j)
    BY <1>10, <1>r DEF RemoveOne, Job
  <2> HIDE DEF j
  <2>3. pc' \in [Tasks -> Steps] /\ job' \in [Tasks -> Job]
    BY <2>1, <2>2, GotoTypes DEF Steps
  <2>4. {a} \in SUBSET Artifacts /\ job[t].owner \in Owners
    BY <1>r DEF Job
  <2>5. exists' \in Holdings
    BY <1>10, <2>4, HoldingsTypes DEF RemoveOne, TypeOK
  <2> QED
    BY <1>10, <2>3, <2>5 DEF RemoveOne, TypeOK, log, state, sweep, users
<1>11. ASSUME NEW t \in Tasks, Acknowledge(t)
       PROVE  TypeOK'
  <2>1. pc' \in [Tasks -> Steps] /\ job' \in [Tasks -> Job]
    BY <1>11, <1>r, GotoTypes DEF Acknowledge, Steps
  <2>2. logged' \in Holdings
    BY <1>11, <1>r, HoldingsTypes DEF Acknowledge, TypeOK, Job
  <2> QED
    BY <1>11, <2>1, <2>2 DEF Acknowledge, TypeOK, state, sweep, users
<1>12. ASSUME NEW t \in Tasks, Drop(t)
       PROVE  TypeOK'
  <2>1. held' \in Holdings
    BY <1>12, <1>r, HoldingsTypes DEF Drop, HeldAfter, TypeOK, Job
  <2> QED
    BY <1>12, <2>1, NextPartTypes DEF Drop, TypeOK, log, sweep
<1>13. ASSUME NEW t \in Tasks, NotAcknowledged(t)
       PROVE  TypeOK'
  BY <1>13, NextPartTypes DEF NotAcknowledged, TypeOK, log, sweep
<1>14. ASSUME Restart
       PROVE  TypeOK'
  BY <1>14, NoJobType DEF Restart, SweepOf, TypeOK, log, users, Steps, Holdings
<1>15. ASSUME NEW t \in Tasks, NEW o \in Owners, SweepEnd(t, o)
       PROVE  TypeOK'
  <2>1. pc' \in [Tasks -> Steps] /\ job' \in [Tasks -> Job]
    BY <1>15, StartTypes DEF SweepEnd
  <2> QED
    BY <1>15, <2>1 DEF SweepEnd, TypeOK, log, state, users
<1>16. ASSUME NEW t \in Tasks, NEW o \in Owners, SweepDispose(t, o)
       PROVE  TypeOK'
  <2>1. pc' \in [Tasks -> Steps] /\ job' \in [Tasks -> Job]
    BY <1>16, StartTypes DEF SweepDispose, TypeOK
  <2> QED
    BY <1>16, <2>1 DEF SweepDispose, TypeOK, log, state, users
<1>17. ASSUME SweepDone
       PROVE  TypeOK'
  BY <1>17 DEF SweepDone, SweepOf, TypeOK, log, state, users, Holdings
<1>18. ASSUME NEW o \in Owners, Restore(o)
       PROVE  TypeOK'
  BY <1>18 DEF Restore, TypeOK, log, state, sweep
<1>19. ASSUME NEW o \in Owners, NEW a \in Artifacts, ProcessEnds(o, a)
       PROVE  TypeOK'
  <2>1. {a} \in SUBSET Artifacts
    OBVIOUS
  <2>2. exists' \in Holdings
    BY <1>19, <2>1, HoldingsTypes DEF ProcessEnds, TypeOK
  <2> QED
    BY <1>19, <2>2 DEF ProcessEnds, TypeOK, log, state, sweep, users
<1>20. ASSUME UNCHANGED vars
       PROVE  TypeOK'
  BY <1>20 DEF vars, TypeOK, log, state, sweep, users
<1> QED
  BY <1>1, <1>2, <1>3, <1>4, <1>5, <1>6, <1>7, <1>8, <1>9, <1>10, <1>11, <1>12, <1>13,
     <1>14, <1>15, <1>16, <1>17, <1>18, <1>19, <1>20 DEF Next, TaskStep

(* Every variable of the ledger keeps its type. *)
THEOREM TypeInvariant == Spec => []TypeOK
<1>1. Init => TypeOK
  BY InitTypes
<1>2. TypeOK /\ [Next]_vars => TypeOK'
  BY TypesKept
<1> QED
  BY <1>1, <1>2, PTL DEF Spec

-----------------------------------------------------------------------------
(* What a step does to its task, and to no other. *)
Others(t) == \A u \in Tasks \ {t} : pc'[u] = pc[u] /\ job'[u] = job[u]

LEMMA GotoMoves ==
    ASSUME TypeOK, NEW t \in Tasks, NEW s, NEW j, Goto(t, s, j)
    PROVE  Others(t) /\ pc'[t] = s /\ job'[t] = j
BY DEF TypeOK, Goto, Others

LEMMA RecordMoves ==
    ASSUME TypeOK, NEW t \in Tasks, NEW o \in Owners, NEW a \in Artifacts, StartRecord(t, o, a)
    PROVE  /\ Others(t) /\ pc'[t] = (IF a \in held[o] THEN "create" ELSE "append")
           /\ job'[t].owner = o /\ job'[t].left = {a} /\ job'[t].removed = {}
<1> DEFINE s == IF a \in held[o] THEN "create" ELSE "append"
           j == [NoJob EXCEPT !.owner = o, !.left = {a}]
<1>1. j.owner = o /\ j.left = {a} /\ j.removed = {}
  BY DEF NoJob
<1>2. Goto(t, s, j)
  BY DEF StartRecord
<1> HIDE DEF j
<1> QED
  BY <1>1, <1>2, GotoMoves

LEMMA EndMoves ==
    ASSUME TypeOK, NEW t \in Tasks, NEW o \in Owners, StartEnd(t, o)
    PROVE  /\ Others(t) /\ pc'[t] = "remove"
           /\ job'[t].owner = o /\ job'[t].left = held[o] \intersect Processes
           /\ job'[t].files = {} /\ job'[t].removed = {}
<1> DEFINE j == [NoJob EXCEPT !.owner = o, !.left = ItsProcesses(o)]
<1>1. /\ j.owner = o /\ j.left = held[o] \intersect Processes
      /\ j.files = {} /\ j.removed = {}
  BY DEF NoJob, ItsProcesses
<1>2. Goto(t, "remove", j)
  BY DEF StartEnd
<1> HIDE DEF j
<1> QED
  BY <1>1, <1>2, GotoMoves

LEMMA DisposeMoves ==
    ASSUME TypeOK, NEW t \in Tasks, NEW o \in Owners, StartDispose(t, o)
    PROVE  /\ Others(t) /\ pc'[t] = (IF o \in disposing THEN "snapshot" ELSE "request")
           /\ job'[t].owner = o /\ job'[t].left = {} /\ job'[t].files = {} /\ job'[t].removed = {}
<1> DEFINE s == IF o \in disposing THEN "snapshot" ELSE "request"
           j == [NoJob EXCEPT !.owner = o, !.disposes = TRUE]
<1>1. j.owner = o /\ j.left = {} /\ j.files = {} /\ j.removed = {}
  BY DEF NoJob
<1>2. Goto(t, s, j)
  BY DEF StartDispose
<1> HIDE DEF j
<1> QED
  BY <1>1, <1>2, GotoMoves

LEMMA SnapshotMoves ==
    ASSUME TypeOK, NEW t \in Tasks, Snapshot(t)
    PROVE  /\ Others(t) /\ pc'[t] = "remove" /\ job'[t].owner = job[t].owner
           /\ job'[t].left = held[job[t].owner] \intersect Processes
           /\ job'[t].files = held[job[t].owner] \ Processes
           /\ job'[t].removed = job[t].removed
<1> DEFINE all == held[job[t].owner]
           j == [job[t] EXCEPT !.left = all \intersect Processes, !.files = all \ Processes]
<1>1. /\ j.owner = job[t].owner /\ j.left = all \intersect Processes
      /\ j.files = all \ Processes /\ j.removed = job[t].removed
  BY DEF TypeOK, Job
<1>2. Goto(t, "remove", j)
  BY DEF Snapshot
<1> HIDE DEF j
<1> QED
  BY <1>1, <1>2, GotoMoves

LEMMA RemoveMoves ==
    ASSUME TypeOK, NEW t \in Tasks, NEW a \in Artifacts, NEW gone \in BOOLEAN, RemoveOne(t, a, gone)
    PROVE  /\ Others(t) /\ pc'[t] = "remove" /\ job'[t].owner = job[t].owner
           /\ job'[t].left = job[t].left \ {a} /\ job'[t].files = job[t].files
           /\ \/ job'[t].removed = job[t].removed
              \/ job'[t].removed = job[t].removed \union {a} /\ (a \in exists'[job[t].owner] => a \in Pids)
<1> DEFINE r == IF Acked(a, gone) THEN job[t].removed \union {a} ELSE job[t].removed
           j == [job[t] EXCEPT !.left = job[t].left \ {a}, !.removed = r]
<1>1. /\ j.owner = job[t].owner /\ j.left = job[t].left \ {a}
      /\ j.files = job[t].files /\ j.removed = r
  BY DEF TypeOK, Job
<1>2. Goto(t, "remove", j)
  BY DEF RemoveOne, TypeOK, Job
<1>3. CASE Acked(a, gone)
  <2>1. gone => exists' = Without(exists, job[t].owner, {a})
    BY DEF RemoveOne
  <2>2. gone => a \notin exists'[job[t].owner]
    BY <2>1, HoldingsTypes DEF TypeOK, Job
  <2>3. r = job[t].removed \union {a} /\ (gone \/ a \in Pids)
    BY <1>3 DEF Acked
  <2> HIDE DEF j, r
  <2> QED
    BY <1>1, <1>2, <2>2, <2>3, GotoMoves
<1>4. CASE ~Acked(a, gone)
  <2>1. r = job[t].removed
    BY <1>4
  <2> HIDE DEF j, r
  <2> QED
    BY <1>1, <1>2, <2>1, GotoMoves
<1> QED
  BY <1>3, <1>4

LEMMA NextPartMoves ==
    ASSUME TypeOK, NEW t \in Tasks, NextPart(t)
    PROVE  /\ Others(t)
           /\ \/ pc'[t] = "idle"
              \/ /\ pc'[t] = "remove" /\ job'[t].owner = job[t].owner
                 /\ job'[t].left = job[t].files /\ job'[t].files = {} /\ job'[t].removed = {}
           /\ disposing' \subseteq disposing
<1>1. CASE job[t].files # {}
  <2> DEFINE j == [job[t] EXCEPT !.left = job[t].files, !.files = {}, !.removed = {}]
  <2>1. j.owner = job[t].owner /\ j.left = job[t].files /\ j.files = {} /\ j.removed = {}
    BY DEF TypeOK, Job
  <2>2. Goto(t, "remove", j) /\ UNCHANGED disposing
    BY <1>1 DEF NextPart
  <2> HIDE DEF j
  <2> QED
    BY <2>1, <2>2, GotoMoves
<1>2. CASE job[t].files = {}
  <2>1. Goto(t, "idle", NoJob)
    BY <1>2 DEF NextPart
  <2>2. disposing' \subseteq disposing
    BY <1>2 DEF NextPart
  <2> QED
    BY <2>1, <2>2, GotoMoves
<1> QED
  BY <1>1, <1>2

LEMMA ReturnMoves ==
    ASSUME TypeOK, NEW t \in Tasks,
           AppendRecord(t) \/ RecordFails(t) \/ Note(t) \/ Create(t) \/ Request(t) \/ Acknowledge(t)
    PROVE  /\ Others(t)
           /\ \/ pc'[t] = "idle"
              \/ /\ job'[t] = job[t]
                 /\ \/ AppendRecord(t) /\ pc'[t] = "note"
                    \/ Note(t) /\ pc'[t] = "create"
                    \/ Request(t) /\ pc'[t] = "mark"
                    \/ Acknowledge(t) /\ pc'[t] = "drop"
<1>1. CASE AppendRecord(t)
  BY <1>1, GotoMoves DEF AppendRecord
<1>2. CASE RecordFails(t)
  BY <1>2, GotoMoves DEF RecordFails
<1>3. CASE Note(t)
  BY <1>3, GotoMoves DEF Note
<1>4. CASE Create(t)
  BY <1>4, GotoMoves DEF Create
<1>5. CASE Request(t)
  BY <1>5, GotoMoves DEF Request
<1>6. CASE Acknowledge(t)
  BY <1>6, GotoMoves DEF Acknowledge
<1> QED
  BY <1>1, <1>2, <1>3, <1>4, <1>5, <1>6

(* Nobody moves, everybody stops, or one task goes on, stops or starts a job. *)
LEMMA OneMoves ==
    ASSUME TypeOK, [Next]_vars
    PROVE  \/ UNCHANGED <<pc, job>>
           \/ \A t \in Tasks : pc'[t] = "idle"
           \/ \E t \in Tasks :
                  /\ Others(t)
                  /\ \/ pc'[t] = "idle"
                     \/ pc[t] # "idle" /\ job'[t].owner = job[t].owner
                     \/ pc[t] = "idle" /\ MayUse(t, job'[t].owner)
<1>1. ASSUME NEW t \in Tasks, NEW o \in Owners, NEW a \in Artifacts, StartRecord(t, o, a)
      PROVE  Others(t) /\ pc[t] = "idle" /\ MayUse(t, job'[t].owner)
  BY <1>1, RecordMoves DEF StartRecord
<1>2. ASSUME NEW t \in Tasks, NEW o \in Owners, EndProcesses(t, o)
      PROVE  Others(t) /\ pc[t] = "idle" /\ MayUse(t, job'[t].owner)
  BY <1>2, EndMoves DEF EndProcesses
<1>3. ASSUME NEW t \in Tasks, NEW o \in Owners, Dispose(t, o)
      PROVE  Others(t) /\ pc[t] = "idle" /\ MayUse(t, job'[t].owner)
  BY <1>3, DisposeMoves DEF Dispose
<1>4. ASSUME NEW t \in Tasks, NEW o \in Owners, SweepEnd(t, o)
      PROVE  Others(t) /\ pc[t] = "idle" /\ MayUse(t, job'[t].owner)
  BY <1>4, EndMoves DEF SweepEnd, AllIdle, MayUse
<1>5. ASSUME NEW t \in Tasks, NEW o \in Owners, SweepDispose(t, o)
      PROVE  \/ UNCHANGED <<pc, job>>
             \/ Others(t) /\ pc[t] = "idle" /\ MayUse(t, job'[t].owner)
  BY <1>5, DisposeMoves DEF SweepDispose, AllIdle, MayUse
<1>6. ASSUME NEW t \in Tasks,
             AppendRecord(t) \/ RecordFails(t) \/ Note(t) \/ Create(t) \/ Request(t) \/ Acknowledge(t)
      PROVE  Others(t) /\ (pc'[t] = "idle" \/ (pc[t] # "idle" /\ job'[t].owner = job[t].owner))
  BY <1>6, ReturnMoves DEF AppendRecord, Note, Request, Acknowledge
<1>7. ASSUME NEW t \in Tasks, Snapshot(t)
      PROVE  Others(t) /\ pc[t] # "idle" /\ job'[t].owner = job[t].owner
  BY <1>7, SnapshotMoves DEF Snapshot
<1>8. ASSUME NEW t \in Tasks, Drop(t) \/ NotAcknowledged(t)
      PROVE  Others(t) /\ (pc'[t] = "idle" \/ (pc[t] # "idle" /\ job'[t].owner = job[t].owner))
  BY <1>8, NextPartMoves DEF Drop, NotAcknowledged
<1>9. ASSUME NEW t \in Tasks, NEW a \in Artifacts, NEW gone \in BOOLEAN, RemoveOne(t, a, gone)
      PROVE  Others(t) /\ pc[t] # "idle" /\ job'[t].owner = job[t].owner
  BY <1>9, RemoveMoves DEF RemoveOne
<1>10. CASE Restart
  BY <1>10 DEF Restart
<1>11. CASE SweepDone \/ UNCHANGED vars \/ \E o \in Owners : Restore(o) \/ \E a \in Artifacts : ProcessEnds(o, a)
  BY <1>11 DEF SweepDone, vars, Restore, ProcessEnds
<1> QED
  BY <1>1, <1>2, <1>3, <1>4, <1>5, <1>6, <1>7, <1>8, <1>9, <1>10, <1>11 DEF Next, TaskStep

LEMMA OneTaskKept == TypeOK /\ OneTaskPerJob /\ [Next]_vars => OneTaskPerJob'
<1> SUFFICES ASSUME TypeOK, OneTaskPerJob, [Next]_vars,
                    NEW o \in Jobs, NEW u \in Tasks, NEW v \in Tasks, Uses(u, o)', Uses(v, o)', u # v
             PROVE  FALSE
  BY DEF OneTaskPerJob
<1>1. CASE UNCHANGED <<pc, job>>
  BY <1>1 DEF OneTaskPerJob, Uses
<1>2. CASE \A t \in Tasks : pc'[t] = "idle"
  BY <1>2 DEF Uses
<1>3. ASSUME NEW t \in Tasks, Others(t),
             \/ pc'[t] = "idle"
             \/ pc[t] # "idle" /\ job'[t].owner = job[t].owner
             \/ pc[t] = "idle" /\ MayUse(t, job'[t].owner)
      PROVE  FALSE
  BY <1>3 DEF OneTaskPerJob, Uses, Others, MayUse
<1> QED
  BY <1>1, <1>2, <1>3, OneMoves

-----------------------------------------------------------------------------
(* Only owners somebody asked to dispose of are disposed of. *)
MayRemove(t) ==
    /\ pc[t] \in {"request", "mark", "snapshot"} => job[t].owner \in asked
    /\ pc[t] \in {"remove", "drop"} =>
           job[t].left \union job[t].files \subseteq Processes \/ job[t].owner \in asked

LEMMA OnlyAskedKept == TypeOK /\ OnlyAsked /\ [Next]_vars => OnlyAsked'
<1> SUFFICES ASSUME TypeOK, OnlyAsked, [Next]_vars
             PROVE  OnlyAsked'
  OBVIOUS
<1>a. requested \union disposing \union toDispose \subseteq asked /\ \A t \in Tasks : MayRemove(t)
  BY DEF OnlyAsked, MayRemove
<1>b. ASSUME requested' \union disposing' \union toDispose' \subseteq asked',
             \A t \in Tasks : MayRemove(t)'
      PROVE  OnlyAsked'
  BY <1>b DEF OnlyAsked, MayRemove
<1>c. ASSUME NEW t \in Tasks, Others(t), MayRemove(t)', asked \subseteq asked',
             requested' \union disposing' \union toDispose' \subseteq asked'
      PROVE  OnlyAsked'
  <2>1. ASSUME NEW u \in Tasks \ {t} PROVE MayRemove(u)'
    BY <2>1, <1>c, <1>a DEF MayRemove, Others
  <2> QED
    BY <2>1, <1>c, <1>b
<1>1. ASSUME NEW t \in Tasks, NEW o \in Owners, NEW a \in Artifacts, StartRecord(t, o, a)
      PROVE  OnlyAsked'
  <2>1. UNCHANGED <<requested, disposing, toDispose, asked>>
    BY <1>1 DEF StartRecord, log, state, sweep
  <2>2. MayRemove(t)' /\ Others(t)
    BY <1>1, RecordMoves DEF MayRemove
  <2> QED
    BY <2>1, <2>2, <1>a, <1>c
<1>2. ASSUME NEW t \in Tasks, NEW o \in Owners, EndProcesses(t, o) \/ SweepEnd(t, o)
      PROVE  OnlyAsked'
  <2>1. UNCHANGED <<requested, disposing, toDispose, asked>>
    BY <1>2 DEF EndProcesses, SweepEnd, log, state, sweep, users
  <2>2. StartEnd(t, o)
    BY <1>2 DEF EndProcesses, SweepEnd
  <2>3. MayRemove(t)' /\ Others(t)
    BY <2>2, EndMoves DEF MayRemove
  <2> QED
    BY <2>1, <2>3, <1>a, <1>c
<1>3. ASSUME NEW t \in Tasks, NEW o \in Owners, Dispose(t, o)
      PROVE  OnlyAsked'
  <2>1. UNCHANGED <<requested, disposing, toDispose>> /\ asked' = asked \union {o}
    BY <1>3 DEF Dispose, log, state, sweep
  <2>2. MayRemove(t)' /\ Others(t)
    BY <1>3, <2>1, DisposeMoves DEF Dispose, MayRemove
  <2> QED
    BY <2>1, <2>2, <1>a, <1>c
<1>4. ASSUME NEW t \in Tasks, NEW o \in Owners, SweepDispose(t, o)
      PROVE  OnlyAsked'
  <2>1. UNCHANGED <<requested, disposing, asked>> /\ toDispose' \subseteq toDispose
    BY <1>4 DEF SweepDispose, log, state, users
  <2>2. CASE UNCHANGED <<pc, job>>
    BY <2>1, <2>2, <1>a, <1>b DEF MayRemove
  <2>3. CASE StartDispose(t, o)
    <3>1. o \in asked
      BY <1>4, <1>a DEF SweepDispose
    <3>2. MayRemove(t)' /\ Others(t)
      BY <2>3, <2>1, <3>1, DisposeMoves DEF MayRemove
    <3> QED
      BY <2>1, <3>2, <1>a, <1>c
  <2> QED
    BY <1>4, <2>2, <2>3 DEF SweepDispose
<1>5. ASSUME NEW t \in Tasks,
             AppendRecord(t) \/ RecordFails(t) \/ Note(t) \/ Create(t) \/ Request(t) \/ Acknowledge(t)
      PROVE  OnlyAsked'
  <2>1. UNCHANGED <<disposing, toDispose, asked>>
    BY <1>5 DEF AppendRecord, RecordFails, Note, Create, Request, Acknowledge, log, state, sweep, users
  <2>2. requested' \subseteq asked
    BY <1>5, <1>a DEF AppendRecord, RecordFails, Note, Create, Request, Acknowledge, log, MayRemove
  <2>3. MayRemove(t)' /\ Others(t)
    BY <1>5, <2>1, <1>a, ReturnMoves DEF Request, Acknowledge, MayRemove
  <2> QED
    BY <2>1, <2>2, <2>3, <1>a, <1>c
<1>6. ASSUME NEW t \in Tasks, Snapshot(t)
      PROVE  OnlyAsked'
  <2>1. UNCHANGED <<requested, toDispose, asked>>
    BY <1>6 DEF Snapshot, log, sweep, users
  <2>2. job[t].owner \in asked
    BY <1>6, <1>a DEF Snapshot, MayRemove
  <2>3. disposing' \subseteq asked
    BY <1>6, <2>2, <1>a DEF Snapshot
  <2>4. MayRemove(t)' /\ Others(t)
    BY <1>6, <2>1, <2>2, SnapshotMoves DEF MayRemove
  <2> QED
    BY <2>1, <2>3, <2>4, <1>a, <1>c
<1>7. ASSUME NEW t \in Tasks, Drop(t) \/ NotAcknowledged(t)
      PROVE  OnlyAsked'
  <2>1. UNCHANGED <<requested, toDispose, asked>>
    BY <1>7 DEF Drop, NotAcknowledged, log, sweep
  <2>2. NextPart(t) /\ pc[t] \in {"remove", "drop"}
    BY <1>7 DEF Drop, NotAcknowledged
  <2>3. MayRemove(t)' /\ Others(t) /\ disposing' \subseteq disposing
    BY <2>1, <2>2, <1>a, NextPartMoves DEF MayRemove
  <2> QED
    BY <2>1, <2>3, <1>a, <1>c
<1>8. ASSUME NEW t \in Tasks, NEW a \in Artifacts, NEW gone \in BOOLEAN, RemoveOne(t, a, gone)
      PROVE  OnlyAsked'
  <2>1. UNCHANGED <<requested, disposing, toDispose, asked>>
    BY <1>8 DEF RemoveOne, log, state, sweep, users
  <2>2. pc[t] = "remove"
    BY <1>8 DEF RemoveOne
  <2>3. /\ Others(t) /\ pc'[t] = "remove" /\ job'[t].owner = job[t].owner
        /\ job'[t].left = job[t].left \ {a} /\ job'[t].files = job[t].files
    BY <1>8, RemoveMoves
  <2>4. MayRemove(t)'
    BY <2>1, <2>2, <2>3, <1>a DEF MayRemove
  <2> QED
    BY <2>1, <2>3, <2>4, <1>a, <1>c
<1>9. CASE Restart
  <2>1. requested' \union disposing' \union toDispose' \subseteq asked'
    BY <1>9, <1>a DEF Restart, SweepOf, log, users
  <2>2. \A t \in Tasks : MayRemove(t)'
    BY <1>9 DEF Restart, MayRemove
  <2> QED
    BY <2>1, <2>2, <1>b
<1>10. CASE SweepDone
  <2>1. requested' \union disposing' \union toDispose' \subseteq asked'
    BY <1>10, <1>a DEF SweepDone, SweepOf, log, state, users
  <2>2. \A t \in Tasks : MayRemove(t)'
    BY <1>10, <1>a DEF SweepDone, MayRemove, users
  <2> QED
    BY <2>1, <2>2, <1>b
<1>11. CASE UNCHANGED vars \/ \E o \in Owners : Restore(o) \/ \E a \in Artifacts : ProcessEnds(o, a)
  <2>1. UNCHANGED <<requested, disposing, toDispose, asked, pc, job>>
    BY <1>11 DEF Restore, ProcessEnds, vars, log, state, sweep, users
  <2> QED
    BY <2>1, <1>a, <1>b DEF MayRemove
<1> QED
  BY <1>1, <1>2, <1>3, <1>4, <1>5, <1>6, <1>7, <1>8, <1>9, <1>10, <1>11 DEF Next, TaskStep

(* No step takes a file of an owner that was not to be disposed of. *)
LEMMA FilesStay ==
    ASSUME TypeOK, OnlyAsked, [Next]_vars, NEW o \in Owners, o \notin asked
    PROVE  exists[o] \ Processes \subseteq exists'[o]
<1>r. \A t \in Tasks : job[t].owner \in Owners /\ job[t].left \subseteq Artifacts
  BY DEF TypeOK, Job
<1>1. ASSUME NEW p \in Owners, NEW set \in SUBSET Artifacts, exists' = With(exists, p, set)
      PROVE  exists[o] \subseteq exists'[o]
  BY <1>1, HoldingsTypes DEF TypeOK
<1>2. ASSUME NEW p \in Owners, NEW set \in SUBSET Artifacts, exists' = Without(exists, p, set),
             p # o \/ set \subseteq Processes
      PROVE  exists[o] \ Processes \subseteq exists'[o]
  BY <1>2, HoldingsTypes DEF TypeOK
<1>3. ASSUME NEW t \in Tasks, NEW p \in Owners, NEW a \in Artifacts, StartRecord(t, p, a)
      PROVE  exists[o] \ Processes \subseteq exists'[o]
  <2>1. exists' = exists \/ exists' = With(exists, p, {a})
    BY <1>3 DEF StartRecord
  <2>2. exists[o] \subseteq exists'[o]
    BY <1>1, <2>1
  <2> QED
    BY <2>2
<1>4. ASSUME NEW t \in Tasks, Create(t)
      PROVE  exists[o] \ Processes \subseteq exists'[o]
  BY <1>4, <1>1, <1>r DEF Create
<1>5. ASSUME NEW t \in Tasks, NEW a \in Artifacts, NEW gone \in BOOLEAN, RemoveOne(t, a, gone)
      PROVE  exists[o] \ Processes \subseteq exists'[o]
  <2>1. a \in Processes \/ job[t].owner # o
    BY <1>5 DEF RemoveOne, OnlyAsked
  <2> QED
    BY <1>5, <2>1, <1>2, <1>r DEF RemoveOne
<1>6. ASSUME NEW p \in Owners, NEW a \in Artifacts, ProcessEnds(p, a)
      PROVE  exists[o] \ Processes \subseteq exists'[o]
  BY <1>6, <1>2 DEF ProcessEnds
<1>7. ASSUME NEW t \in Tasks, NEW p \in Owners,
             EndProcesses(t, p) \/ Dispose(t, p) \/ SweepEnd(t, p) \/ SweepDispose(t, p) \/ Restore(p)
      PROVE  UNCHANGED exists
  BY <1>7 DEF EndProcesses, Dispose, SweepEnd, SweepDispose, Restore
<1>8. ASSUME NEW t \in Tasks,
             \/ AppendRecord(t) \/ RecordFails(t) \/ Note(t) \/ Request(t) \/ Snapshot(t)
             \/ Acknowledge(t) \/ Drop(t) \/ NotAcknowledged(t)
      PROVE  UNCHANGED exists
  BY <1>8 DEF AppendRecord, RecordFails, Note, Request, Snapshot, Acknowledge, Drop, NotAcknowledged
<1>9. ASSUME SweepDone \/ Restart \/ UNCHANGED vars \/ \E p \in Owners : Restore(p)
      PROVE  UNCHANGED exists
  BY <1>9 DEF SweepDone, Restart, vars, Restore
<1> QED
  BY <1>3, <1>4, <1>5, <1>6, <1>7, <1>8, <1>9 DEF Next, TaskStep

(* Hibernation and sweeps leave the files of an owner nobody asked to dispose of. *)
THEOREM FilesAreKept == Spec => FilesKept
<1>1. Init => TypeOK /\ OnlyAsked
  BY InitTypes DEF Init, OnlyAsked
<1>2. TypeOK /\ OnlyAsked /\ [Next]_vars => (TypeOK /\ OnlyAsked)'
  BY TypesKept, OnlyAskedKept
<1>3. TypeOK /\ OnlyAsked /\ [Next]_vars
          => [\A o \in Owners \ asked : exists[o] \ Processes \subseteq exists'[o]]_vars
  BY FilesStay
<1> QED
  BY <1>1, <1>2, <1>3, PTL DEF Spec, FilesKept

-----------------------------------------------------------------------------
(* What a job created is in the log: its owner has one task, so the step of a task *)
(* either concerns another owner or is a step of the only task that uses this one. *)
TaskRecorded(t, o) ==
    Uses(t, o) =>
        /\ pc[t] \in {"note", "create"} => job[t].left \subseteq logged[o]
        /\ pc[t] = "drop" => held[o] \ job[t].removed \subseteq logged[o]
        /\ job[t].removed \intersect exists[o] \subseteq Pids

Undropped(o) == (\A t \in Tasks : ~(Uses(t, o) /\ pc[t] = "drop")) => held[o] \subseteq logged[o]

LEMMA JobRecordedParts ==
    ASSUME NEW o \in Owners
    PROVE  JobRecorded(o) <=> /\ exists[o] \ Pids \subseteq logged[o]
                              /\ Undropped(o) /\ \A t \in Tasks : TaskRecorded(t, o)
BY DEF JobRecorded, TaskRecorded, Undropped, Uses

LEMMA AnotherOwner ==
    ASSUME NEW o \in Owners, JobRecorded(o), NEW t \in Tasks, Others(t), ~Uses(t, o), ~Uses(t, o)',
           logged'[o] = logged[o], held'[o] = held[o], exists'[o] = exists[o]
    PROVE  JobRecorded(o)'
<1>1. \A u \in Tasks \ {t} : TaskRecorded(u, o)' <=> TaskRecorded(u, o)
  BY DEF TaskRecorded, Uses, Others
<1>2. TaskRecorded(t, o)'
  BY DEF TaskRecorded
<1>3. \A u \in Tasks : TaskRecorded(u, o)'
  BY <1>1, <1>2, JobRecordedParts
<1>4. \A u \in Tasks : (Uses(u, o) /\ pc[u] = "drop")' <=> Uses(u, o) /\ pc[u] = "drop"
  BY DEF Uses, Others
<1>5. Undropped(o)'
  BY <1>4, JobRecordedParts DEF Undropped
<1>6. exists'[o] \ Pids \subseteq logged'[o]
  BY JobRecordedParts
<1> QED
  BY <1>3, <1>5, <1>6 DEF JobRecorded, TaskRecorded, Undropped, Uses

LEMMA OnlyTask ==
    ASSUME NEW o \in Owners, NEW t \in Tasks, Others(t), \A u \in Tasks \ {t} : ~Uses(u, o),
           exists'[o] \ Pids \subseteq logged'[o],
           ~(Uses(t, o)' /\ pc'[t] = "drop") => held'[o] \subseteq logged'[o],
           TaskRecorded(t, o)'
    PROVE  JobRecorded(o)'
<1>1. \A u \in Tasks \ {t} : ~Uses(u, o)'
  BY DEF Uses, Others
<1>2. \A u \in Tasks : TaskRecorded(u, o)'
  BY <1>1 DEF TaskRecorded
<1>3. Undropped(o)'
  BY <1>1 DEF Undropped
<1> QED
  BY <1>2, <1>3 DEF JobRecorded, TaskRecorded, Undropped, Uses

LEMMA JobRecordedKept ==
    ASSUME TypeOK, OneTaskPerJob, [Next]_vars, NEW o \in Jobs, JobRecorded(o)
    PROVE  JobRecorded(o)'
<1>o. o \in Owners
  OBVIOUS
<1>r. \A t \in Tasks : /\ job[t].owner \in Owners /\ job[t].left \in SUBSET Artifacts
                       /\ job[t].removed \in SUBSET Artifacts
  BY DEF TypeOK, Job
<1>i. /\ exists[o] \ Pids \subseteq logged[o]
      /\ Undropped(o) /\ \A t \in Tasks : TaskRecorded(t, o)
  BY <1>o, JobRecordedParts
<1>u. ASSUME NEW t \in Tasks, Uses(t, o)
      PROVE  \A u \in Tasks \ {t} : ~Uses(u, o)
  BY <1>u DEF OneTaskPerJob
<1>m. ASSUME NEW t \in Tasks, pc[t] = "idle", MayUse(t, o)
      PROVE  /\ \A u \in Tasks : ~Uses(u, o)
             /\ held[o] \subseteq logged[o]
  <2>1. \A u \in Tasks : ~Uses(u, o)
    BY <1>m DEF MayUse, Uses
  <2> QED
    BY <2>1, <1>i DEF Undropped
<1>d. ASSUME NEW t \in Tasks, Uses(t, o), pc[t] # "drop"
      PROVE  held[o] \subseteq logged[o]
  BY <1>d, <1>u, <1>i DEF Undropped
<1>h. exists \in Holdings /\ logged \in Holdings /\ held \in Holdings
  BY DEF TypeOK
<1>1. ASSUME NEW t \in Tasks, NEW p \in Owners, NEW a \in Artifacts, StartRecord(t, p, a)
      PROVE  JobRecorded(o)'
  <2>1. /\ UNCHANGED <<logged, held>> /\ pc[t] = "idle" /\ MayUse(t, p)
        /\ exists' = (IF a \in Pids THEN With(exists, p, {a}) ELSE exists)
    BY <1>1 DEF StartRecord, log, state
  <2>2. /\ Others(t) /\ pc'[t] = (IF a \in held[p] THEN "create" ELSE "append")
        /\ job'[t].owner = p /\ job'[t].left = {a} /\ job'[t].removed = {}
    BY <1>1, RecordMoves
  <2>e. exists'[o] = exists[o] \/ (p = o /\ a \in Pids /\ exists'[o] = exists[o] \union {a})
    BY <2>1, <1>h, <1>o, HoldingsAt
  <2>3. CASE p # o
    <3>1. ~Uses(t, o) /\ ~Uses(t, o)'
      BY <2>1, <2>2, <2>3 DEF Uses
    <3> QED
      BY <3>1, <2>1, <2>2, <2>3, <2>e, <1>o, AnotherOwner
  <2>4. CASE p = o
    <3>1. (\A u \in Tasks : ~Uses(u, o)) /\ held[o] \subseteq logged[o]
      BY <2>1, <2>4, <1>m
    <3>2. exists'[o] \ Pids \subseteq logged'[o] /\ held'[o] \subseteq logged'[o]
      BY <3>1, <2>1, <2>e, <1>i
    <3>3. TaskRecorded(t, o)'
      BY <3>1, <2>1, <2>2, <2>4 DEF TaskRecorded
    <3> QED
      BY <3>1, <3>2, <3>3, <2>2, <1>o, OnlyTask
  <2> QED
    BY <2>3, <2>4
<1>2. ASSUME NEW t \in Tasks, NEW p \in Owners, pc[t] = "idle", MayUse(t, p), Others(t),
             job'[t].owner = p, job'[t].removed = {}, pc'[t] \in {"remove", "snapshot", "request"},
             UNCHANGED <<logged, held, exists>>
      PROVE  JobRecorded(o)'
  <2>3. CASE p # o
    <3>1. ~Uses(t, o) /\ ~Uses(t, o)'
      BY <1>2, <2>3 DEF Uses
    <3> QED
      BY <3>1, <1>2, <1>o, AnotherOwner
  <2>4. CASE p = o
    <3>1. (\A u \in Tasks : ~Uses(u, o)) /\ held[o] \subseteq logged[o]
      BY <1>2, <2>4, <1>m
    <3>2. exists'[o] \ Pids \subseteq logged'[o] /\ held'[o] \subseteq logged'[o]
      BY <3>1, <1>2, <1>i
    <3>3. TaskRecorded(t, o)'
      BY <1>2 DEF TaskRecorded
    <3> QED
      BY <3>1, <3>2, <3>3, <1>2, <1>o, OnlyTask
  <2> QED
    BY <2>3, <2>4
<1>3. ASSUME NEW t \in Tasks, NEW p \in Owners, EndProcesses(t, p) \/ SweepEnd(t, p)
      PROVE  JobRecorded(o)'
  <2>1. StartEnd(t, p) /\ pc[t] = "idle" /\ MayUse(t, p) /\ UNCHANGED <<logged, held, exists>>
    BY <1>3 DEF EndProcesses, SweepEnd, AllIdle, MayUse, log, state
  <2> QED
    BY <2>1, <1>2, EndMoves
<1>4. ASSUME NEW t \in Tasks, NEW p \in Owners, Dispose(t, p) \/ SweepDispose(t, p), StartDispose(t, p)
      PROVE  JobRecorded(o)'
  <2>1. pc[t] = "idle" /\ MayUse(t, p) /\ UNCHANGED <<logged, held, exists>>
    BY <1>4 DEF Dispose, SweepDispose, AllIdle, MayUse, log, state
  <2> QED
    BY <2>1, <1>2, <1>4, DisposeMoves
<1>5. ASSUME UNCHANGED <<logged, held, exists, pc, job>>
      PROVE  JobRecorded(o)'
  BY <1>5 DEF JobRecorded, Uses
<1>6. ASSUME NEW t \in Tasks, NEW p \in Owners, SweepDispose(t, p)
      PROVE  JobRecorded(o)'
  BY <1>6, <1>4, <1>5 DEF SweepDispose, log, state
<1>7. ASSUME NEW t \in Tasks, AppendRecord(t)
      PROVE  JobRecorded(o)'
  <2>1. /\ pc[t] = "append" /\ logged' = With(logged, job[t].owner, job[t].left)
        /\ UNCHANGED <<held, exists>>
    BY <1>7 DEF AppendRecord, Recorded, state
  <2>2. Others(t) /\ job'[t] = job[t] /\ pc'[t] = "note"
    BY <1>7, GotoMoves DEF AppendRecord
  <2>3. /\ job[t].owner = o => logged'[o] = logged[o] \union job[t].left
        /\ job[t].owner # o => logged'[o] = logged[o]
    BY <2>1, <1>r, <1>h, <1>o, HoldingsAt
  <2>4. CASE job[t].owner # o
    <3>1. ~Uses(t, o) /\ ~Uses(t, o)'
      BY <2>2, <2>4 DEF Uses
    <3> QED
      BY <3>1, <2>1, <2>2, <2>3, <2>4, <1>o, AnotherOwner
  <2>5. CASE job[t].owner = o
    <3>1. Uses(t, o)
      BY <2>1, <2>5 DEF Uses
    <3>2. (\A u \in Tasks \ {t} : ~Uses(u, o)) /\ held[o] \subseteq logged[o]
      BY <3>1, <2>1, <1>u, <1>d
    <3>3. exists'[o] \ Pids \subseteq logged'[o] /\ held'[o] \subseteq logged'[o]
      BY <3>2, <2>1, <2>3, <2>5, <1>i
    <3>4. TaskRecorded(t, o)'
      BY <3>1, <2>1, <2>2, <2>3, <2>5, <1>i DEF TaskRecorded
    <3> QED
      BY <3>2, <3>3, <3>4, <2>2, <1>o, OnlyTask
  <2> QED
    BY <2>4, <2>5
<1>8. ASSUME NEW t \in Tasks, RecordFails(t)
      PROVE  JobRecorded(o)'
  <2>1. pc[t] = "append" /\ UNCHANGED <<logged, held, exists>>
    BY <1>8 DEF RecordFails, log, state
  <2>2. Others(t) /\ pc'[t] = "idle"
    BY <1>8, GotoMoves DEF RecordFails
  <2>3. CASE ~Uses(t, o)
    <3>1. ~Uses(t, o)'
      BY <2>2 DEF Uses
    <3> QED
      BY <3>1, <2>1, <2>2, <2>3, <1>o, AnotherOwner
  <2>4. CASE Uses(t, o)
    <3>2. (\A u \in Tasks \ {t} : ~Uses(u, o)) /\ held[o] \subseteq logged[o]
      BY <2>4, <2>1, <1>u, <1>d
    <3>4. TaskRecorded(t, o)'
      BY <2>2 DEF TaskRecorded, Uses
    <3> QED
      BY <3>2, <3>4, <2>1, <2>2, <1>o, <1>i, OnlyTask
  <2> QED
    BY <2>3, <2>4
<1>9. ASSUME NEW t \in Tasks, Note(t)
      PROVE  JobRecorded(o)'
  <2>1. /\ pc[t] = "note" /\ held' = With(held, job[t].owner, job[t].left)
        /\ UNCHANGED <<logged, exists>>
    BY <1>9 DEF Note, log
  <2>2. Others(t) /\ (pc'[t] = "idle" \/ (job'[t] = job[t] /\ pc'[t] = "create"))
    BY <1>9, GotoMoves DEF Note
  <2>3. /\ job[t].owner = o => held'[o] = held[o] \union job[t].left
        /\ job[t].owner # o => held'[o] = held[o]
    BY <2>1, <1>r, <1>h, <1>o, HoldingsAt
  <2>4. CASE job[t].owner # o
    <3>1. ~Uses(t, o) /\ ~Uses(t, o)'
      BY <2>2, <2>4 DEF Uses
    <3> QED
      BY <3>1, <2>1, <2>2, <2>3, <2>4, <1>o, AnotherOwner
  <2>5. CASE job[t].owner = o
    <3>1. Uses(t, o)
      BY <2>1, <2>5 DEF Uses
    <3>2. (\A u \in Tasks \ {t} : ~Uses(u, o)) /\ held[o] \subseteq logged[o]
      BY <3>1, <2>1, <1>u, <1>d
    <3>3. job[t].left \subseteq logged[o] /\ job[t].removed \intersect exists[o] \subseteq Pids
      BY <3>1, <2>1, <1>i DEF TaskRecorded
    <3>4. held'[o] \subseteq logged'[o]
      BY <3>2, <3>3, <2>1, <2>3, <2>5
    <3>5. TaskRecorded(t, o)'
      BY <3>3, <2>1, <2>2 DEF TaskRecorded, Uses
    <3> QED
      BY <3>2, <3>4, <3>5, <2>1, <2>2, <1>o, <1>i, OnlyTask
  <2> QED
    BY <2>4, <2>5
<1>10. ASSUME NEW t \in Tasks, Create(t)
       PROVE  JobRecorded(o)'
  <2>1. /\ pc[t] = "create" /\ UNCHANGED <<logged, held>>
        /\ exists' = With(exists, job[t].owner, job[t].left) \/ UNCHANGED exists
    BY <1>10 DEF Create, log, state
  <2>2. Others(t) /\ pc'[t] = "idle"
    BY <1>10, GotoMoves DEF Create
  <2>3. exists'[o] = exists[o] \/ (job[t].owner = o /\ exists'[o] = exists[o] \union job[t].left)
    BY <2>1, <1>r, <1>h, <1>o, HoldingsAt
  <2>4. CASE job[t].owner # o
    <3>1. ~Uses(t, o) /\ ~Uses(t, o)'
      BY <2>2, <2>4 DEF Uses
    <3> QED
      BY <3>1, <2>1, <2>2, <2>3, <2>4, <1>o, AnotherOwner
  <2>5. CASE job[t].owner = o
    <3>1. Uses(t, o)
      BY <2>1, <2>5 DEF Uses
    <3>2. (\A u \in Tasks \ {t} : ~Uses(u, o)) /\ held[o] \subseteq logged[o]
      BY <3>1, <2>1, <1>u, <1>d
    <3>3. job[t].left \subseteq logged[o]
      BY <3>1, <2>1, <1>i DEF TaskRecorded
    <3>4. exists'[o] \ Pids \subseteq logged'[o]
      BY <3>3, <2>1, <2>3, <1>i
    <3>5. TaskRecorded(t, o)'
      BY <2>2 DEF TaskRecorded, Uses
    <3> QED
      BY <3>2, <3>4, <3>5, <2>1, <2>2, <1>o, OnlyTask
  <2> QED
    BY <2>4, <2>5
<1>11. ASSUME NEW t \in Tasks, pc[t] \notin {"idle", "drop"}, Others(t), job'[t].owner = job[t].owner,
              pc'[t] \in {"mark", "remove"}, UNCHANGED <<logged, held, exists>>,
              job'[t].removed = job[t].removed \/ job'[t].removed = {}
       PROVE  JobRecorded(o)'
  <2>1. CASE job[t].owner # o
    <3>1. ~Uses(t, o) /\ ~Uses(t, o)'
      BY <1>11, <2>1 DEF Uses
    <3> QED
      BY <3>1, <1>11, <1>o, AnotherOwner
  <2>2. CASE job[t].owner = o
    <3>1. Uses(t, o)
      BY <1>11, <2>2 DEF Uses
    <3>2. (\A u \in Tasks \ {t} : ~Uses(u, o)) /\ held[o] \subseteq logged[o]
      BY <3>1, <1>11, <1>u, <1>d
    <3>3. TaskRecorded(t, o)'
      BY <3>1, <1>11, <1>i DEF TaskRecorded
    <3> QED
      BY <3>2, <3>3, <1>11, <1>o, <1>i, OnlyTask
  <2> QED
    BY <2>1, <2>2
<1>12. ASSUME NEW t \in Tasks, Request(t) \/ Snapshot(t)
       PROVE  JobRecorded(o)'
  <2>1. pc[t] \notin {"idle", "drop"} /\ UNCHANGED <<logged, held, exists>>
    BY <1>12 DEF Request, Snapshot, log, state
  <2>2. /\ Others(t) /\ pc'[t] \in {"mark", "remove"} /\ job'[t].owner = job[t].owner
        /\ job'[t].removed = job[t].removed
    BY <1>12, GotoMoves, SnapshotMoves DEF Request
  <2> QED
    BY <2>1, <2>2, <1>11
<1>13. ASSUME NEW t \in Tasks, NEW a \in Artifacts, NEW gone \in BOOLEAN, RemoveOne(t, a, gone)
       PROVE  JobRecorded(o)'
  <2>1. /\ pc[t] = "remove" /\ UNCHANGED <<logged, held>>
        /\ exists' = Without(exists, job[t].owner, {a}) \/ UNCHANGED exists
    BY <1>13 DEF RemoveOne, log, state
  <2>2. /\ Others(t) /\ pc'[t] = "remove" /\ job'[t].owner = job[t].owner
        /\ \/ job'[t].removed = job[t].removed
           \/ job'[t].removed = job[t].removed \union {a} /\ (a \in exists'[job[t].owner] => a \in Pids)
    BY <1>13, RemoveMoves
  <2>3. {a} \in SUBSET Artifacts
    OBVIOUS
  <2>4. /\ job[t].owner = o => exists'[o] \subseteq exists[o]
        /\ job[t].owner # o => exists'[o] = exists[o]
    BY <2>1, <2>3, <1>r, <1>h, <1>o, HoldingsAt
  <2>5. CASE job[t].owner # o
    <3>1. ~Uses(t, o) /\ ~Uses(t, o)'
      BY <2>2, <2>5 DEF Uses
    <3> QED
      BY <3>1, <2>1, <2>2, <2>4, <2>5, <1>o, AnotherOwner
  <2>6. CASE job[t].owner = o
    <3>1. Uses(t, o)
      BY <2>1, <2>6 DEF Uses
    <3>2. (\A u \in Tasks \ {t} : ~Uses(u, o)) /\ held[o] \subseteq logged[o]
      BY <3>1, <2>1, <1>u, <1>d
    <3>3. job[t].removed \intersect exists[o] \subseteq Pids
      BY <3>1, <1>i DEF TaskRecorded
    <3>4. job'[t].removed \intersect exists'[o] \subseteq Pids
      BY <3>3, <2>2, <2>4, <2>6
    <3>5. TaskRecorded(t, o)'
      BY <3>4, <2>2 DEF TaskRecorded
    <3>6. exists'[o] \ Pids \subseteq logged'[o] /\ held'[o] \subseteq logged'[o]
      BY <3>2, <2>1, <2>4, <2>6, <1>i
    <3> QED
      BY <3>2, <3>5, <3>6, <2>2, <1>o, OnlyTask
  <2> QED
    BY <2>5, <2>6
<1>14. ASSUME NEW t \in Tasks, Acknowledge(t)
       PROVE  JobRecorded(o)'
  <2>1. /\ pc[t] = "remove" /\ logged' = Without(logged, job[t].owner, job[t].removed)
        /\ UNCHANGED <<held, exists>>
    BY <1>14 DEF Acknowledge, state
  <2>2. Others(t) /\ job'[t] = job[t] /\ pc'[t] = "drop"
    BY <1>14, GotoMoves DEF Acknowledge
  <2>3. /\ job[t].owner = o => logged'[o] = logged[o] \ job[t].removed
        /\ job[t].owner # o => logged'[o] = logged[o]
    BY <2>1, <1>r, <1>h, <1>o, HoldingsAt
  <2>4. CASE job[t].owner # o
    <3>1. ~Uses(t, o) /\ ~Uses(t, o)'
      BY <2>2, <2>4 DEF Uses
    <3> QED
      BY <3>1, <2>1, <2>2, <2>3, <2>4, <1>o, AnotherOwner
  <2>5. CASE job[t].owner = o
    <3>1. Uses(t, o) /\ Uses(t, o)'
      BY <2>1, <2>2, <2>5 DEF Uses
    <3>2. (\A u \in Tasks \ {t} : ~Uses(u, o)) /\ held[o] \subseteq logged[o]
      BY <3>1, <2>1, <1>u, <1>d
    <3>3. job[t].removed \intersect exists[o] \subseteq Pids
      BY <3>1, <1>i DEF TaskRecorded
    <3>4. exists'[o] \ Pids \subseteq logged'[o]
      BY <3>3, <2>1, <2>3, <2>5, <1>i
    <3>5. TaskRecorded(t, o)'
      BY <3>2, <3>3, <2>1, <2>2, <2>3, <2>5 DEF TaskRecorded
    <3> QED
      BY <3>1, <3>2, <3>4, <3>5, <2>2, <1>o, OnlyTask
  <2> QED
    BY <2>4, <2>5
<1>15. ASSUME NEW t \in Tasks, Drop(t)
       PROVE  JobRecorded(o)'
  <2>1. /\ pc[t] = "drop" /\ held' = Without(held, job[t].owner, job[t].removed)
        /\ UNCHANGED <<logged, exists>> /\ NextPart(t)
    BY <1>15 DEF Drop, HeldAfter, log
  <2>2. /\ Others(t)
        /\ \/ pc'[t] = "idle"
           \/ pc'[t] = "remove" /\ job'[t].owner = job[t].owner /\ job'[t].removed = {}
    BY <2>1, NextPartMoves
  <2>3. /\ job[t].owner = o => held'[o] = held[o] \ job[t].removed
        /\ job[t].owner # o => held'[o] = held[o]
    BY <2>1, <1>r, <1>h, <1>o, HoldingsAt
  <2>4. CASE job[t].owner # o
    <3>1. ~Uses(t, o) /\ ~Uses(t, o)'
      BY <2>2, <2>4 DEF Uses
    <3> QED
      BY <3>1, <2>1, <2>2, <2>3, <2>4, <1>o, AnotherOwner
  <2>5. CASE job[t].owner = o
    <3>1. Uses(t, o)
      BY <2>1, <2>5 DEF Uses
    <3>2. \A u \in Tasks \ {t} : ~Uses(u, o)
      BY <3>1, <1>u
    <3>3. held'[o] \subseteq logged'[o]
      BY <3>1, <2>1, <2>3, <2>5, <1>i DEF TaskRecorded
    <3>4. TaskRecorded(t, o)'
      BY <2>2 DEF TaskRecorded, Uses
    <3> QED
      BY <3>2, <3>3, <3>4, <2>1, <2>2, <1>o, <1>i, OnlyTask
  <2> QED
    BY <2>4, <2>5
<1>16. ASSUME NEW t \in Tasks, NotAcknowledged(t)
       PROVE  JobRecorded(o)'
  <2>1. /\ pc[t] = "remove" /\ UNCHANGED <<logged, held, exists>> /\ NextPart(t)
    BY <1>16 DEF NotAcknowledged, log
  <2>2. /\ Others(t)
        /\ \/ pc'[t] = "idle"
           \/ pc'[t] = "remove" /\ job'[t].owner = job[t].owner /\ job'[t].removed = {}
    BY <2>1, NextPartMoves
  <2>3. CASE pc'[t] # "idle"
    BY <2>1, <2>2, <2>3, <1>11
  <2>4. CASE ~Uses(t, o) /\ pc'[t] = "idle"
    <3>1. ~Uses(t, o)'
      BY <2>4 DEF Uses
    <3> QED
      BY <3>1, <2>1, <2>2, <2>4, <1>o, AnotherOwner
  <2>5. CASE Uses(t, o) /\ pc'[t] = "idle"
    <3>1. (\A u \in Tasks \ {t} : ~Uses(u, o)) /\ held[o] \subseteq logged[o]
      BY <2>1, <2>5, <1>u, <1>d
    <3>2. TaskRecorded(t, o)'
      BY <2>5 DEF TaskRecorded, Uses
    <3> QED
      BY <3>1, <3>2, <2>1, <2>2, <1>o, <1>i, OnlyTask
  <2> QED
    BY <2>3, <2>4, <2>5
<1>17. CASE Restart
  <2>1. logged' = logged /\ held' = logged /\ exists' = exists
    BY <1>17 DEF Restart, log
  <2>2. \A t \in Tasks : ~Uses(t, o)'
    BY <1>17 DEF Restart, Uses
  <2> QED
    BY <2>1, <2>2, <1>i DEF JobRecorded
<1>18. CASE SweepDone \/ UNCHANGED vars \/ \E p \in Owners : Restore(p)
  BY <1>18, <1>5 DEF SweepDone, vars, Restore, log, state
<1>19. ASSUME NEW p \in Owners, NEW a \in Artifacts, ProcessEnds(p, a)
       PROVE  JobRecorded(o)'
  <2>1. UNCHANGED <<logged, held, pc, job>> /\ exists' = Without(exists, p, {a})
    BY <1>19 DEF ProcessEnds, log, state
  <2>2. {a} \in SUBSET Artifacts
    OBVIOUS
  <2>3. exists'[o] \subseteq exists[o]
    BY <2>1, <2>2, <1>h, <1>o, HoldingsAt
  <2>4. \A t \in Tasks : TaskRecorded(t, o)'
    BY <2>1, <2>3, <1>i DEF TaskRecorded, Uses
  <2>5. Undropped(o)' /\ exists'[o] \ Pids \subseteq logged'[o]
    BY <2>1, <2>3, <1>i DEF Undropped, Uses
  <2> QED
    BY <2>4, <2>5 DEF JobRecorded, TaskRecorded, Undropped, Uses
<1> QED
  BY <1>1, <1>3, <1>4, <1>6, <1>7, <1>8, <1>9, <1>10, <1>12, <1>13, <1>14, <1>15, <1>16, <1>17,
     <1>18, <1>19 DEF Next, TaskStep, Dispose

LEMMA JobsRecordedKept == TypeOK /\ OneTaskPerJob /\ JobsRecorded /\ [Next]_vars => JobsRecorded'
BY JobRecordedKept DEF JobsRecorded

(* Whatever a job created outside the database can be removed after a crash. *)
THEOREM NothingIsForgotten == Spec => []NothingForgotten
<1> DEFINE I == TypeOK /\ OneTaskPerJob /\ JobsRecorded
<1>1. Init => I
  <2>1. Init => OneTaskPerJob
    BY DEF Init, OneTaskPerJob, Uses
  <2>2. Init => JobsRecorded
    BY DEF Init, JobsRecorded, JobRecorded, Nothing, Uses
  <2> QED
    BY <2>1, <2>2, InitTypes
<1>2. I /\ [Next]_vars => I'
  BY TypesKept, OneTaskKept, JobsRecordedKept
<1>3. I => NothingForgotten
  BY DEF JobsRecorded, JobRecorded, NothingForgotten
<1> QED
  BY <1>1, <1>2, <1>3, PTL DEF Spec

-----------------------------------------------------------------------------
(* An artifact with an identity of its own is recorded once, so a record and a removal *)
(* of it never overlap, and the memory differs from the log only between a log write   *)
(* and its note.                                                                       *)
LEMMA Overlap ==
    ASSUME NEW t \in Tasks, NEW o \in Owners, NEW a \in Artifacts
    PROVE  /\ Dropping(t, o, a) => Listed(t, o, a)
           /\ Noting(t, o, a) => Recording(t, o, a)
           /\ ~(Recording(t, o, a) /\ Listed(t, o, a))
BY DEF Dropping, Listed, Noting, Recording

LEMMA OthersStay ==
    ASSUME NEW t \in Tasks, Others(t), NEW o \in Owners, NEW a \in Artifacts, NEW u \in Tasks \ {t}
    PROVE  /\ Dropping(u, o, a)' <=> Dropping(u, o, a)
           /\ Listed(u, o, a)' <=> Listed(u, o, a)
           /\ Noting(u, o, a)' <=> Noting(u, o, a)
           /\ Recording(u, o, a)' <=> Recording(u, o, a)
BY DEF Dropping, Listed, Noting, Recording, Others, Uses

(* A step that neither begins nor ends a record or an acknowledgement of the artifact. *)
LEMMA OnceQuiet ==
    ASSUME NEW o \in Owners, NEW a \in Artifacts, Once(o, a), NEW t \in Tasks, Others(t),
           a \in logged'[o] <=> a \in logged[o], a \in held'[o] <=> a \in held[o],
           a \in ever[o] => a \in ever'[o],
           Recording(t, o, a)' => Recording(t, o, a), Noting(t, o, a)' <=> Noting(t, o, a),
           Dropping(t, o, a)' <=> Dropping(t, o, a),
           Listed(t, o, a)' => Listed(t, o, a) \/ a \in held[o]
    PROVE  Once(o, a)'
<1>u. \A u \in Tasks :
          /\ Recording(u, o, a)' => Recording(u, o, a)
          /\ Noting(u, o, a)' <=> Noting(u, o, a)
          /\ Dropping(u, o, a)' <=> Dropping(u, o, a)
          /\ Listed(u, o, a)' => Listed(u, o, a) \/ a \in held[o]
  BY OthersStay
<1>1. (a \in logged[o] \union held[o] => a \in ever[o])'
  BY DEF Once
<1>2. ASSUME NEW u \in Tasks, Recording(u, o, a)' \/ Listed(u, o, a)'
      PROVE  a \in ever'[o]
  BY <1>2, <1>u DEF Once
<1>3. ASSUME NEW u \in Tasks, Recording(u, o, a)'
      PROVE  /\ a \notin held'[o] /\ (a \in logged'[o] <=> Noting(u, o, a)')
             /\ \A v \in Tasks : ~Listed(v, o, a)' /\ (Recording(v, o, a)' => v = u)
  BY <1>3, <1>u DEF Once
<1>4. ASSUME NEW u \in Tasks, Dropping(u, o, a)'
      PROVE  a \notin logged'[o]
  BY <1>4, <1>u DEF Once
<1>5. ASSUME a \in held'[o] \ logged'[o]
      PROVE  \E u \in Tasks : Dropping(u, o, a)'
  BY <1>5, <1>u DEF Once
<1>6. ASSUME a \in logged'[o] \ held'[o]
      PROVE  \E u \in Tasks : Noting(u, o, a)'
  BY <1>6, <1>u DEF Once
<1> QED
  BY <1>1, <1>2, <1>3, <1>4, <1>5, <1>6 DEF Once

LEMMA OnceKept ==
    ASSUME TypeOK, [Next]_vars, NEW o \in Owners, NEW a \in Artifacts \ Reused, Once(o, a)
    PROVE  Once(o, a)'
<1>a. a \in Artifacts
  OBVIOUS
<1>r. \A t \in Tasks : /\ job[t].owner \in Owners /\ job[t].left \in SUBSET Artifacts
                       /\ job[t].removed \in SUBSET Artifacts
  BY DEF TypeOK, Job
<1>h. exists \in Holdings /\ logged \in Holdings /\ held \in Holdings /\ ever \in Holdings
  BY DEF TypeOK
<1>1. ASSUME NEW t \in Tasks, NEW p \in Owners, NEW b \in Artifacts, StartRecord(t, p, b)
      PROVE  Once(o, a)'
  <2>1. /\ UNCHANGED <<logged, held>> /\ pc[t] = "idle" /\ (b \in Reused \/ b \notin ever[p])
        /\ ever' = With(ever, p, {b} \ Reused)
    BY <1>1 DEF StartRecord, log, state
  <2>2. /\ Others(t) /\ pc'[t] = (IF b \in held[p] THEN "create" ELSE "append")
        /\ job'[t].owner = p /\ job'[t].left = {b} /\ job'[t].removed = {}
    BY <1>1, RecordMoves
  <2>3. {b} \ Reused \in SUBSET Artifacts
    OBVIOUS
  <2>4. /\ p = o => ever'[o] = ever[o] \union ({b} \ Reused)
        /\ p # o => ever'[o] = ever[o]
    BY <2>1, <2>3, <1>h, HoldingsAt
  <2>5. ~Dropping(t, o, a) /\ ~Listed(t, o, a) /\ ~Noting(t, o, a) /\ ~Recording(t, o, a)
    BY <2>1 DEF Dropping, Listed, Noting, Recording, Uses
  <2>6. ~Dropping(t, o, a)' /\ ~Listed(t, o, a)' /\ ~Noting(t, o, a)'
    BY <2>2 DEF Dropping, Listed, Noting
  <2>7. CASE ~Recording(t, o, a)'
    BY <2>1, <2>2, <2>4, <2>5, <2>6, <2>7, <1>a, OnceQuiet
  <2>8. CASE Recording(t, o, a)'
    <3>1. p = o /\ b = a
      BY <2>2, <2>8 DEF Recording, Uses
    <3>2. a \notin ever[o] /\ a \in ever'[o]
      BY <3>1, <2>1, <2>4
    <3>3. a \notin logged'[o] /\ a \notin held'[o]
      BY <3>2, <2>1 DEF Once
    <3>4. \A u \in Tasks : ~Recording(u, o, a) /\ ~Listed(u, o, a)
      BY <3>2 DEF Once
    <3>5. \A u \in Tasks : ~Listed(u, o, a)' /\ ~Dropping(u, o, a)' /\ (Recording(u, o, a)' => u = t)
      BY <3>4, <2>2, <2>6, <1>a, OthersStay, Overlap
    <3> QED
      BY <3>2, <3>3, <3>5, <2>6 DEF Once
  <2> QED
    BY <2>7, <2>8
<1>2. ASSUME NEW t \in Tasks, NEW p \in Owners, EndProcesses(t, p) \/ SweepEnd(t, p)
      PROVE  Once(o, a)'
  <2>1. StartEnd(t, p) /\ pc[t] = "idle" /\ UNCHANGED <<logged, held, ever>>
    BY <1>2 DEF EndProcesses, SweepEnd, AllIdle, log, state, users
  <2>2. /\ Others(t) /\ pc'[t] = "remove" /\ job'[t].owner = p /\ job'[t].left \subseteq held[p]
        /\ job'[t].files = {} /\ job'[t].removed = {}
    BY <2>1, EndMoves
  <2>3. ~Dropping(t, o, a) /\ ~Noting(t, o, a)
    BY <2>1 DEF Dropping, Noting, Uses
  <2>4. ~Dropping(t, o, a)' /\ ~Noting(t, o, a)' /\ ~Recording(t, o, a)' /\ (Listed(t, o, a)' => a \in held[o])
    BY <2>2 DEF Dropping, Listed, Noting, Recording, Uses
  <2> QED
    BY <2>1, <2>2, <2>3, <2>4, <1>a, OnceQuiet
<1>3. ASSUME NEW t \in Tasks, NEW p \in Owners, Dispose(t, p) \/ SweepDispose(t, p), StartDispose(t, p)
      PROVE  Once(o, a)'
  <2>1. pc[t] = "idle" /\ UNCHANGED <<logged, held, ever>>
    BY <1>3 DEF Dispose, SweepDispose, AllIdle, log, state, users
  <2>2. /\ Others(t) /\ pc'[t] \in {"snapshot", "request"} /\ job'[t].owner = p
        /\ job'[t].left = {} /\ job'[t].files = {} /\ job'[t].removed = {}
    BY <1>3, DisposeMoves
  <2>3. ~Dropping(t, o, a) /\ ~Noting(t, o, a)
    BY <2>1 DEF Dropping, Noting, Uses
  <2>4. ~Dropping(t, o, a)' /\ ~Noting(t, o, a)' /\ ~Recording(t, o, a)' /\ ~Listed(t, o, a)'
    BY <2>2 DEF Dropping, Listed, Noting, Recording
  <2> QED
    BY <2>1, <2>2, <2>3, <2>4, <1>a, OnceQuiet
<1>4. ASSUME UNCHANGED <<logged, held, ever, pc, job>>
      PROVE  Once(o, a)'
  BY <1>4 DEF Once, Dropping, Listed, Noting, Recording, Uses
<1>5. ASSUME NEW t \in Tasks, NEW p \in Owners, SweepDispose(t, p)
      PROVE  Once(o, a)'
  BY <1>5, <1>3, <1>4 DEF SweepDispose, log, state, users
<1>6. ASSUME NEW t \in Tasks, AppendRecord(t)
      PROVE  Once(o, a)'
  <2>1. /\ pc[t] = "append" /\ logged' = With(logged, job[t].owner, job[t].left)
        /\ UNCHANGED <<held, ever>>
    BY <1>6 DEF AppendRecord, Recorded, state, users
  <2>2. Others(t) /\ job'[t] = job[t] /\ pc'[t] = "note"
    BY <1>6, GotoMoves DEF AppendRecord
  <2>3. /\ job[t].owner = o => logged'[o] = logged[o] \union job[t].left
        /\ job[t].owner # o => logged'[o] = logged[o]
    BY <2>1, <1>r, <1>h, HoldingsAt
  <2>4. /\ ~Dropping(t, o, a) /\ ~Listed(t, o, a) /\ ~Noting(t, o, a)
        /\ Recording(t, o, a) <=> job[t].owner = o /\ a \in job[t].left
    BY <2>1 DEF Dropping, Listed, Noting, Recording, Uses
  <2>5. /\ ~Dropping(t, o, a)' /\ ~Listed(t, o, a)'
        /\ Recording(t, o, a)' <=> job[t].owner = o /\ a \in job[t].left
        /\ Noting(t, o, a)' <=> job[t].owner = o /\ a \in job[t].left
    BY <2>2 DEF Dropping, Listed, Noting, Recording, Uses
  <2>6. CASE ~Recording(t, o, a)
    <3>1. a \in logged'[o] <=> a \in logged[o]
      BY <2>3, <2>4, <2>6
    <3> QED
      BY <3>1, <2>1, <2>2, <2>4, <2>5, <2>6, <1>a, OnceQuiet
  <2>7. CASE Recording(t, o, a)
    <3>1. a \in logged'[o] /\ a \notin held'[o] /\ a \in ever'[o]
      BY <2>1, <2>3, <2>4, <2>7 DEF Once
    <3>2. \A u \in Tasks : ~Listed(u, o, a) /\ (Recording(u, o, a) => u = t)
      BY <2>7 DEF Once
    <3>3. \A u \in Tasks : ~Listed(u, o, a)' /\ ~Dropping(u, o, a)' /\ (Recording(u, o, a)' => u = t)
      BY <3>2, <2>2, <2>5, <1>a, OthersStay, Overlap
    <3>4. Noting(t, o, a)'
      BY <2>4, <2>5, <2>7
    <3> QED
      BY <3>1, <3>3, <3>4 DEF Once
  <2> QED
    BY <2>6, <2>7
<1>7. ASSUME NEW t \in Tasks, RecordFails(t) \/ Create(t)
      PROVE  Once(o, a)'
  <2>1. pc[t] \in {"append", "create"} /\ UNCHANGED <<logged, held, ever>>
    BY <1>7 DEF RecordFails, Create, log, state, users
  <2>2. Others(t) /\ pc'[t] = "idle"
    BY <1>7, GotoMoves DEF RecordFails, Create
  <2>3. ~Dropping(t, o, a) /\ ~Noting(t, o, a)
    BY <2>1 DEF Dropping, Noting
  <2>4. ~Dropping(t, o, a)' /\ ~Noting(t, o, a)' /\ ~Recording(t, o, a)' /\ ~Listed(t, o, a)'
    BY <2>2 DEF Dropping, Listed, Noting, Recording, Uses
  <2> QED
    BY <2>1, <2>2, <2>3, <2>4, <1>a, OnceQuiet
<1>8. ASSUME NEW t \in Tasks, Note(t)
      PROVE  Once(o, a)'
  <2>1. /\ pc[t] = "note" /\ held' = With(held, job[t].owner, job[t].left)
        /\ UNCHANGED <<logged, ever>>
    BY <1>8 DEF Note, log, users
  <2>2. Others(t) /\ (pc'[t] = "idle" \/ (job'[t] = job[t] /\ pc'[t] = "create"))
    BY <1>8, GotoMoves DEF Note
  <2>3. /\ job[t].owner = o => held'[o] = held[o] \union job[t].left
        /\ job[t].owner # o => held'[o] = held[o]
    BY <2>1, <1>r, <1>h, HoldingsAt
  <2>4. /\ ~Dropping(t, o, a) /\ ~Listed(t, o, a)
        /\ Noting(t, o, a) <=> job[t].owner = o /\ a \in job[t].left
        /\ Recording(t, o, a) <=> Noting(t, o, a)
    BY <2>1 DEF Dropping, Listed, Noting, Recording, Uses
  <2>5. ~Dropping(t, o, a)' /\ ~Listed(t, o, a)' /\ ~Noting(t, o, a)' /\ ~Recording(t, o, a)'
    BY <2>2 DEF Dropping, Listed, Noting, Recording, Uses
  <2>6. CASE ~Noting(t, o, a)
    <3>1. a \in held'[o] <=> a \in held[o]
      BY <2>3, <2>4, <2>6
    <3> QED
      BY <3>1, <2>1, <2>2, <2>4, <2>5, <2>6, <1>a, OnceQuiet
  <2>7. CASE Noting(t, o, a)
    <3>1. Recording(t, o, a)
      BY <2>4, <2>7
    <3>2. a \in logged'[o] /\ a \in ever'[o]
      BY <3>1, <2>1, <2>7 DEF Once
    <3>3. a \in held'[o]
      BY <2>3, <2>4, <2>7
    <3>4. \A u \in Tasks : ~Listed(u, o, a) /\ (Recording(u, o, a) => u = t)
      BY <3>1 DEF Once
    <3>5. \A u \in Tasks : ~Listed(u, o, a)' /\ ~Dropping(u, o, a)' /\ ~Recording(u, o, a)'
      BY <3>4, <2>2, <2>5, <1>a, OthersStay, Overlap
    <3> QED
      BY <3>2, <3>3, <3>5 DEF Once
  <2> QED
    BY <2>6, <2>7
<1>9. ASSUME NEW t \in Tasks, Request(t)
      PROVE  Once(o, a)'
  <2>1. pc[t] = "request" /\ UNCHANGED <<logged, held, ever>>
    BY <1>9 DEF Request, state, users
  <2>2. Others(t) /\ job'[t] = job[t] /\ pc'[t] = "mark"
    BY <1>9, GotoMoves DEF Request
  <2>3. ~Dropping(t, o, a) /\ ~Noting(t, o, a)
    BY <2>1 DEF Dropping, Noting
  <2>4. ~Dropping(t, o, a)' /\ ~Noting(t, o, a)' /\ ~Recording(t, o, a)'
    BY <2>2 DEF Dropping, Noting, Recording
  <2>5. Listed(t, o, a)' => Listed(t, o, a)
    BY <2>1, <2>2 DEF Listed, Uses
  <2> QED
    BY <2>1, <2>2, <2>3, <2>4, <2>5, <1>a, OnceQuiet
<1>10. ASSUME NEW t \in Tasks, Snapshot(t)
       PROVE  Once(o, a)'
  <2>1. pc[t] \in {"mark", "snapshot"} /\ UNCHANGED <<logged, held, ever>>
    BY <1>10 DEF Snapshot, log, users
  <2>2. /\ Others(t) /\ pc'[t] = "remove" /\ job'[t].owner = job[t].owner
        /\ job'[t].left \union job'[t].files \subseteq held[job[t].owner] /\ job'[t].removed = job[t].removed
    BY <1>10, SnapshotMoves
  <2>3. ~Dropping(t, o, a) /\ ~Noting(t, o, a)
    BY <2>1 DEF Dropping, Noting
  <2>4. ~Dropping(t, o, a)' /\ ~Noting(t, o, a)' /\ ~Recording(t, o, a)'
    BY <2>2 DEF Dropping, Noting, Recording
  <2>5. Listed(t, o, a)' => Listed(t, o, a) \/ a \in held[o]
    BY <2>1, <2>2 DEF Listed, Uses
  <2> QED
    BY <2>1, <2>2, <2>3, <2>4, <2>5, <1>a, OnceQuiet
<1>11. ASSUME NEW t \in Tasks, NEW b \in Artifacts, NEW gone \in BOOLEAN, RemoveOne(t, b, gone)
       PROVE  Once(o, a)'
  <2>1. pc[t] = "remove" /\ b \in job[t].left /\ UNCHANGED <<logged, held, ever>>
    BY <1>11 DEF RemoveOne, log, state, users
  <2>2. /\ Others(t) /\ pc'[t] = "remove" /\ job'[t].owner = job[t].owner
        /\ job'[t].left = job[t].left \ {b} /\ job'[t].files = job[t].files
        /\ job'[t].removed \subseteq job[t].removed \union {b}
    BY <1>11, RemoveMoves
  <2>3. ~Dropping(t, o, a) /\ ~Noting(t, o, a)
    BY <2>1 DEF Dropping, Noting
  <2>4. ~Dropping(t, o, a)' /\ ~Noting(t, o, a)' /\ ~Recording(t, o, a)'
    BY <2>2 DEF Dropping, Noting, Recording
  <2>5. Listed(t, o, a)' => Listed(t, o, a)
    BY <2>1, <2>2 DEF Listed, Uses
  <2> QED
    BY <2>1, <2>2, <2>3, <2>4, <2>5, <1>a, OnceQuiet
<1>12. ASSUME NEW t \in Tasks, Acknowledge(t)
       PROVE  Once(o, a)'
  <2>1. /\ pc[t] = "remove" /\ logged' = Without(logged, job[t].owner, job[t].removed)
        /\ UNCHANGED <<held, ever>>
    BY <1>12 DEF Acknowledge, state, users
  <2>2. Others(t) /\ job'[t] = job[t] /\ pc'[t] = "drop"
    BY <1>12, GotoMoves DEF Acknowledge
  <2>3. /\ job[t].owner = o => logged'[o] = logged[o] \ job[t].removed
        /\ job[t].owner # o => logged'[o] = logged[o]
    BY <2>1, <1>r, <1>h, HoldingsAt
  <2>4. ~Dropping(t, o, a) /\ ~Recording(t, o, a) /\ ~Noting(t, o, a)
    BY <2>1 DEF Dropping, Noting, Recording
  <2>5. /\ ~Recording(t, o, a)' /\ ~Noting(t, o, a)' /\ (Listed(t, o, a)' <=> Listed(t, o, a))
        /\ Dropping(t, o, a)' <=> job[t].owner = o /\ a \in job[t].removed
    BY <2>1, <2>2 DEF Dropping, Listed, Noting, Recording, Uses
  <2>6. CASE ~Dropping(t, o, a)'
    <3>1. a \in logged'[o] <=> a \in logged[o]
      BY <2>3, <2>5, <2>6
    <3> QED
      BY <3>1, <2>1, <2>2, <2>4, <2>5, <2>6, <1>a, OnceQuiet
  <2>7. CASE Dropping(t, o, a)'
    <3>1. a \notin logged'[o]
      BY <2>3, <2>5, <2>7
    <3>2. Listed(t, o, a)
      BY <2>1, <2>5, <2>7 DEF Listed, Uses
    <3>3. a \in ever'[o] /\ \A u \in Tasks : ~Recording(u, o, a)
      BY <3>2, <2>1 DEF Once
    <3>4. \A u \in Tasks : ~Recording(u, o, a)'
      BY <3>3, <2>2, <2>5, <1>a, OthersStay
    <3> QED
      BY <3>1, <3>3, <3>4, <2>7 DEF Once
  <2> QED
    BY <2>6, <2>7
<1>13. ASSUME NEW t \in Tasks, Drop(t)
       PROVE  Once(o, a)'
  <2>1. /\ pc[t] = "drop" /\ held' = Without(held, job[t].owner, job[t].removed)
        /\ UNCHANGED <<logged, ever>> /\ NextPart(t)
    BY <1>13 DEF Drop, HeldAfter, log
  <2>2. /\ Others(t)
        /\ \/ pc'[t] = "idle"
           \/ /\ pc'[t] = "remove" /\ job'[t].owner = job[t].owner
              /\ job'[t].left = job[t].files /\ job'[t].files = {} /\ job'[t].removed = {}
    BY <2>1, NextPartMoves
  <2>3. /\ job[t].owner = o => held'[o] = held[o] \ job[t].removed
        /\ job[t].owner # o => held'[o] = held[o]
    BY <2>1, <1>r, <1>h, HoldingsAt
  <2>4. /\ ~Recording(t, o, a) /\ ~Noting(t, o, a)
        /\ Dropping(t, o, a) <=> job[t].owner = o /\ a \in job[t].removed
    BY <2>1 DEF Dropping, Noting, Recording, Uses
  <2>5. /\ ~Recording(t, o, a)' /\ ~Noting(t, o, a)' /\ ~Dropping(t, o, a)'
        /\ Listed(t, o, a)' => Listed(t, o, a)
    BY <2>1, <2>2 DEF Dropping, Listed, Noting, Recording, Uses
  <2>6. CASE ~Dropping(t, o, a)
    <3>1. a \in held'[o] <=> a \in held[o]
      BY <2>3, <2>4, <2>6
    <3> QED
      BY <3>1, <2>1, <2>2, <2>4, <2>5, <2>6, <1>a, OnceQuiet
  <2>7. CASE Dropping(t, o, a)
    <3>1. a \notin logged'[o] /\ a \notin held'[o]
      BY <2>1, <2>3, <2>4, <2>7 DEF Once
    <3>2. Listed(t, o, a)
      BY <2>7, <1>a, Overlap
    <3>3. a \in ever'[o] /\ \A u \in Tasks : ~Recording(u, o, a)
      BY <3>2, <2>1 DEF Once
    <3>4. \A u \in Tasks : ~Recording(u, o, a)'
      BY <3>3, <2>2, <2>5, <1>a, OthersStay
    <3> QED
      BY <3>1, <3>3, <3>4 DEF Once
  <2> QED
    BY <2>6, <2>7
<1>14. ASSUME NEW t \in Tasks, NotAcknowledged(t)
       PROVE  Once(o, a)'
  <2>1. pc[t] = "remove" /\ UNCHANGED <<logged, held, ever>> /\ NextPart(t)
    BY <1>14 DEF NotAcknowledged, log
  <2>2. /\ Others(t)
        /\ \/ pc'[t] = "idle"
           \/ /\ pc'[t] = "remove" /\ job'[t].owner = job[t].owner
              /\ job'[t].left = job[t].files /\ job'[t].files = {} /\ job'[t].removed = {}
    BY <2>1, NextPartMoves
  <2>3. ~Dropping(t, o, a) /\ ~Noting(t, o, a)
    BY <2>1 DEF Dropping, Noting
  <2>4. ~Dropping(t, o, a)' /\ ~Noting(t, o, a)' /\ ~Recording(t, o, a)' /\ (Listed(t, o, a)' => Listed(t, o, a))
    BY <2>1, <2>2 DEF Dropping, Listed, Noting, Recording, Uses
  <2> QED
    BY <2>1, <2>2, <2>3, <2>4, <1>a, OnceQuiet
<1>15. CASE Restart
  <2>1. logged' = logged /\ held' = logged /\ ever' = ever
    BY <1>15 DEF Restart, log, users
  <2>2. \A t \in Tasks : ~Recording(t, o, a)' /\ ~Listed(t, o, a)' /\ ~Dropping(t, o, a)'
    BY <1>15 DEF Restart, Recording, Listed, Dropping, Uses
  <2>3. a \in logged[o] => a \in ever[o]
    BY DEF Once
  <2> QED
    BY <2>1, <2>2, <2>3 DEF Once
<1>16. CASE SweepDone \/ UNCHANGED vars
            \/ \E p \in Owners : Restore(p) \/ \E b \in Artifacts : ProcessEnds(p, b)
  BY <1>16, <1>4 DEF SweepDone, vars, Restore, ProcessEnds, log, state, users
<1> QED
  BY <1>1, <1>2, <1>3, <1>5, <1>6, <1>7, <1>8, <1>9, <1>10, <1>11, <1>12, <1>13, <1>14, <1>15,
     <1>16 DEF Next, TaskStep, Dispose

LEMMA RecordedOnceKept == TypeOK /\ RecordedOnce /\ [Next]_vars => RecordedOnce'
BY OnceKept DEF RecordedOnce

(* The inductive invariant of the ledger. *)
THEOREM LedgerInvariant == Spec => []Inductive
<1>1. Init => TypeOK /\ Inductive
  <2>1. Init => OneTaskPerJob
    BY DEF Init, OneTaskPerJob, Uses
  <2>2. Init => JobsRecorded
    BY DEF Init, JobsRecorded, JobRecorded, Nothing, Uses
  <2>3. Init => RecordedOnce
    BY DEF Init, RecordedOnce, Once, Nothing, Recording, Listed, Dropping, Noting, Uses
  <2>4. Init => OnlyAsked
    BY DEF Init, OnlyAsked
  <2> QED
    BY <2>1, <2>2, <2>3, <2>4, InitTypes DEF Inductive
<1>2. TypeOK /\ Inductive /\ [Next]_vars => (TypeOK /\ Inductive)'
  BY TypesKept, OneTaskKept, JobsRecordedKept, RecordedOnceKept, OnlyAskedKept DEF Inductive
<1> QED
  BY <1>1, <1>2, PTL DEF Spec

(* The daemon's memory agrees with what a restart would load. *)
THEOREM MemoryMatchesLog == Spec => []MemoryIsLog
<1>1. TypeOK /\ Inductive => MemoryIsLog
  <2> SUFFICES ASSUME TypeOK, Inductive, Settled, NEW o \in Owners
               PROVE  held[o] \ Reused = logged[o] \ Reused
    BY DEF MemoryIsLog
  <2>1. \A a \in Artifacts, t \in Tasks : ~Dropping(t, o, a) /\ ~Noting(t, o, a)
    BY DEF Settled, Dropping, Noting
  <2>2. \A a \in Artifacts \ Reused : a \in held[o] <=> a \in logged[o]
    BY <2>1 DEF Inductive, RecordedOnce, Once
  <2>3. held[o] \subseteq Artifacts /\ logged[o] \subseteq Artifacts
    BY DEF TypeOK, Holdings
  <2> QED
    BY <2>2, <2>3
<1> QED
  BY <1>1, TypeInvariant, LedgerInvariant, PTL
=============================================================================

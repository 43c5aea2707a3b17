---------------------------- MODULE StoreProofs ----------------------------
(***************************************************************************)
(* The crate store.  What holds of the event store for any number of       *)
(* callers, streams, calls and restarts and for every size of queue, batch *)
(* and cache: the types, the cached heads, the uniqueness of sequence      *)
(* numbers, that the writer implements EventLog, the order of the live     *)
(* feed, that every answer is true, that a shutdown drops no command and   *)
(* that no event is lost.  Then what holds of the blobs for any contents,  *)
(* holders, collectors, grace period, chunk size and duration of a put: no *)
(* stored event ever mentions a blob that is gone, and no collection       *)
(* removes one that is still held within its grace.                        *)
(***************************************************************************)
EXTENDS EventStore, BlobGc, TLAPS, FiniteSetTheorems

(* The clauses of TypeOK, split so that a step is checked part by part. *)

LEMMA ElementsInType ==
    ASSUME NEW S, NEW q \in Seq(S)
    PROVE  Elements(q) \subseteq S
BY DEF Elements

LEMMA UnansweredType == TypeOK => Unanswered \subseteq Command
<1> SUFFICES ASSUME TypeOK PROVE Unanswered \subseteq Command
  OBVIOUS
<1>1. Elements(queue) \subseteq Command /\ Elements(todo) \subseteq Command
  BY ElementsInType DEF TypeOK
<1>2. Elements(outcomes) \subseteq Outcome
  BY ElementsInType DEF TypeOK
<1>3. \A o \in Elements(outcomes) : o.command \in Command
  BY <1>2 DEF Outcome
<1>4. stopping \subseteq Command /\ Elements(batch) \subseteq Command
  BY ElementsInType DEF TypeOK
<1> QED
  BY <1>1, <1>3, <1>4 DEF Unanswered

LEMMA AnswerType ==
    ASSUME TypeOK, NEW m \in SUBSET Command, NEW r \in Results, Answer(m, r)
    PROVE  /\ answers' \subseteq Command \X Results
           /\ pc' \in [Callers -> {"idle", "send", "reply"}]
BY DEF TypeOK, Answer

LEMMA TypeInit == Init => TypeOK
BY StoreAssumption DEF Init, TypeOK, Command, NoHeads

LEMMA TypeSubmit ==
    ASSUME TypeOK, NEW c \in Callers, NEW call \in Calls, Submit(c, call)
    PROVE  TypeOK'
<1>1. call \in Call
  BY StoreAssumption
<1>2. calls' \in Nat /\ calls' = calls + 1
  BY DEF Submit, TypeOK
<1>3. command' \in [Callers -> Command]
  BY <1>1, <1>2 DEF Submit, TypeOK, Command, Call
<1>4. answers' \subseteq Command \X Results
  BY <1>3 DEF Submit, TypeOK, Results
<1> QED
  BY <1>2, <1>3, <1>4 DEF Submit, TypeOK, disk, tx, seen

LEMMA TypeSend ==
    ASSUME TypeOK, NEW c \in Callers, Send(c)
    PROVE  TypeOK'
<1>1. command[c] \in Command
  BY DEF TypeOK
<1>2. queue' \in Seq(Command)
  <2>1. queue \in Seq(Command)
    BY DEF TypeOK
  <2> QED
    BY <1>1, <2>1 DEF Send
<1>3. pc' \in [Callers -> {"idle", "send", "reply"}]
  BY DEF Send, TypeOK
<1>4. answers' \subseteq Command \X Results
  BY <1>1 DEF Send, TypeOK, Results
<1> QED
  BY <1>2, <1>3, <1>4 DEF TypeOK, Send, disk, tx, seen

LEMMA TypeTakeBatch ==
    ASSUME TypeOK, TakeBatch
    PROVE  TypeOK'
<1>1. TakenLength \in 0 .. Len(queue)
  BY StoreAssumption DEF TypeOK, TakenLength
<1>2. batch' = SubSeq(queue, 1, TakenLength) /\ queue' = SubSeq(queue, TakenLength + 1, Len(queue))
  BY DEF TakeBatch
<1>3. batch' \in Seq(Command) /\ queue' \in Seq(Command)
  BY <1>1, <1>2 DEF TypeOK
<1>4. receiving' \in BOOLEAN
  BY DEF TakeBatch
<1> QED
  BY <1>3, <1>4 DEF TakeBatch, TypeOK, disk, seen, history

LEMMA TypeSortCommand ==
    ASSUME TypeOK, SortCommand
    PROVE  TypeOK'
<1>1. Head(batch) \in Command /\ Tail(batch) \in Seq(Command)
  BY DEF SortCommand, TypeOK
<1>2. todo' \in Seq(Command)
  <2>1. todo \in Seq(Command) /\ (todo' = todo \/ todo' = Append(todo, Head(batch)))
    BY DEF SortCommand, TypeOK
  <2> QED
    BY <1>1, <2>1
<1>4. stopping' \subseteq Command
  BY <1>1 DEF SortCommand, TypeOK
<1>3. /\ answers' \subseteq Command \X Results
      /\ pc' \in [Callers -> {"idle", "send", "reply"}]
  BY <1>1, AnswerType DEF SortCommand, TypeOK, Results
<1> QED
  BY <1>1, <1>2, <1>3, <1>4 DEF SortCommand, TypeOK, disk, seen

LEMMA TypeBegin ==
    ASSUME TypeOK, Begin
    PROVE  TypeOK'
BY DEF Begin, TypeOK, disk, handle, seen, history

LEMMA TypeInsertEvent ==
    ASSUME TypeOK, InsertEvent
    PROVE  TypeOK'
<1> DEFINE s == Head(todo).streams[Len(stored) + 1]
<1>0. todo \in Seq(Command) /\ todo # <<>> /\ stored \in Seq(Row)
      /\ Len(stored) < Len(Head(todo).streams)
  BY DEF TypeOK, InsertEvent
<1>1. Head(todo) \in Command /\ s \in Streams
  <2>1. Head(todo) \in Command
    BY <1>0
  <2>2. Head(todo).streams \in Seq(Streams)
    BY <2>1 DEF Command
  <2> QED
    BY <1>0, <2>1, <2>2
<1>2. PICK h \in {0, heads[s]} \union {e.stream_seq : e \in work} :
          /\ work' = work \union {NewRow(s, h)}
          /\ heads' = [heads EXCEPT ![s] = h + 1]
          /\ stored' = Append(stored, NewRow(s, h))
  BY DEF InsertEvent
<1>3. h \in Nat
  BY <1>1, <1>2 DEF TypeOK, Row
<1>4. NewRow(s, h) \in Row
  <2> HIDE DEF s
  <2>1. Head(todo).id \in Nat
    BY <1>1 DEF Command
  <2>2. workIssued + 1 \in Nat
    BY DEF TypeOK
  <2> QED
    BY <1>1, <1>3, <2>1, <2>2 DEF NewRow, NextSeq, Row
<1> HIDE DEF s
<1>5. work' \subseteq Row
  BY <1>2, <1>4 DEF TypeOK
<1>7. heads' \in [Streams -> Nat]
  BY <1>1, <1>2, <1>3 DEF TypeOK
<1>8. workIssued' \in Nat
  BY DEF TypeOK, InsertEvent, NextSeq
<1>6. stored' \in Seq(Row)
  BY <1>0, <1>2, <1>4
<1> QED
  BY <1>5, <1>6, <1>7, <1>8 DEF TypeOK, InsertEvent, disk, handle, seen, history

LEMMA TypeEndCommand ==
    ASSUME TypeOK, todo # <<>>, NEW R \in SUBSET Row, NEW ok \in BOOLEAN, NEW result \in Seq(Row),
           workIssued' \in Nat, heads' \in [Streams -> Nat], EndCommand(R, ok, result)
    PROVE  TypeOK'
<1>1. Head(todo) \in Command /\ Tail(todo) \in Seq(Command)
  BY DEF TypeOK
<1>2. [command |-> Head(todo), ok |-> ok, stored |-> result] \in Outcome
  BY <1>1 DEF Outcome
<1> QED
  BY <1>1, <1>2 DEF TypeOK, EndCommand, disk, handle, seen, history

LEMMA TypeFinishAppend ==
    ASSUME TypeOK, FinishAppend
    PROVE  TypeOK'
<1>1. Trimmed(work, Elements(Head(todo).streams), Head(todo).keep) \in SUBSET Row
  BY DEF Trimmed, TypeOK
<1> QED
  BY <1>1, TypeEndCommand DEF FinishAppend, TypeOK

LEMMA TypeApplyDelete ==
    ASSUME TypeOK, ApplyDelete
    PROVE  TypeOK'
<1> DEFINE gone == Elements(Head(todo).streams)
<1>1. {e \in work : e.stream \notin gone} \in SUBSET Row
  BY DEF TypeOK
<1>2. heads' \in [Streams -> Nat] /\ workIssued' \in Nat
  BY DEF ApplyDelete, TypeOK
<1>3. todo # <<>> /\ EndCommand({e \in work : e.stream \notin gone}, TRUE, <<>>)
  BY DEF ApplyDelete
<1>4. <<>> \in Seq(Row)
  OBVIOUS
<1> HIDE DEF gone
<1> QED
  BY <1>1, <1>2, <1>3, <1>4, TypeEndCommand

LEMMA TypeFailCommand ==
    ASSUME TypeOK, FailCommand
    PROVE  TypeOK'
<1>3. <<>> \in Seq(Row)
  OBVIOUS
<1>1. todo # <<>> /\ EndCommand(savedRows, FALSE, <<>>) /\ savedRows \in SUBSET Row
  BY DEF FailCommand, RowsAfterFailure, TypeOK
<1>2. workIssued' \in Nat /\ heads' \in [Streams -> Nat]
  BY DEF FailCommand, HeadsAfterFailure, TypeOK, NoHeads
<1> QED
  BY <1>1, <1>2, <1>3, TypeEndCommand

LEMMA TypeCommit ==
    ASSUME TypeOK, Commit
    PROVE  TypeOK'
<1>1. Elements(outcomes) \subseteq Outcome
  BY ElementsInType DEF TypeOK
<1>2. \A o \in Elements(outcomes) : Elements(o.stored) \subseteq Row
  BY <1>1, ElementsInType DEF Outcome
<1>3. ever' \subseteq Row
  BY <1>2 DEF Commit, TypeOK
<1> QED
  BY <1>3 DEF Commit, TypeOK, handle, tx, seen

LEMMA TypeWriterEnds ==
    ASSUME TypeOK, NEW state \in {"stopped", "died"}, NEW m \in SUBSET Command,
           NEW r \in Results, heads' \in [Streams -> Nat], WriterEnds(state, m, r)
    PROVE  TypeOK'
<1>1. answers' \subseteq Command \X Results
  BY UnansweredType DEF WriterEnds, TypeOK, Results
<1>2. pc' \in [Callers -> {"idle", "send", "reply"}]
  BY DEF WriterEnds, TypeOK
<1>3. /\ queue' \in Seq(Command) /\ batch' \in Seq(Command) /\ todo' \in Seq(Command)
      /\ stored' \in Seq(Row) /\ outcomes' \in Seq(Outcome)
  BY DEF WriterEnds
<1> QED
  BY <1>1, <1>2, <1>3 DEF WriterEnds, TypeOK, disk, seen

LEMMA TypeCommitFails ==
    ASSUME TypeOK, CommitFails
    PROVE  TypeOK'
<1>0. Elements(outcomes) \subseteq Outcome
  BY ElementsInType DEF TypeOK
<1>1. {o.command : o \in Elements(outcomes)} \in SUBSET Command
  BY <1>0 DEF Outcome
<1> QED
  BY <1>1, TypeWriterEnds DEF CommitFails, TypeOK, Results, NoHeads

LEMMA TypeTransactionFails ==
    ASSUME TypeOK, TransactionFails
    PROVE  TypeOK'
BY TypeWriterEnds DEF TransactionFails, TypeOK, Results

LEMMA TypePublishEvent ==
    ASSUME TypeOK, PublishEvent
    PROVE  TypeOK'
<1> DEFINE o    == Head(outcomes)
           rest == [command |-> o.command, ok |-> o.ok, stored |-> Tail(o.stored)]
<1>1. o \in Outcome /\ Tail(outcomes) \in Seq(Outcome)
  BY DEF PublishEvent, TypeOK
<1>2. o.stored \in Seq(Row) /\ o.stored # <<>>
  BY <1>1 DEF PublishEvent, Outcome
<1>3. Head(o.stored) \in Row /\ Tail(o.stored) \in Seq(Row)
  BY <1>2
<1>4. rest \in Outcome
  BY <1>1, <1>3 DEF Outcome
<1>5. /\ lastSeq' = Head(o.stored).seq
      /\ feed' = Append(feed, Head(o.stored))
      /\ outcomes' = <<rest>> \o Tail(outcomes)
  BY DEF PublishEvent, NextToPublish
<1> HIDE DEF rest, o
<1>6. outcomes' \in Seq(Outcome)
  BY <1>1, <1>4, <1>5
<1>7. lastSeq' \in Nat
  BY <1>3, <1>5 DEF Row
<1>8. feed' \in Seq(Row)
  <2>1. feed \in Seq(Row)
    BY DEF TypeOK
  <2> QED
    BY <1>3, <1>5, <2>1
<1> QED
  BY <1>6, <1>7, <1>8 DEF PublishEvent, TypeOK, disk, handle, history

LEMMA TypeReply ==
    ASSUME TypeOK, Reply
    PROVE  TypeOK'
<1>1. Head(outcomes) \in Outcome /\ Tail(outcomes) \in Seq(Outcome)
  BY DEF Reply, TypeOK
<1>2. Head(outcomes).command \in Command
  BY <1>1 DEF Outcome
<1>3. /\ answers' \subseteq Command \X Results
      /\ pc' \in [Callers -> {"idle", "send", "reply"}]
  BY <1>2, AnswerType DEF Reply, ResultOf, Results
<1> QED
  BY <1>1, <1>3 DEF Reply, TypeOK, disk, seen

LEMMA TypeFinishBatch ==
    ASSUME TypeOK, FinishBatch
    PROVE  TypeOK'
BY DEF FinishBatch, TypeOK, disk, handle, tx, seen, history, NoHeads

LEMMA TypeStop ==
    ASSUME TypeOK, Stop
    PROVE  TypeOK'
BY TypeWriterEnds DEF Stop, TypeOK, Results

LEMMA TypeRestart ==
    ASSUME TypeOK, Restart
    PROVE  TypeOK'
BY DEF Restart, TypeOK, disk, NoHeads

LEMMA TypeStep == TypeOK /\ [Next]_vars => TypeOK'
<1>1. ASSUME TypeOK, Next PROVE TypeOK'
  BY <1>1, TypeSubmit, TypeSend, TypeTakeBatch, TypeSortCommand, TypeBegin, TypeInsertEvent, TypeFinishAppend,
     TypeApplyDelete, TypeFailCommand, TypeCommit, TypeCommitFails, TypeTransactionFails,
     TypePublishEvent, TypeReply, TypeFinishBatch, TypeStop, TypeRestart
  DEF Next, WriterStep
<1>2. TypeOK /\ UNCHANGED vars => TypeOK'
  BY DEF TypeOK, vars, disk, handle, tx, seen, history
<1> QED
  BY <1>1, <1>2

(* Every variable keeps its type, whatever the callers do and whenever the process is killed. *)
THEOREM TypeInvariant == Spec => []TypeOK
BY TypeInit, TypeStep, PTL DEF Spec

-----------------------------------------------------------------------------
(* Lemmas about tables: what an insert, a delete, and a trim keep. *)

LEMMA InsertKeepsForm ==
    ASSUME NEW R \in SUBSET Row, NEW s \in Streams, NEW h \in Nat, NEW r \in Row,
           Log!WellFormed(R), IsHead(R, s, h),
           r.stream = s, r.stream_seq = h + 1, \A e \in R : e.seq < r.seq
    PROVE  /\ Log!WellFormed(R \union {r})
           /\ IsHead(R \union {r}, s, h + 1)
           /\ \A t \in Streams : \A k \in Nat :
                 t # s /\ IsHead(R, t, k) => IsHead(R \union {r}, t, k)
<1> DEFINE Q == R \union {r}
<1>1. \A e \in R : e.seq \in Nat /\ e.stream_seq \in Nat
  BY DEF Row
<1>2. r.seq \in Nat
  BY DEF Row
<1>3. \A e \in R : e.stream = s => e.stream_seq <= h
  BY DEF IsHead
<1>4. Log!SeqsDistinct(Q)
  BY <1>1, <1>2 DEF Log!WellFormed, Log!SeqsDistinct
<1>5. Log!PositionsOrdered(Q)
  BY <1>1, <1>2, <1>3 DEF Log!WellFormed, Log!PositionsOrdered
<1>6. Log!PositionsContiguous(Q)
  <2> SUFFICES ASSUME NEW e \in Q, NEW f \in Q, e.stream = f.stream,
                      NEW n \in e.stream_seq .. f.stream_seq
               PROVE  \E g \in Q : g.stream = e.stream /\ g.stream_seq = n
    BY DEF Log!PositionsContiguous
  <2>1. CASE e \in R /\ f \in R
    BY <2>1 DEF Log!WellFormed, Log!PositionsContiguous
  <2>2. CASE f = r /\ n = h + 1
    BY <2>2
  <2>3. CASE f = r /\ e \in R /\ n # h + 1
    <3>1. PICK g \in R : g.stream = s /\ g.stream_seq = h
      BY <2>3 DEF IsHead
    <3>2. n \in e.stream_seq .. g.stream_seq
      BY <1>1, <2>3, <3>1
    <3> QED
      BY <2>3, <3>1, <3>2 DEF Log!WellFormed, Log!PositionsContiguous
  <2>4. CASE f = r /\ e = r
    BY <2>4
  <2>5. CASE e = r /\ f \in R
    BY <1>1, <1>3, <2>5
  <2> QED
    BY <2>1, <2>2, <2>3, <2>4, <2>5
<1>7. IsHead(Q, s, h + 1)
  BY <1>1, <1>3 DEF IsHead
<1>8. ASSUME NEW t \in Streams, NEW k \in Nat, t # s, IsHead(R, t, k)
      PROVE  IsHead(Q, t, k)
  BY <1>8 DEF IsHead
<1> QED
  BY <1>4, <1>5, <1>6, <1>7, <1>8 DEF Log!WellFormed

(* Dropping whole streams, and every stream's rows up to a position, keeps the form. *)
LEMMA CutKeepsForm ==
    ASSUME NEW R \in SUBSET Row, NEW Q \in SUBSET R, Log!WellFormed(R),
           \A e \in Q, f \in R : e.stream = f.stream /\ e.stream_seq <= f.stream_seq => f \in Q
    PROVE  Log!WellFormed(Q)
<1>1. \A e \in R : e.stream_seq \in Nat
  BY DEF Row
<1>2. Log!SeqsDistinct(Q) /\ Log!PositionsOrdered(Q)
  BY DEF Log!WellFormed, Log!SeqsDistinct, Log!PositionsOrdered
<1>3. Log!PositionsContiguous(Q)
  <2> SUFFICES ASSUME NEW e \in Q, NEW f \in Q, e.stream = f.stream,
                      NEW n \in e.stream_seq .. f.stream_seq
               PROVE  \E g \in Q : g.stream = e.stream /\ g.stream_seq = n
    BY DEF Log!PositionsContiguous
  <2>1. PICK g \in R : g.stream = e.stream /\ g.stream_seq = n
    BY DEF Log!WellFormed, Log!PositionsContiguous
  <2>2. e.stream_seq <= g.stream_seq
    BY <1>1, <2>1
  <2> QED
    BY <2>1, <2>2
<1> QED
  BY <1>2, <1>3 DEF Log!WellFormed

LEMMA TrimKeepsForm ==
    ASSUME TypeOK, NEW S, NEW keep \in Nat, Log!WellFormed(work), HeadsAgree, writer = "apply"
    PROVE  /\ Log!WellFormed(Trimmed(work, S, keep))
           /\ \A s \in Streams : heads[s] # 0 => IsHead(Trimmed(work, S, keep), s, heads[s])
<1> DEFINE Q == Trimmed(work, S, keep)
<1>1. work \in SUBSET Row /\ heads \in [Streams -> Nat]
  BY DEF TypeOK
<1>2. \A e \in work : e.stream \in Streams /\ e.stream_seq \in Nat /\ heads[e.stream] \in Nat
  BY <1>1 DEF Row
<1>3. Log!WellFormed(Q)
  <2>1. Q \in SUBSET work
    BY DEF Trimmed
  <2>2. \A e \in Q, f \in work : e.stream = f.stream /\ e.stream_seq <= f.stream_seq => f \in Q
    BY <1>2 DEF Trimmed
  <2> HIDE DEF Q
  <2> QED
    BY <1>1, <2>1, <2>2, CutKeepsForm
<1>4. ASSUME NEW s \in Streams, heads[s] # 0
      PROVE  IsHead(Q, s, heads[s])
  <2>1. IsHead(work, s, heads[s]) /\ heads[s] \in Nat
    BY <1>1, <1>4 DEF HeadsAgree
  <2>2. PICK e \in work : e.stream = s /\ e.stream_seq = heads[s]
    BY <1>4, <2>1 DEF IsHead
  <2>3. e \in Q
    BY <2>1, <2>2 DEF Trimmed
  <2>4. \A f \in Q : f.stream = s => f.stream_seq <= heads[s]
    BY <1>4, <2>1 DEF IsHead, Trimmed
  <2> HIDE DEF Q
  <2> QED
    BY <2>2, <2>3, <2>4 DEF IsHead
<1> QED
  BY <1>3, <1>4

LEMMA EmptyForm == Log!WellFormed({})
BY DEF Log!WellFormed, Log!SeqsDistinct, Log!PositionsOrdered, Log!PositionsContiguous

(* What the elements of a sequence become when it grows and when it shrinks. *)
LEMMA ElementsAppend ==
    ASSUME NEW S, NEW q \in Seq(S), NEW x \in S
    PROVE  Elements(Append(q, x)) = Elements(q) \union {x}
<1> DEFINE p == Append(q, x)
<1>1. p \in Seq(S) /\ DOMAIN p = 1 .. Len(q) + 1 /\ DOMAIN q = 1 .. Len(q) /\ Len(q) \in Nat
  OBVIOUS
<1>2. (\A i \in 1 .. Len(q) : p[i] = q[i]) /\ p[Len(q) + 1] = x
  OBVIOUS
<1> HIDE DEF p
<1>3. Elements(p) \subseteq Elements(q) \union {x}
  BY <1>1, <1>2 DEF Elements
<1>4. \A i \in DOMAIN q : q[i] \in Elements(p)
  BY <1>1, <1>2 DEF Elements
<1>5. x \in Elements(p)
  BY <1>1, <1>2 DEF Elements
<1> QED
  BY <1>3, <1>4, <1>5 DEF Elements, p

LEMMA ElementsTail ==
    ASSUME NEW S, NEW q \in Seq(S), q # <<>>
    PROVE  Elements(Tail(q)) \subseteq Elements(q)
BY DEF Elements

LEMMA ElementsEmpty == Elements(<<>>) = {}
BY DEF Elements

-----------------------------------------------------------------------------
(* The inductive invariant, one action at a time. *)

LEMMA InductiveInit == Init => Inductive
BY EmptyForm DEF Init, Inductive, OutsideTransaction, InsideTransaction, Committed,
   HeadsAgree, SeqNeverReused, NoHeads

(* Steps that leave the table, the transaction, and the cache alone. *)
LEMMA InductiveIdle ==
    ASSUME Inductive,
           UNCHANGED <<rows, issued, todo, work, workIssued, savedRows, savedIssued, stored,
                       outcomes, heads, ever>>,
           \/ writer' = writer
           \/ writer = "idle" /\ writer' = "sort"
           \/ writer = "publish" /\ writer' = "idle" /\ outcomes = <<>>
    PROVE  Inductive'
BY DEF Inductive, OutsideTransaction, InsideTransaction, Committed, HeadsAgree, SeqNeverReused, Kept

LEMMA InductiveSortCommand ==
    ASSUME TypeOK, Inductive, SortCommand
    PROVE  Inductive'
BY DEF SortCommand, Inductive, OutsideTransaction, InsideTransaction, Committed, HeadsAgree,
   SeqNeverReused, seen, disk

LEMMA InductiveBegin ==
    ASSUME TypeOK, Inductive, Begin
    PROVE  Inductive'
<1>1. rows' = rows /\ issued' = issued /\ ever' = ever /\ heads' = heads /\ stored' = stored
      /\ outcomes' = outcomes /\ work' = rows /\ workIssued' = issued /\ savedRows' = rows
      /\ savedIssued' = issued /\ writer = "sort" /\ writer' = "apply"
  BY DEF Begin, disk, history
<1>2. work = rows /\ outcomes = <<>> /\ stored = <<>>
  BY <1>1 DEF Inductive, OutsideTransaction
<1>3. Kept' = {} /\ Elements(stored') = {}
  BY <1>1, <1>2, ElementsEmpty DEF Kept
<1>4. InsideTransaction'
  BY <1>1, <1>2, <1>3 DEF InsideTransaction, Inductive, Committed, Log!SeqsDistinct, TypeOK
<1> QED
  BY <1>1, <1>2, <1>4 DEF Inductive, OutsideTransaction, Committed, HeadsAgree, SeqNeverReused

LEMMA InductiveInsertEvent ==
    ASSUME TypeOK, Inductive, InsertEvent
    PROVE  Inductive'
<1> DEFINE s == Head(todo).streams[Len(stored) + 1]
<1>0. todo \in Seq(Command) /\ todo # <<>> /\ stored \in Seq(Row) /\ Head(todo).op = "append"
      /\ Len(stored) < Len(Head(todo).streams)
  BY DEF TypeOK, InsertEvent
<1>1. Head(todo) \in Command /\ s \in Streams
  <2>1. Head(todo) \in Command
    BY <1>0
  <2>2. Head(todo).streams \in Seq(Streams)
    BY <2>1 DEF Command
  <2> QED
    BY <1>0, <2>1, <2>2
<1>2. PICK h \in {0, heads[s]} \union {e.stream_seq : e \in work} :
          /\ ContinuesFrom(s, h)
          /\ work' = work \union {NewRow(s, h)}
          /\ heads' = [heads EXCEPT ![s] = h + 1]
          /\ stored' = Append(stored, NewRow(s, h))
  BY DEF InsertEvent
<1>3. h \in Nat
  BY <1>1, <1>2 DEF TypeOK, Row
<1>4. /\ writer = "apply" /\ writer' = "apply" /\ workIssued' = workIssued + 1
      /\ rows' = rows /\ issued' = issued /\ ever' = ever /\ todo' = todo
      /\ savedRows' = savedRows /\ savedIssued' = savedIssued /\ outcomes' = outcomes
  BY DEF InsertEvent, NextSeq, disk, history
<1> HIDE DEF s
<1> DEFINE r == NewRow(s, h)
<1>5. r \in Row /\ r.seq = workIssued + 1 /\ r.stream = s /\ r.stream_seq = h + 1
  <2>1. Head(todo).id \in Nat /\ workIssued + 1 \in Nat
    <3>1. Head(todo).id \in Nat
      BY <1>1 DEF Command
    <3> QED
      BY <3>1 DEF TypeOK
  <2> QED
    BY <1>1, <1>3, <2>1 DEF NewRow, NextSeq, Row
<1>6. work \in SUBSET Row /\ workIssued \in Nat /\ issued \in Nat /\ savedIssued \in Nat
      /\ heads \in [Streams -> Nat] /\ rows \subseteq Row
  BY DEF TypeOK
<1>7. IsHead(work, s, h)
  BY <1>1, <1>2, <1>4 DEF ContinuesFrom, Inductive, HeadsAgree
<1>8. InsideTransaction /\ HeadsAgree /\ Committed /\ SeqNeverReused
  BY DEF Inductive
<1>9. Elements(stored') = Elements(stored) \union {r} /\ Kept' = Kept
  BY <1>0, <1>2, <1>4, <1>5, ElementsAppend DEF Kept
<1>10. \A e \in work : e.seq < r.seq
  <2>1. \A e \in rows : e.seq \in Nat /\ e.seq <= issued
    BY <1>6, <1>8 DEF Committed, Row
  <2>2. \A e \in Kept : e.seq <= savedIssued
    BY <1>4, <1>8 DEF InsideTransaction
  <2>3. \A e \in Elements(stored) : e.seq <= workIssued
    BY <1>4, <1>8 DEF InsideTransaction
  <2>4. issued <= savedIssued /\ savedIssued <= workIssued /\ work \subseteq rows \union Kept \union Elements(stored)
    BY <1>4, <1>8 DEF InsideTransaction
  <2>5. \A e \in work : e.seq \in Nat
    BY <1>6 DEF Row
  <2> QED
    BY <1>5, <1>6, <2>1, <2>2, <2>3, <2>4, <2>5
<1>11. /\ Log!WellFormed(work')
       /\ IsHead(work', s, h + 1)
       /\ \A t \in Streams : \A k \in Nat : t # s /\ IsHead(work, t, k) => IsHead(work', t, k)
  <2>1. Log!WellFormed(work)
    BY <1>4, <1>8 DEF InsideTransaction
  <2> QED
    BY <1>1, <1>2, <1>3, <1>5, <1>6, <1>7, <1>10, <2>1, InsertKeepsForm
<1>12. HeadsAgree'
  <2>1. \A t \in Streams : heads[t] \in Nat /\ heads'[t] = IF t = s THEN h + 1 ELSE heads[t]
    BY <1>1, <1>2, <1>6
  <2>2. \A t \in Streams : heads[t] # 0 => IsHead(work, t, heads[t])
    BY <1>4, <1>8 DEF HeadsAgree
  <2> QED
    BY <1>11, <2>1, <2>2 DEF HeadsAgree
<1>13. InsideTransaction'
  <2>1. \A e \in Elements(stored') : savedIssued < e.seq /\ e.seq <= workIssued'
    <3>1. Elements(stored) \subseteq Row
      BY <1>0, ElementsInType
    <3>2. \A e \in Elements(stored) : e.seq \in Nat
      BY <3>1 DEF Row
    <3> QED
      BY <1>4, <1>5, <1>6, <1>8, <1>9, <3>2 DEF InsideTransaction
  <2>2. Log!SeqsDistinct(Elements(stored'))
    <3>1. Elements(stored) \subseteq Row
      BY <1>0, ElementsInType
    <3>2. \A e \in Elements(stored) : e.seq \in Nat
      BY <3>1 DEF Row
    <3> QED
      BY <1>4, <1>5, <1>6, <1>8, <1>9, <3>2 DEF InsideTransaction, Log!SeqsDistinct
  <2>3. work' \subseteq rows' \union Kept' \union Elements(stored')
    BY <1>2, <1>4, <1>8, <1>9 DEF InsideTransaction
  <2>4. issued' <= savedIssued' /\ savedIssued' <= workIssued'
    BY <1>4, <1>6, <1>8 DEF InsideTransaction
  <2>5. stored' # <<>> => todo' # <<>> /\ Head(todo').op = "append"
    BY <1>0, <1>4
  <2>6. /\ savedRows' \subseteq rows' \union Kept'
        /\ \A e \in Kept' : issued' < e.seq /\ e.seq <= savedIssued'
        /\ Log!SeqsDistinct(Kept') /\ Log!WellFormed(savedRows')
    BY <1>4, <1>8, <1>9 DEF InsideTransaction
  <2> QED
    BY <1>4, <1>11, <2>1, <2>2, <2>3, <2>4, <2>5, <2>6 DEF InsideTransaction
<1> QED
  BY <1>4, <1>8, <1>12, <1>13 DEF Inductive, OutsideTransaction, Committed, SeqNeverReused

(***************************************************************************)
(* A command ends: R is what its savepoint keeps, made of rows that were   *)
(* committed or inserted by commands that ended, this one included.        *)
(***************************************************************************)
LEMMA InductiveEndCommand ==
    ASSUME TypeOK, Inductive, writer = "apply", todo # <<>>, NEW R \in SUBSET Row,
           NEW ok \in BOOLEAN, NEW result \in Seq(Row), EndCommand(R, ok, result),
           result \in {<<>>, stored},
           R \subseteq rows \union Kept \union Elements(result),
           \/ workIssued' = workIssued
           \/ workIssued' = savedIssued /\ result = <<>>,
           Log!WellFormed(R),
           \A s \in Streams : heads'[s] # 0 => IsHead(R, s, heads'[s])
    PROVE  Inductive'
<1> DEFINE o == [command |-> Head(todo), ok |-> ok, stored |-> result]
<1>1. /\ writer' = writer /\ rows' = rows /\ issued' = issued /\ ever' = ever
      /\ work' = R /\ savedRows' = R /\ savedIssued' = workIssued' /\ stored' = <<>>
      /\ outcomes' = Append(outcomes, o)
  BY DEF EndCommand, disk, history
<1>2. o \in Outcome /\ o.stored = result
  <2>1. Head(todo) \in Command
    BY DEF TypeOK
  <2> QED
    BY <2>1 DEF Outcome
<1> HIDE DEF o
<1>3. Kept' = Kept \union Elements(result)
  <2>1. outcomes \in Seq(Outcome)
    BY DEF TypeOK
  <2>2. Elements(outcomes') = Elements(outcomes) \union {o}
    BY <1>1, <1>2, <2>1, ElementsAppend
  <2> QED
    BY <1>2, <2>2 DEF Kept
<1>4. InsideTransaction /\ Committed /\ SeqNeverReused
  BY DEF Inductive
<1>5. issued \in Nat /\ savedIssued \in Nat /\ workIssued \in Nat
  BY DEF TypeOK
<1>6. issued <= savedIssued /\ savedIssued <= workIssued
  BY <1>4 DEF InsideTransaction
<1>7. \A e \in Elements(result) : e.seq \in Nat /\ savedIssued < e.seq /\ e.seq <= workIssued'
  <2>1. CASE result = <<>>
    BY <2>1, ElementsEmpty
  <2>2. CASE result = stored /\ workIssued' = workIssued
    <3>1. Elements(stored) \subseteq Row
      BY ElementsInType DEF TypeOK
    <3>2. \A e \in Elements(stored) : savedIssued < e.seq /\ e.seq <= workIssued
      BY <1>4 DEF InsideTransaction
    <3> QED
      BY <2>2, <3>1, <3>2 DEF Row
  <2> QED
    BY <2>1, <2>2
<1>8. \A e \in Kept : e.seq \in Nat /\ issued < e.seq /\ e.seq <= savedIssued
  <2>1. Kept \subseteq Row
    <3>1. Elements(outcomes) \subseteq Outcome
      BY ElementsInType DEF TypeOK
    <3>2. \A p \in Elements(outcomes) : Elements(p.stored) \subseteq Row
      BY <3>1, ElementsInType DEF Outcome
    <3> QED
      BY <3>2 DEF Kept
  <2> QED
    BY <1>4, <2>1 DEF InsideTransaction, Row
<1>9. issued <= workIssued' /\ savedIssued <= workIssued' /\ workIssued' \in Nat
  BY <1>5, <1>6
<1>10. \A e \in Kept' : issued < e.seq /\ e.seq <= workIssued'
  BY <1>3, <1>5, <1>6, <1>7, <1>8, <1>9
<1>11. Log!SeqsDistinct(Elements(result))
  <2>1. CASE result = <<>>
    BY <2>1, ElementsEmpty DEF Log!SeqsDistinct
  <2>2. CASE result = stored
    BY <1>4, <2>2 DEF InsideTransaction
  <2> QED
    BY <2>1, <2>2
<1>12. Log!SeqsDistinct(Kept')
  <2>1. Log!SeqsDistinct(Kept)
    BY <1>4 DEF InsideTransaction
  <2> QED
    BY <1>3, <1>5, <1>7, <1>8, <1>11, <2>1 DEF Log!SeqsDistinct
<1>13. InsideTransaction'
  BY <1>1, <1>3, <1>9, <1>10, <1>12, ElementsEmpty DEF InsideTransaction, Log!SeqsDistinct
<1>14. HeadsAgree'
  BY <1>1 DEF HeadsAgree
<1> QED
  BY <1>1, <1>4, <1>13, <1>14 DEF Inductive, OutsideTransaction, Committed, SeqNeverReused

LEMMA InductiveFinishAppend ==
    ASSUME TypeOK, Inductive, FinishAppend
    PROVE  Inductive'
<1> DEFINE S    == Elements(Head(todo).streams)
           keep == Head(todo).keep
           R    == Trimmed(work, S, keep)
<1>1. /\ writer = "apply" /\ todo # <<>> /\ workIssued' = workIssued /\ heads' = heads
      /\ EndCommand(R, TRUE, stored)
  BY DEF FinishAppend
<1>2. keep \in Nat
  <2>1. Head(todo) \in Command
    BY <1>1 DEF TypeOK
  <2> QED
    BY <2>1 DEF Command
<1>3. InsideTransaction /\ HeadsAgree
  BY DEF Inductive
<1>4. Log!WellFormed(work)
  BY <1>1, <1>3 DEF InsideTransaction
<1> HIDE DEF S, keep
<1>5. Log!WellFormed(R) /\ \A s \in Streams : heads[s] # 0 => IsHead(R, s, heads[s])
  BY <1>1, <1>2, <1>3, <1>4, TrimKeepsForm
<1>6. R \subseteq work /\ R \in SUBSET Row
  BY DEF Trimmed, TypeOK
<1> HIDE DEF R
<1>7. R \subseteq rows \union Kept \union Elements(stored) /\ stored \in Seq(Row)
  BY <1>1, <1>3, <1>6 DEF InsideTransaction, TypeOK
<1> QED
  BY <1>1, <1>5, <1>6, <1>7, InductiveEndCommand

LEMMA InductiveApplyDelete ==
    ASSUME TypeOK, Inductive, ApplyDelete
    PROVE  Inductive'
<1> DEFINE gone == Elements(Head(todo).streams)
           R    == {e \in work : e.stream \notin gone}
<1>1. /\ writer = "apply" /\ todo # <<>> /\ Head(todo).op = "delete" /\ workIssued' = workIssued
      /\ heads' = [s \in Streams |-> IF s \in gone THEN 0 ELSE heads[s]]
      /\ EndCommand(R, TRUE, <<>>)
  BY DEF ApplyDelete
<1>2. InsideTransaction /\ HeadsAgree /\ work \in SUBSET Row
  BY DEF Inductive, TypeOK
<1>3. Elements(stored) = {} /\ Elements(<<>>) = {}
  BY <1>1, <1>2, ElementsEmpty DEF InsideTransaction
<1> HIDE DEF gone
<1>4. R \in SUBSET work /\ \A e \in R, f \in work : e.stream = f.stream => f \in R
  OBVIOUS
<1>5. Log!WellFormed(R)
  <2>1. Log!WellFormed(work)
    BY <1>1, <1>2 DEF InsideTransaction
  <2> HIDE DEF R
  <2> QED
    BY <1>2, <1>4, <2>1, CutKeepsForm
<1>6. ASSUME NEW s \in Streams, heads'[s] # 0
      PROVE  IsHead(R, s, heads'[s])
  <2>1. s \notin gone /\ heads'[s] = heads[s] /\ heads[s] # 0
    BY <1>1, <1>6
  <2>2. {e \in R : e.stream = s} = {e \in work : e.stream = s}
    BY <2>1
  <2>3. IsHead(work, s, heads[s])
    BY <1>1, <1>2, <2>1 DEF HeadsAgree
  <2> HIDE DEF R
  <2> QED
    BY <2>1, <2>2, <2>3 DEF IsHead
<1>7. R \subseteq rows \union Kept \union Elements(<<>>) /\ R \in SUBSET Row
  BY <1>1, <1>2, <1>3, <1>4 DEF InsideTransaction
<1>8. <<>> \in Seq(Row)
  OBVIOUS
<1> HIDE DEF R
<1> QED
  BY <1>1, <1>5, <1>6, <1>7, <1>8, InductiveEndCommand

LEMMA InductiveFailCommand ==
    ASSUME TypeOK, Inductive, FailCommand
    PROVE  Inductive'
<1>1. /\ writer = "apply" /\ todo # <<>> /\ workIssued' = savedIssued /\ heads' = NoHeads
      /\ EndCommand(savedRows, FALSE, <<>>)
  BY DEF FailCommand, RowsAfterFailure, HeadsAfterFailure
<1>2. InsideTransaction /\ savedRows \in SUBSET Row
  BY DEF Inductive, TypeOK
<1>3. Log!WellFormed(savedRows) /\ savedRows \subseteq rows \union Kept \union Elements(<<>>)
  BY <1>1, <1>2 DEF InsideTransaction
<1>4. \A s \in Streams : heads'[s] # 0 => IsHead(savedRows, s, heads'[s])
  BY <1>1 DEF NoHeads
<1>5. <<>> \in Seq(Row)
  OBVIOUS
<1> QED
  BY <1>1, <1>2, <1>3, <1>4, <1>5, InductiveEndCommand

LEMMA InductiveCommit ==
    ASSUME TypeOK, Inductive, Commit
    PROVE  Inductive'
<1>1. /\ writer = "apply" /\ todo = <<>> /\ rows' = work /\ issued' = workIssued
      /\ ever' = ever \union work \union Kept /\ writer' = "publish" /\ stored' = stored
      /\ work' = work /\ workIssued' = workIssued /\ heads' = heads
  BY DEF Commit, tx, Kept
<1>2. InsideTransaction /\ Committed /\ HeadsAgree /\ SeqNeverReused
  BY DEF Inductive
<1>3. stored = <<>> /\ Elements(stored) = {}
  BY <1>1, <1>2, ElementsEmpty DEF InsideTransaction
<1>4. issued \in Nat /\ workIssued \in Nat /\ savedIssued \in Nat /\ \A e \in ever : e.seq \in Nat
  BY DEF TypeOK, Row
<1>5. issued <= savedIssued /\ savedIssued <= workIssued
  BY <1>1, <1>2 DEF InsideTransaction
<1>6. \A e \in Kept : e.seq \in Nat /\ issued < e.seq /\ e.seq <= savedIssued
  <2>1. Kept \subseteq Row
    <3>1. Elements(outcomes) \subseteq Outcome
      BY ElementsInType DEF TypeOK
    <3>2. \A p \in Elements(outcomes) : Elements(p.stored) \subseteq Row
      BY <3>1, ElementsInType DEF Outcome
    <3> QED
      BY <3>2 DEF Kept
  <2> QED
    BY <1>1, <1>2, <2>1 DEF InsideTransaction, Row
<1>10. work \subseteq ever \union Kept
  BY <1>1, <1>2, <1>3 DEF InsideTransaction, Committed
<1>11. ever' = ever \union Kept
  BY <1>1, <1>10
<1>7. Committed'
  <2>1. rows' \subseteq ever'
    BY <1>1, <1>2, <1>3 DEF InsideTransaction, Committed
  <2>2. \A e \in ever' : e.seq <= issued'
    BY <1>1, <1>2, <1>4, <1>5, <1>6, <1>11 DEF Committed
  <2>3. Log!WellFormed(rows')
    BY <1>1, <1>2 DEF InsideTransaction
  <2> QED
    BY <2>1, <2>2, <2>3 DEF Committed
<1>8. SeqNeverReused'
  <2>1. Log!SeqsDistinct(Kept) /\ \A e \in ever : e.seq <= issued
    BY <1>1, <1>2 DEF InsideTransaction, Committed
  <2> QED
    BY <1>1, <1>2, <1>4, <1>6, <1>11, <2>1 DEF SeqNeverReused, Log!SeqsDistinct
<1>9. HeadsAgree'
  BY <1>1, <1>2 DEF HeadsAgree
<1> QED
  BY <1>1, <1>3, <1>7, <1>8, <1>9 DEF Inductive, OutsideTransaction, InsideTransaction

LEMMA InductiveWriterEnds ==
    ASSUME Inductive, NEW state \in {"stopped", "died"}, NEW m, NEW r, WriterEnds(state, m, r)
    PROVE  Inductive'
BY DEF WriterEnds, Inductive, OutsideTransaction, InsideTransaction, Committed, HeadsAgree,
   SeqNeverReused, disk

LEMMA InductiveFinishBatch ==
    ASSUME TypeOK, Inductive, FinishBatch
    PROVE  Inductive'
BY DEF FinishBatch, Inductive, OutsideTransaction, InsideTransaction, Committed, HeadsAgree,
   SeqNeverReused, disk, tx, history, NoHeads

LEMMA InductivePublish ==
    ASSUME TypeOK, Inductive, PublishEvent \/ Reply
    PROVE  Inductive'
BY DEF PublishEvent, Reply, Inductive, OutsideTransaction, InsideTransaction, Committed,
   HeadsAgree, SeqNeverReused, disk, history

LEMMA InductiveRestart ==
    ASSUME TypeOK, Inductive, Restart
    PROVE  Inductive'
BY DEF Restart, Inductive, OutsideTransaction, InsideTransaction, Committed, HeadsAgree,
   SeqNeverReused, disk, NoHeads

LEMMA InductiveStep == TypeOK /\ Inductive /\ [Next]_vars => Inductive'
<1> SUFFICES ASSUME TypeOK, Inductive, [Next]_vars PROVE Inductive'
  OBVIOUS
<1>1. ASSUME NEW c \in Callers, NEW call \in Calls, Submit(c, call) PROVE Inductive'
  BY <1>1, InductiveIdle DEF Submit, disk, tx
<1>2. ASSUME NEW c \in Callers, Send(c) PROVE Inductive'
  BY <1>2, InductiveIdle DEF Send, disk, tx
<1>3. CASE TakeBatch
  BY <1>3, InductiveIdle DEF TakeBatch, disk, history
<1>4. CASE CommitFails \/ TransactionFails \/ Stop
  BY <1>4, InductiveWriterEnds DEF CommitFails, TransactionFails, Stop
<1>5. CASE UNCHANGED vars
  BY <1>5, InductiveIdle DEF vars, disk, tx, history
<1> QED
  BY <1>1, <1>2, <1>3, <1>4, <1>5, InductiveSortCommand, InductiveBegin, InductiveInsertEvent,
     InductiveFinishAppend, InductiveApplyDelete, InductiveFailCommand, InductiveCommit,
     InductivePublish, InductiveFinishBatch, InductiveRestart
  DEF Next, WriterStep

(* The inductive invariant holds of every behaviour of the store. *)
THEOREM InductiveInvariant == Spec => []Inductive
<1>1. Init => TypeOK /\ Inductive
  BY TypeInit, InductiveInit
<1>2. TypeOK /\ Inductive /\ [Next]_vars => (TypeOK /\ Inductive)'
  BY TypeStep, InductiveStep
<1> QED
  BY <1>1, <1>2, PTL DEF Spec

(* The writer's cache of heads never disagrees with the table it works on. *)
THEOREM CacheAuthoritative == Spec => []HeadsAgree
<1>1. Inductive => HeadsAgree
  BY DEF Inductive
<1> QED
  BY <1>1, InductiveInvariant, PTL

(* No sequence number is ever given to two rows. *)
THEOREM SeqUnique == Spec => []SeqNeverReused
<1>1. Inductive => SeqNeverReused
  BY DEF Inductive
<1> QED
  BY <1>1, InductiveInvariant, PTL

-----------------------------------------------------------------------------
(* The store implements its promises. *)

LEMMA RefineInit == Init => Log!Init
BY DEF Init, Log!Init

LEMMA RefineCommit ==
    ASSUME TypeOK, Inductive, Commit
    PROVE  Log!Next
<1>1. /\ writer = "apply" /\ todo = <<>> /\ rows' = work /\ issued' = workIssued
  BY DEF Commit
<1>2. InsideTransaction /\ work \subseteq Row
  BY DEF Inductive, TypeOK
<1>3. work \subseteq rows \union Kept
  BY <1>1, <1>2, ElementsEmpty DEF InsideTransaction
<1>4. issued \in Nat /\ workIssued \in Nat /\ savedIssued \in Nat
      /\ issued <= savedIssued /\ savedIssued <= workIssued
  BY <1>1, <1>2 DEF InsideTransaction, TypeOK
<1>5. \A e \in rows' \ rows : e \in Log!Row /\ e.seq > issued /\ e.seq <= issued'
  <2> SUFFICES ASSUME NEW e \in rows' \ rows
               PROVE  e \in Log!Row /\ e.seq > issued /\ e.seq <= issued'
    OBVIOUS
  <2>1. e \in Kept /\ e \in Row
    BY <1>1, <1>2, <1>3
  <2>2. e.seq \in Nat /\ e \in Log!Row
    BY <2>1 DEF Row, Log!Row
  <2>3. issued < e.seq /\ e.seq <= savedIssued
    BY <1>1, <1>2, <2>1 DEF InsideTransaction
  <2> QED
    BY <1>1, <1>4, <2>2, <2>3
<1>6. Log!WellFormed(rows')
  BY <1>1, <1>2 DEF InsideTransaction
<1> QED
  BY <1>1, <1>4, <1>5, <1>6 DEF Log!Next, Log!Commit

LEMMA RefineStep ==
    ASSUME TypeOK, Inductive, [Next]_vars
    PROVE  [Log!Next]_(Log!vars)
<1>1. CASE Commit
  BY <1>1, RefineCommit
<1>2. CASE UNCHANGED vars
  BY <1>2 DEF vars, disk, Log!vars
<1>3. ASSUME NEW c \in Callers, NEW call \in Calls, Submit(c, call) PROVE UNCHANGED <<rows, issued>>
  BY <1>3 DEF Submit, disk
<1>4. ASSUME NEW c \in Callers, Send(c) PROVE UNCHANGED <<rows, issued>>
  BY <1>4 DEF Send, disk
<1>5. CASE FinishAppend \/ ApplyDelete \/ FailCommand
  BY <1>5 DEF FinishAppend, ApplyDelete, FailCommand, EndCommand, disk, Log!vars
<1>6. CASE CommitFails \/ TransactionFails \/ Stop
  BY <1>6 DEF CommitFails, TransactionFails, Stop, WriterEnds, disk, Log!vars
<1>7. CASE TakeBatch \/ SortCommand \/ Begin \/ InsertEvent
  BY <1>7 DEF TakeBatch, SortCommand, Begin, InsertEvent, disk, Log!vars
<1>8. CASE PublishEvent \/ Reply \/ FinishBatch \/ Restart
  BY <1>8 DEF PublishEvent, Reply, FinishBatch, Restart, disk, Log!vars
<1> QED
  BY <1>1, <1>2, <1>3, <1>4, <1>5, <1>6, <1>7, <1>8 DEF Next, WriterStep, Log!vars

(* Whatever fails and whenever the process is killed, the table a reader sees changes only as
   EventLog lets it: atomically, above every number given before, gapless in each stream. *)
THEOREM StoreImplementsLog == Spec => LogSpec
<1>1. TypeOK /\ Inductive /\ [Next]_vars => [Log!Next]_(Log!vars)
  BY RefineStep
<1> QED
  BY <1>1, RefineInit, TypeInvariant, InductiveInvariant, PTL DEF Spec, LogSpec, Log!Spec

-----------------------------------------------------------------------------
(***************************************************************************)
(* The invariant behind FeedInOrder: the events a batch will publish are   *)
(* in the order of their numbers; what the feed holds is committed, in     *)
(* order, and ends at lastSeq; an event that was committed and is not to   *)
(* be published any more is in the feed, or older than what it begins with.*)
(***************************************************************************)
Ascending(q) == \A i, j \in DOMAIN q : i < j => q[i].seq < q[j].seq

BatchAscending ==
    /\ Ascending(stored)
    /\ \A i \in DOMAIN outcomes : Ascending(outcomes[i].stored)
    /\ \A i, j \in DOMAIN outcomes : i < j =>
          \A e \in Elements(outcomes[i].stored), f \in Elements(outcomes[j].stored) : e.seq < f.seq

Unpublished == IF writer = "publish" THEN Kept ELSE {}

FeedFollows ==
    /\ Elements(feed) \subseteq ever /\ Ascending(feed)
    /\ \A e \in Elements(feed) : e.seq <= lastSeq
    /\ lastSeq <= issued
    /\ Unpublished \subseteq ever /\ \A e \in Unpublished : lastSeq < e.seq
    /\ writer # "died" =>
          \A e \in ever \ Unpublished :
             /\ e.seq <= lastSeq
             /\ feed # <<>> /\ feed[1].seq <= e.seq => e \in Elements(feed)

FeedInv == BatchAscending /\ FeedFollows

(***************************************************************************)
(* The invariant behind AnswersAreTrue: a command is at one place, its     *)
(* caller waits for it, its number is its own, and no row bears the number *)
(* of a command that is not committed.                                     *)
(***************************************************************************)
Applied == {o.command : o \in Elements(outcomes)}

Distinct(q) == \A i, j \in DOMAIN q : q[i] = q[j] => i = j

InOnePlace ==
    /\ Distinct(queue) /\ Distinct(batch) /\ Distinct(todo)
    /\ \A i, j \in DOMAIN outcomes : outcomes[i].command = outcomes[j].command => i = j
    /\ Elements(queue) \cap (Elements(batch) \union Elements(todo) \union stopping \union Applied) = {}
    /\ Elements(batch) \cap (Elements(todo) \union stopping \union Applied) = {}
    /\ Elements(todo) \cap (stopping \union Applied) = {}
    /\ stopping \cap Applied = {}
    /\ \A m \in Unanswered : command[m.by] = m /\ pc[m.by] = "reply"
    /\ \A m \in stopping : m.op = "shutdown"

Numbered ==
    /\ \A c \in Callers : /\ command[c].by = c /\ command[c].id <= calls
                          /\ pc[c] # "idle" => command[c].id > 0
    /\ \A c, d \in Callers : command[c].id = command[d].id => c = d \/ command[c].id = 0
    /\ \A r \in answers : r[1].id > 0 /\ r[1].id <= calls
    /\ \A r \in answers, c \in Callers : r[1].id = command[c].id => r[1] = command[c] /\ pc[c] = "idle"
    /\ \A e \in ever : e.call > 0 /\ e.call <= calls

Waiting == Elements(queue) \union Elements(batch) \union Elements(todo) \union stopping

Untouched ==
    /\ \A c \in Callers : pc[c] = "send" => RowsOf(command[c]) = {}
    /\ \A m \in Waiting : RowsOf(m) = {}
    /\ writer # "publish" => \A m \in Applied : RowsOf(m) = {}

Complete(o, n) == o.command.op = "append" => n = IF o.ok THEN Len(o.command.streams) ELSE 0

OutcomesAreTrue ==
    /\ writer = "apply" =>
          /\ \A e \in Elements(stored) : e.call = Head(todo).id
          /\ \A o \in Elements(outcomes) :
                /\ \A e \in Elements(o.stored) : e.call = o.command.id
                /\ Complete(o, Len(o.stored))
    /\ writer = "publish" => \A o \in Elements(outcomes) : Complete(o, Cardinality(RowsOf(o.command)))

AnswersInv == InOnePlace /\ Numbered /\ Untouched /\ OutcomesAreTrue /\ AnswersAreTrue /\ AllOrNothing

LEMMA ElementsHeadTail ==
    ASSUME NEW S, NEW q \in Seq(S), q # <<>>
    PROVE  Elements(q) = {Head(q)} \union Elements(Tail(q))
<1>1. /\ Head(q) = q[1] /\ DOMAIN q = 1 .. Len(q) /\ Len(q) \in Nat \ {0}
      /\ DOMAIN Tail(q) = 1 .. Len(q) - 1
      /\ \A i \in 1 .. Len(q) - 1 : Tail(q)[i] = q[i + 1]
  OBVIOUS
<1>2. ASSUME NEW i \in DOMAIN q, i # 1 PROVE q[i] \in Elements(Tail(q))
  <2>1. i - 1 \in DOMAIN Tail(q) /\ Tail(q)[i - 1] = q[i]
    BY <1>1, <1>2
  <2> QED
    BY <2>1 DEF Elements
<1>3. Elements(Tail(q)) \subseteq Elements(q)
  BY ElementsTail
<1>4. Head(q) \in Elements(q)
  BY <1>1 DEF Elements
<1> QED
  BY <1>1, <1>2, <1>3, <1>4 DEF Elements

LEMMA AscendingAppend ==
    ASSUME NEW q \in Seq(Row), NEW r \in Row, Ascending(q), \A e \in Elements(q) : e.seq < r.seq
    PROVE  Ascending(Append(q, r))
<1> DEFINE p == Append(q, r)
<1>1. DOMAIN p = 1 .. Len(q) + 1 /\ DOMAIN q = 1 .. Len(q) /\ Len(q) \in Nat
      /\ (\A i \in 1 .. Len(q) : p[i] = q[i]) /\ p[Len(q) + 1] = r
  OBVIOUS
<1> HIDE DEF p
<1> SUFFICES ASSUME NEW i \in DOMAIN p, NEW j \in DOMAIN p, i < j PROVE p[i].seq < p[j].seq
  BY DEF Ascending, p
<1>2. i \in DOMAIN q /\ p[i] = q[i] /\ q[i] \in Elements(q)
  BY <1>1 DEF Elements
<1>3. CASE j \in DOMAIN q
  BY <1>1, <1>2, <1>3 DEF Ascending
<1>4. CASE j = Len(q) + 1
  BY <1>1, <1>2, <1>4
<1> QED
  BY <1>1, <1>3, <1>4

LEMMA AscendingTail ==
    ASSUME NEW q \in Seq(Row), q # <<>>, Ascending(q)
    PROVE  Ascending(Tail(q)) /\ \A e \in Elements(Tail(q)) : Head(q).seq < e.seq
<1> DEFINE t == Tail(q)
<1>1. /\ Head(q) = q[1] /\ DOMAIN q = 1 .. Len(q) /\ Len(q) \in Nat \ {0}
      /\ DOMAIN t = 1 .. Len(q) - 1 /\ \A i \in 1 .. Len(q) - 1 : t[i] = q[i + 1]
  OBVIOUS
<1> HIDE DEF t
<1>2. \A i \in DOMAIN t : i + 1 \in DOMAIN q /\ t[i] = q[i + 1] /\ 1 < i + 1 /\ 1 \in DOMAIN q
  BY <1>1
<1>3. Ascending(t)
  BY <1>1, <1>2 DEF Ascending
<1>4. \A i \in DOMAIN t : Head(q).seq < t[i].seq
  BY <1>1, <1>2 DEF Ascending
<1> QED
  BY <1>3, <1>4 DEF Elements, t

(* The numbers of the rows the invariants speak about are numbers. *)
LEMMA RowNumbers ==
    ASSUME TypeOK
    PROVE  /\ \A e \in ever \union rows \union work \union Kept \union Elements(stored) \union Elements(feed) :
                 e \in Row /\ e.seq \in Nat
           /\ \A i \in DOMAIN outcomes :
                 outcomes[i] \in Outcome /\ outcomes[i].stored \in Seq(Row) /\ outcomes[i].command \in Command
           /\ issued \in Nat /\ savedIssued \in Nat /\ workIssued \in Nat /\ lastSeq \in Nat
<1>1. Elements(outcomes) \subseteq Outcome
  BY ElementsInType DEF TypeOK
<1>2. \A o \in Elements(outcomes) : o.stored \in Seq(Row) /\ Elements(o.stored) \subseteq Row /\ o.command \in Command
  BY <1>1, ElementsInType DEF Outcome
<1>3. Kept \subseteq Row
  BY <1>2 DEF Kept
<1>4. Elements(stored) \subseteq Row /\ Elements(feed) \subseteq Row
  BY ElementsInType DEF TypeOK
<1>5. \A e \in ever \union rows \union work \union Kept \union Elements(stored) \union Elements(feed) : e \in Row
  BY <1>3, <1>4 DEF TypeOK
<1>6. \A e \in Row : e.seq \in Nat
  BY DEF Row
<1>7. \A i \in DOMAIN outcomes : outcomes[i] \in Elements(outcomes)
  BY DEF Elements
<1> QED
  BY <1>1, <1>2, <1>5, <1>6, <1>7 DEF TypeOK

(* The outcomes after a command ended, after one event is published, and after a reply. *)
LEMMA OutcomesAfterEnd ==
    ASSUME TypeOK, todo # <<>>, NEW R, NEW ok \in BOOLEAN, NEW result \in Seq(Row), EndCommand(R, ok, result)
    PROVE  LET n == Len(outcomes) IN
           /\ n \in Nat /\ DOMAIN outcomes = 1 .. n /\ DOMAIN outcomes' = 1 .. n + 1
           /\ \A i \in 1 .. n : outcomes'[i] = outcomes[i]
           /\ outcomes'[n + 1].command = Head(todo) /\ outcomes'[n + 1].ok = ok
           /\ outcomes'[n + 1].stored = result
<1> DEFINE o == [command |-> Head(todo), ok |-> ok, stored |-> result]
<1>1. outcomes' = Append(outcomes, o) /\ outcomes \in Seq(Outcome)
  BY DEF EndCommand, TypeOK
<1>2. Head(todo) \in Command
  BY DEF TypeOK
<1>3. o \in Outcome /\ o.command = Head(todo) /\ o.ok = ok /\ o.stored = result
  BY <1>2 DEF Outcome
<1> HIDE DEF o
<1> QED
  BY <1>1, <1>3

LEMMA OutcomesAfterPublish ==
    ASSUME TypeOK, PublishEvent
    PROVE  LET n == Len(outcomes)
               o == Head(outcomes)
           IN
           /\ n \in Nat \ {0} /\ DOMAIN outcomes = 1 .. n /\ DOMAIN outcomes' = 1 .. n
           /\ \A i \in 1 .. n : i # 1 => outcomes'[i] = outcomes[i]
           /\ outcomes[1] = o /\ outcomes'[1].command = o.command /\ outcomes'[1].ok = o.ok
           /\ outcomes'[1].stored = Tail(o.stored)
           /\ o.stored \in Seq(Row) /\ Head(o.stored) \in Row
<1> DEFINE o    == Head(outcomes)
           rest == [command |-> o.command, ok |-> o.ok, stored |-> Tail(o.stored)]
<1>1. outcomes' = <<rest>> \o Tail(outcomes) /\ outcomes # <<>> /\ o.stored # <<>>
  BY DEF PublishEvent
<1>2. outcomes \in Seq(Outcome) /\ o \in Outcome
  BY <1>1 DEF TypeOK
<1>3. o.stored \in Seq(Row) /\ o.command \in Command /\ o.ok \in BOOLEAN
  BY <1>2 DEF Outcome
<1>4. Head(o.stored) \in Row /\ Tail(o.stored) \in Seq(Row)
  BY <1>1, <1>3
<1>5. rest \in Outcome /\ rest.stored = Tail(o.stored) /\ rest.command = o.command /\ rest.ok = o.ok
  BY <1>3, <1>4 DEF Outcome
<1>6. o = outcomes[1]
  BY <1>1, <1>2
<1> HIDE DEF rest, o
<1> QED
  BY <1>1, <1>2, <1>3, <1>4, <1>5, <1>6 DEF o

LEMMA OutcomesAfterReply ==
    ASSUME TypeOK, Reply
    PROVE  LET n == Len(outcomes) IN
           /\ n \in Nat \ {0} /\ DOMAIN outcomes = 1 .. n /\ DOMAIN outcomes' = 1 .. n - 1
           /\ \A i \in 1 .. n - 1 : outcomes'[i] = outcomes[i + 1]
           /\ outcomes[1] = Head(outcomes)
<1>1. outcomes \in Seq(Outcome) /\ outcomes' = Tail(outcomes) /\ outcomes # <<>>
  BY DEF Reply, TypeOK
<1> QED
  BY <1>1

LEMMA FeedInit == Init => FeedInv
BY ElementsEmpty DEF Init, FeedInv, BatchAscending, FeedFollows, Unpublished, Kept, Ascending, Elements

(* Steps that neither apply, commit, nor publish. *)
LEMMA FeedIdle ==
    ASSUME FeedInv, UNCHANGED <<stored, outcomes, feed, ever, lastSeq, issued>>,
           writer = "died" => writer' = "died",
           \/ (writer = "publish") = (writer' = "publish")
           \/ outcomes = <<>>
    PROVE  FeedInv'
<1>1. Unpublished' = Unpublished
  BY ElementsEmpty DEF Unpublished, Kept
<1> QED
  BY <1>1 DEF FeedInv, BatchAscending, FeedFollows, Ascending

LEMMA FeedInsertEvent ==
    ASSUME TypeOK, Inductive, FeedInv, InsertEvent
    PROVE  FeedInv'
<1>1. TypeOK'
  BY TypeInsertEvent
<1>2. PICK s, h : stored' = Append(stored, NewRow(s, h))
  BY DEF InsertEvent
<1> DEFINE r == NewRow(s, h)
<1>3. r.seq = workIssued + 1
  BY DEF NewRow, NextSeq
<1> HIDE DEF r
<1>4. stored \in Seq(Row) /\ stored' \in Seq(Row) /\ stored' = Append(stored, r)
  BY <1>1, <1>2 DEF TypeOK, r
<1>5. r \in Row
  <2>1. stored'[Len(stored) + 1] = r /\ Len(stored') = Len(stored) + 1 /\ Len(stored) + 1 \in 1 .. Len(stored')
    BY <1>4
  <2> QED
    BY <1>4, <2>1
<1>6. writer = "apply" /\ writer' = writer /\ outcomes' = outcomes /\ feed' = feed /\ ever' = ever
      /\ lastSeq' = lastSeq /\ issued' = issued
  BY DEF InsertEvent, disk, seen, history
<1>7. \A e \in Elements(stored) : e.seq < r.seq
  BY <1>3, <1>6, RowNumbers DEF Inductive, InsideTransaction
<1>8. Ascending(stored')
  BY <1>4, <1>5, <1>7, AscendingAppend DEF FeedInv, BatchAscending
<1> QED
  BY <1>6, <1>8 DEF FeedInv, BatchAscending, FeedFollows, Unpublished, Ascending

LEMMA FeedEndCommand ==
    ASSUME TypeOK, Inductive, FeedInv, writer = "apply", todo # <<>>, NEW R, NEW ok \in BOOLEAN,
           NEW result \in Seq(Row), EndCommand(R, ok, result), result \in {<<>>, stored}
    PROVE  FeedInv'
<1> DEFINE n == Len(outcomes)
<1>1. /\ writer' = writer /\ stored' = <<>> /\ feed' = feed /\ ever' = ever /\ lastSeq' = lastSeq
      /\ issued' = issued
  BY DEF EndCommand, disk, seen, history
<1>2. outcomes'[n + 1].stored = result
  BY OutcomesAfterEnd
<1>3. /\ n \in Nat /\ DOMAIN outcomes = 1 .. n /\ DOMAIN outcomes' = 1 .. n + 1
      /\ \A i \in 1 .. n : outcomes'[i] = outcomes[i]
  BY OutcomesAfterEnd
<1> HIDE DEF n
<1>4. Ascending(result) /\ \A e \in Elements(result) : savedIssued < e.seq /\ e.seq \in Nat
  <2>1. CASE result = <<>>
    BY <2>1, ElementsEmpty DEF Ascending
  <2>2. CASE result = stored
    BY <2>2, RowNumbers DEF Inductive, InsideTransaction, FeedInv, BatchAscending
  <2> QED
    BY <2>1, <2>2
<1>5. \A i \in 1 .. n : \A e \in Elements(outcomes[i].stored) : e.seq <= savedIssued /\ e.seq \in Nat
  <2>1. \A i \in 1 .. n : Elements(outcomes[i].stored) \subseteq Kept
    BY <1>3 DEF Kept, Elements
  <2> QED
    BY <2>1, RowNumbers DEF Inductive, InsideTransaction
<1>6. savedIssued \in Nat
  BY DEF TypeOK
<1>7. \A i \in DOMAIN outcomes' : Ascending(outcomes'[i].stored)
  <2>1. \A i \in 1 .. n : Ascending(outcomes[i].stored)
    BY <1>3 DEF FeedInv, BatchAscending
  <2> QED
    BY <1>2, <1>3, <1>4, <2>1
<1>8. ASSUME NEW i \in DOMAIN outcomes', NEW j \in DOMAIN outcomes', i < j,
             NEW e \in Elements(outcomes'[i].stored), NEW f \in Elements(outcomes'[j].stored)
      PROVE  e.seq < f.seq
  <2>1. i \in 1 .. n /\ e \in Elements(outcomes[i].stored)
    BY <1>3, <1>8
  <2>2. CASE j \in 1 .. n
    BY <1>3, <1>8, <2>1, <2>2 DEF FeedInv, BatchAscending
  <2>3. CASE j = n + 1
    BY <1>2, <1>3, <1>4, <1>5, <1>6, <2>1, <2>3
  <2> QED
    BY <1>3, <2>2, <2>3
<1>9. BatchAscending'
  BY <1>1, <1>7, <1>8 DEF BatchAscending, Ascending
<1>10. Unpublished' = {} /\ Unpublished = {}
  BY <1>1 DEF Unpublished
<1> QED
  BY <1>1, <1>9, <1>10 DEF FeedInv, FeedFollows, Ascending

LEMMA FeedCommit ==
    ASSUME TypeOK, Inductive, FeedInv, Commit
    PROVE  FeedInv'
<1>1. /\ writer = "apply" /\ todo = <<>> /\ issued' = workIssued /\ writer' = "publish"
      /\ ever' = ever \union work \union Kept /\ stored' = stored /\ outcomes' = outcomes
      /\ feed' = feed /\ lastSeq' = lastSeq
  BY DEF Commit, tx, seen, Kept
<1>2. InsideTransaction /\ Committed
  BY DEF Inductive
<1>3. work \subseteq ever \union Kept
  BY <1>1, <1>2, ElementsEmpty DEF InsideTransaction, Committed
<1>4. Unpublished' = Kept /\ Unpublished = {}
  BY <1>1 DEF Unpublished, Kept
<1>5. issued \in Nat /\ savedIssued \in Nat /\ workIssued \in Nat /\ lastSeq \in Nat
      /\ lastSeq <= issued /\ issued <= savedIssued /\ savedIssued <= workIssued
  BY <1>1, <1>2, RowNumbers DEF InsideTransaction, FeedInv, FeedFollows
<1>6. \A e \in Kept : e.seq \in Nat /\ issued < e.seq
  BY <1>1, <1>2, RowNumbers DEF InsideTransaction
<1>7. \A e \in Unpublished' : lastSeq' < e.seq
  BY <1>1, <1>4, <1>5, <1>6
<1>8. ever' \ Unpublished' \subseteq ever
  BY <1>1, <1>3, <1>4
<1> QED
  BY <1>1, <1>4, <1>5, <1>7, <1>8 DEF FeedInv, FeedFollows, BatchAscending, Ascending

LEMMA FeedWriterEnds ==
    ASSUME TypeOK, Inductive, FeedInv, NEW state \in {"stopped", "died"}, NEW m, NEW r,
           WriterEnds(state, m, r), state = "stopped" => writer = "publish" /\ outcomes = <<>>
    PROVE  FeedInv'
<1>1. /\ writer' = state /\ stored' = <<>> /\ outcomes' = <<>> /\ feed' = feed /\ ever' = ever
      /\ lastSeq' = lastSeq /\ issued' = issued
  BY DEF WriterEnds, disk, seen, history
<1>2. Unpublished' = {}
  BY <1>1 DEF Unpublished
<1>3. state = "stopped" => Unpublished = {} /\ writer # "died"
  BY ElementsEmpty DEF Unpublished, Kept
<1>4. BatchAscending'
  BY <1>1 DEF BatchAscending, Ascending
<1> QED
  BY <1>1, <1>2, <1>3, <1>4 DEF FeedInv, FeedFollows, Ascending

(* What is left to publish after one event is, and what is left after a reply. *)
LEMMA FeedPublishEvent ==
    ASSUME TypeOK, Inductive, FeedInv, PublishEvent
    PROVE  FeedInv'
<1> DEFINE o == Head(outcomes)
           e == Head(o.stored)
           n == Len(outcomes)
<1>1. /\ writer = "publish" /\ writer' = writer /\ stored' = stored /\ ever' = ever /\ issued' = issued
      /\ lastSeq' = e.seq /\ feed' = Append(feed, e) /\ o.stored # <<>>
  BY DEF PublishEvent, NextToPublish, disk, history
<1>2. feed \in Seq(Row)
  BY DEF TypeOK
<1>3. o.stored \in Seq(Row) /\ e \in Row
  BY OutcomesAfterPublish
<1>4. outcomes'[1].stored = Tail(o.stored) /\ outcomes[1] = o
  BY OutcomesAfterPublish
<1>5. /\ n \in Nat \ {0} /\ DOMAIN outcomes = 1 .. n /\ DOMAIN outcomes' = 1 .. n
      /\ \A i \in 1 .. n : i # 1 => outcomes'[i] = outcomes[i]
  BY OutcomesAfterPublish
<1>6. Elements(o.stored) = {e} \union Elements(Tail(o.stored))
  BY <1>1, <1>3, ElementsHeadTail
<1>7. BatchAscending /\ Ascending(o.stored)
  BY <1>4, <1>5 DEF FeedInv, BatchAscending
<1>8. Ascending(Tail(o.stored)) /\ \A f \in Elements(Tail(o.stored)) : e.seq < f.seq
  BY <1>1, <1>3, <1>7, AscendingTail
<1> HIDE DEF o, n, e
<1>9. \A i \in 1 .. n : Elements(outcomes'[i].stored) \subseteq Elements(outcomes[i].stored)
                        /\ Ascending(outcomes'[i].stored)
  BY <1>4, <1>5, <1>6, <1>7, <1>8 DEF BatchAscending
<1>10. BatchAscending'
  <2>1. Ascending(stored')
    BY <1>1, <1>7 DEF BatchAscending, Ascending
  <2>2. \A i, j \in 1 .. n : i < j =>
          \A g \in Elements(outcomes[i].stored), f \in Elements(outcomes[j].stored) : g.seq < f.seq
    BY <1>5, <1>7 DEF BatchAscending
  <2>3. \A i, j \in 1 .. n : i < j =>
          \A g \in Elements(outcomes'[i].stored), f \in Elements(outcomes'[j].stored) : g.seq < f.seq
    BY <1>9, <2>2
  <2> QED
    BY <1>5, <1>9, <2>1, <2>3 DEF BatchAscending, Ascending
<1>11. Kept = UNION {Elements(outcomes[i].stored) : i \in 1 .. n}
  BY <1>5 DEF Kept, Elements
<1>12. Kept' = UNION {Elements(outcomes'[i].stored) : i \in 1 .. n}
  BY <1>5 DEF Kept, Elements
<1>13. e \in Kept /\ Kept' \subseteq Kept /\ Kept \subseteq {e} \union Kept'
  <2>1. 1 \in 1 .. n
    BY <1>5
  <2>2. e \in Kept /\ Kept' \subseteq Kept
    BY <1>4, <1>6, <1>9, <1>11, <1>12, <2>1
  <2>3. \A i \in 1 .. n : Elements(outcomes[i].stored) \subseteq {e} \union Elements(outcomes'[i].stored)
    BY <1>4, <1>5, <1>6
  <2> QED
    BY <1>11, <1>12, <2>2, <2>3
<1>14. \A f \in Kept' : e.seq < f.seq
  <2> SUFFICES ASSUME NEW i \in 1 .. n, NEW f \in Elements(outcomes'[i].stored) PROVE e.seq < f.seq
    BY <1>12
  <2>1. CASE i = 1
    BY <1>4, <1>5, <1>8, <2>1
  <2>2. CASE i # 1
    <3>1. 1 < i /\ 1 \in 1 .. n /\ e \in Elements(outcomes[1].stored) /\ f \in Elements(outcomes[i].stored)
      BY <1>4, <1>5, <1>6, <2>2
    <3> QED
      BY <1>5, <1>7, <3>1 DEF BatchAscending
  <2> QED
    BY <2>1, <2>2
<1>15. Unpublished = Kept /\ Unpublished' = Kept'
  BY <1>1 DEF Unpublished
<1>16. FeedFollows /\ e \in ever /\ e.seq \in Nat /\ lastSeq \in Nat /\ issued \in Nat
  BY <1>13, <1>15, RowNumbers DEF FeedInv, FeedFollows
<1>17. e.seq <= issued /\ lastSeq < e.seq
  BY <1>13, <1>15, <1>16 DEF Inductive, Committed, FeedFollows
<1>18. \A f \in Elements(feed) : f.seq \in Nat /\ f.seq < e.seq
  BY <1>16, <1>17, RowNumbers DEF FeedFollows
<1>19. Elements(feed') = Elements(feed) \union {e} /\ Ascending(feed')
  <2>1. Ascending(feed)
    BY <1>16 DEF FeedFollows
  <2>2. Elements(Append(feed, e)) = Elements(feed) \union {e}
    BY <1>2, <1>3, ElementsAppend
  <2>3. Ascending(Append(feed, e))
    BY <1>2, <1>3, <1>18, <2>1, AscendingAppend
  <2> QED
    BY <1>1, <2>2, <2>3
<1>20. ASSUME NEW f \in ever' \ Unpublished'
       PROVE  f.seq <= lastSeq' /\ (feed'[1].seq <= f.seq => f \in Elements(feed'))
  <2>1. f \in ever /\ f.seq \in Nat /\ (f = e \/ f \in ever \ Unpublished)
    BY <1>1, <1>13, <1>15, <1>20, RowNumbers
  <2>2. CASE f = e
    BY <1>1, <1>16, <1>19, <2>2
  <2>3. CASE f \in ever \ Unpublished
    <3>1. f.seq <= lastSeq /\ (feed # <<>> /\ feed[1].seq <= f.seq => f \in Elements(feed))
      BY <1>1, <1>16, <2>3 DEF FeedFollows
    <3>2. f.seq < e.seq
      BY <1>16, <1>17, <2>1, <3>1
    <3>3. CASE feed # <<>>
      <4>1. feed'[1] = feed[1]
        BY <1>1, <1>2, <1>3, <3>3
      <4> QED
        BY <1>1, <1>16, <1>19, <2>1, <3>1, <3>2, <3>3, <4>1
    <3>4. CASE feed = <<>>
      <4>1. feed'[1] = e
        BY <1>1, <3>4
      <4> QED
        BY <1>1, <1>16, <2>1, <3>2, <4>1
    <3> QED
      BY <3>3, <3>4
  <2> QED
    BY <2>1, <2>2, <2>3
<1>21. FeedFollows'
  <2>1. Elements(feed') \subseteq ever' /\ Ascending(feed') /\ lastSeq' <= issued'
    BY <1>1, <1>16, <1>17, <1>19 DEF FeedFollows
  <2>2. \A f \in Elements(feed') : f.seq <= lastSeq'
    BY <1>1, <1>16, <1>18, <1>19
  <2>3. Unpublished' \subseteq ever' /\ \A f \in Unpublished' : lastSeq' < f.seq
    BY <1>1, <1>13, <1>14, <1>15, <1>16 DEF FeedFollows
  <2> QED
    BY <1>20, <2>1, <2>2, <2>3 DEF FeedFollows
<1> QED
  BY <1>10, <1>21 DEF FeedInv

LEMMA FeedReply ==
    ASSUME TypeOK, FeedInv, Reply
    PROVE  FeedInv'
<1> DEFINE n == Len(outcomes)
<1>1. /\ writer = "publish" /\ writer' = writer /\ stored' = stored /\ ever' = ever /\ issued' = issued
      /\ lastSeq' = lastSeq /\ feed' = feed /\ outcomes' = Tail(outcomes)
      /\ outcomes # <<>> /\ Head(outcomes).stored = <<>>
  BY DEF Reply, disk, seen
<1>2. outcomes \in Seq(Outcome)
  BY DEF TypeOK
<1>3. /\ n \in Nat \ {0} /\ DOMAIN outcomes = 1 .. n /\ DOMAIN outcomes' = 1 .. n - 1
      /\ \A i \in 1 .. n - 1 : outcomes'[i] = outcomes[i + 1]
  BY OutcomesAfterReply
<1>4. Kept' = Kept
  <2>1. Elements(outcomes) = {Head(outcomes)} \union Elements(outcomes')
    BY <1>1, <1>2, ElementsHeadTail
  <2> QED
    BY <1>1, <2>1, ElementsEmpty DEF Kept
<1> HIDE DEF n
<1>5. BatchAscending'
  <2>1. BatchAscending
    BY DEF FeedInv
  <2>2. \A i \in 1 .. n - 1 : i + 1 \in 1 .. n
    BY <1>3
  <2>3. \A i \in DOMAIN outcomes' : Ascending(outcomes'[i].stored)
    BY <1>3, <2>1, <2>2 DEF BatchAscending
  <2>4. ASSUME NEW i \in DOMAIN outcomes', NEW j \in DOMAIN outcomes', i < j,
               NEW e \in Elements(outcomes'[i].stored), NEW f \in Elements(outcomes'[j].stored)
        PROVE  e.seq < f.seq
    <3>1. i + 1 < j + 1 /\ i + 1 \in DOMAIN outcomes /\ j + 1 \in DOMAIN outcomes
      BY <1>3, <2>4
    <3>2. e \in Elements(outcomes[i + 1].stored) /\ f \in Elements(outcomes[j + 1].stored)
      BY <1>3, <2>4
    <3> QED
      BY <2>1, <3>1, <3>2 DEF BatchAscending
  <2> QED
    BY <1>1, <2>1, <2>3, <2>4 DEF BatchAscending, Ascending
<1>6. Unpublished' = Unpublished
  BY <1>1, <1>4 DEF Unpublished
<1> QED
  BY <1>1, <1>5, <1>6 DEF FeedInv, FeedFollows, Ascending

LEMMA FeedRestart ==
    ASSUME TypeOK, Inductive, FeedInv, Restart
    PROVE  FeedInv'
<1>1. /\ writer' = "idle" /\ stored' = <<>> /\ outcomes' = <<>> /\ feed' = <<>> /\ lastSeq' = issued
      /\ issued' = issued /\ ever' = ever
  BY DEF Restart, disk
<1>2. Unpublished' = {} /\ Elements(feed') = {}
  BY <1>1, ElementsEmpty DEF Unpublished
<1>3. BatchAscending' /\ Ascending(feed')
  BY <1>1 DEF BatchAscending, Ascending
<1>4. issued \in Nat /\ \A e \in ever : e.seq <= issued
  BY DEF TypeOK, Inductive, Committed
<1> QED
  BY <1>1, <1>2, <1>3, <1>4 DEF FeedInv, FeedFollows

LEMMA FeedStep == TypeOK /\ Inductive /\ FeedInv /\ [Next]_vars => FeedInv'
<1> SUFFICES ASSUME TypeOK, Inductive, FeedInv, [Next]_vars PROVE FeedInv'
  OBVIOUS
<1>1. ASSUME NEW c \in Callers, NEW call \in Calls, Submit(c, call) PROVE FeedInv'
  BY <1>1, FeedIdle DEF Submit, disk, tx, seen
<1>2. ASSUME NEW c \in Callers, Send(c) PROVE FeedInv'
  BY <1>2, FeedIdle DEF Send, disk, tx, seen
<1>3. CASE TakeBatch \/ SortCommand \/ Begin
  <2>1. UNCHANGED <<stored, outcomes, feed, ever, lastSeq, issued>>
    BY <1>3 DEF TakeBatch, SortCommand, Begin, disk, seen, history
  <2>2. writer \in {"idle", "sort"} /\ writer' \in {"sort", "apply"}
    BY <1>3 DEF TakeBatch, SortCommand, Begin
  <2> QED
    BY <2>1, <2>2, FeedIdle
<1>4. CASE FinishBatch \/ UNCHANGED vars
  <2>1. UNCHANGED <<stored, outcomes, feed, ever, lastSeq, issued>>
    BY <1>4 DEF FinishBatch, vars, disk, tx, seen, history
  <2>2. writer' = writer \/ (outcomes = <<>> /\ writer # "died")
    BY <1>4 DEF FinishBatch, vars
  <2> QED
    BY <2>1, <2>2, FeedIdle
<1>5. CASE FinishAppend \/ ApplyDelete \/ FailCommand
  <2>1. writer = "apply" /\ todo # <<>>
    BY <1>5 DEF FinishAppend, ApplyDelete, FailCommand
  <2>5. <<>> \in Seq(Row) /\ stored \in Seq(Row)
    BY DEF TypeOK
  <2>2. ASSUME FinishAppend PROVE FeedInv'
    BY <2>1, <2>2, <2>5, FeedEndCommand DEF FinishAppend
  <2>3. ASSUME ApplyDelete PROVE FeedInv'
    BY <2>1, <2>3, <2>5, FeedEndCommand DEF ApplyDelete
  <2>4. ASSUME FailCommand PROVE FeedInv'
    BY <2>1, <2>4, <2>5, FeedEndCommand DEF FailCommand
  <2> QED
    BY <1>5, <2>2, <2>3, <2>4
<1>6. CASE CommitFails \/ TransactionFails \/ Stop
  <2>1. ASSUME CommitFails PROVE FeedInv'
    BY <2>1, FeedWriterEnds DEF CommitFails
  <2>2. ASSUME TransactionFails PROVE FeedInv'
    BY <2>2, FeedWriterEnds DEF TransactionFails
  <2>3. ASSUME Stop PROVE FeedInv'
    BY <2>3, FeedWriterEnds DEF Stop
  <2> QED
    BY <1>6, <2>1, <2>2, <2>3
<1> QED
  BY <1>1, <1>2, <1>3, <1>4, <1>5, <1>6, FeedInsertEvent, FeedCommit, FeedPublishEvent, FeedReply, FeedRestart
  DEF Next, WriterStep

(* Subscribers see committed events only, in the order of their numbers, and miss none that
   the process committed once the batch is done, however the batches are cut and fail. *)
THEOREM FeedOrdered == Spec => []FeedInOrder
<1>1. FeedInv => FeedInOrder
  BY DEF FeedInv, FeedFollows, FeedInOrder, Unpublished, Ascending
<1> QED
  BY <1>1, FeedInit, FeedStep, TypeInvariant, InductiveInvariant, PTL DEF Spec

-----------------------------------------------------------------------------
(* Every call is answered truthfully. *)

LEMMA DistinctAppend ==
    ASSUME NEW S, NEW q \in Seq(S), NEW x \in S, Distinct(q), x \notin Elements(q)
    PROVE  Distinct(Append(q, x))
<1> DEFINE p == Append(q, x)
<1>1. DOMAIN p = 1 .. Len(q) + 1 /\ DOMAIN q = 1 .. Len(q) /\ Len(q) \in Nat
      /\ (\A i \in 1 .. Len(q) : p[i] = q[i]) /\ p[Len(q) + 1] = x
  OBVIOUS
<1>2. \A i \in DOMAIN q : p[i] = q[i] /\ p[i] # x
  BY <1>1 DEF Elements
<1>3. \A i \in DOMAIN p : i \in DOMAIN q \/ (i = Len(q) + 1 /\ p[i] = x)
  BY <1>1
<1> HIDE DEF p
<1>4. Distinct(p)
  BY <1>2, <1>3 DEF Distinct
<1> QED
  BY <1>4 DEF p

LEMMA DistinctTail ==
    ASSUME NEW S, NEW q \in Seq(S), q # <<>>, Distinct(q)
    PROVE  Distinct(Tail(q)) /\ Head(q) \notin Elements(Tail(q))
<1> DEFINE t == Tail(q)
<1>1. /\ Head(q) = q[1] /\ DOMAIN q = 1 .. Len(q) /\ Len(q) \in Nat \ {0}
      /\ DOMAIN t = 1 .. Len(q) - 1 /\ \A i \in 1 .. Len(q) - 1 : t[i] = q[i + 1]
  OBVIOUS
<1> HIDE DEF t
<1>2. \A i \in DOMAIN t : i + 1 \in DOMAIN q /\ t[i] = q[i + 1] /\ i + 1 # 1 /\ 1 \in DOMAIN q /\ i \in Int
  BY <1>1
<1>3. ASSUME NEW i \in DOMAIN t, NEW j \in DOMAIN t, t[i] = t[j] PROVE i = j
  <2>1. i + 1 = j + 1
    BY <1>2, <1>3 DEF Distinct
  <2> QED
    BY <1>2, <2>1
<1>4. \A i \in DOMAIN t : t[i] # Head(q)
  BY <1>1, <1>2 DEF Distinct
<1> QED
  BY <1>3, <1>4 DEF Elements, Distinct, t

LEMMA DistinctSplit ==
    ASSUME NEW S, NEW q \in Seq(S), NEW n \in 0 .. Len(q), Distinct(q)
    PROVE  LET head == SubSeq(q, 1, n)
               rest == SubSeq(q, n + 1, Len(q))
           IN  /\ Distinct(head) /\ Distinct(rest) /\ Elements(head) \cap Elements(rest) = {}
               /\ Elements(head) \subseteq Elements(q) /\ Elements(rest) \subseteq Elements(q)
<1> DEFINE head == SubSeq(q, 1, n)
           rest == SubSeq(q, n + 1, Len(q))
<1>1. /\ DOMAIN q = 1 .. Len(q) /\ Len(q) \in Nat /\ n \in Nat /\ n <= Len(q)
      /\ DOMAIN head = 1 .. n /\ \A i \in 1 .. n : head[i] = q[i]
  OBVIOUS
<1>2. DOMAIN rest = 1 .. Len(q) - n /\ \A i \in 1 .. Len(q) - n : rest[i] = q[i + n]
  OBVIOUS
<1> HIDE DEF head, rest
<1>3. \A i \in DOMAIN head : i \in DOMAIN q /\ head[i] = q[i] /\ i <= n /\ i \in Int
  BY <1>1
<1>4. \A i \in DOMAIN rest : i + n \in DOMAIN q /\ rest[i] = q[i + n] /\ i + n > n /\ i \in Int
  BY <1>1, <1>2
<1>5. Distinct(head)
  BY <1>3 DEF Distinct
<1>6. ASSUME NEW i \in DOMAIN rest, NEW j \in DOMAIN rest, rest[i] = rest[j] PROVE i = j
  <2>1. i + n = j + n
    BY <1>4, <1>6 DEF Distinct
  <2> QED
    BY <1>1, <1>4, <2>1
<1>7. \A i \in DOMAIN head, j \in DOMAIN rest : head[i] # rest[j]
  <2> SUFFICES ASSUME NEW i \in DOMAIN head, NEW j \in DOMAIN rest, head[i] = rest[j] PROVE FALSE
    OBVIOUS
  <2>1. i = j + n
    BY <1>3, <1>4 DEF Distinct
  <2> QED
    BY <1>1, <1>3, <1>4, <2>1
<1>8. Elements(head) \cap Elements(rest) = {}
  BY <1>7 DEF Elements
<1>9. Elements(head) \subseteq Elements(q) /\ Elements(rest) \subseteq Elements(q)
  BY <1>3, <1>4 DEF Elements
<1> QED
  BY <1>5, <1>6, <1>8, <1>9 DEF Distinct, head, rest

(* Rows in the order of their numbers are as many as the sequence is long. *)
LEMMA CountAscending ==
    ASSUME NEW q \in Seq(Row), Ascending(q)
    PROVE  Cardinality(Elements(q)) = Len(q)
<1>1. Len(q) \in Nat /\ DOMAIN q = 1 .. Len(q) /\ q \in [1 .. Len(q) -> Row]
  OBVIOUS
<1>2. \A i \in 1 .. Len(q) : q[i].seq \in Nat
  BY <1>1 DEF Row
<1>3. ASSUME NEW i \in 1 .. Len(q), NEW j \in 1 .. Len(q), q[i] = q[j] PROVE i = j
  <2>1. ~ (i < j) /\ ~ (j < i)
    BY <1>1, <1>2, <1>3 DEF Ascending
  <2> QED
    BY <1>1, <2>1
<1>4. q \in [1 .. Len(q) -> Elements(q)]
  BY <1>1 DEF Elements
<1>5. \A x \in Elements(q) : \E i \in 1 .. Len(q) : q[i] = x
  BY <1>1 DEF Elements
<1>6. ExistsBijection(1 .. Len(q), Elements(q))
  <2>1. q \in Bijection(1 .. Len(q), Elements(q))
    BY <1>3, <1>4, <1>5 DEF Bijection, Injection, Surjection, IsInjective
  <2> QED
    BY <2>1 DEF ExistsBijection
<1> QED
  BY <1>1, <1>6, FS_CountingElements

LEMMA InTransit ==
    ASSUME TypeOK
    PROVE  /\ Waiting \subseteq Command /\ Applied \subseteq Command
           /\ Unanswered = Waiting \union Applied
           /\ \A m \in Command : m.by \in Callers /\ m.id \in Nat
           /\ \A c \in Callers : command[c] \in Command /\ command[c].id \in Nat
           /\ \A r \in answers : r[1] \in Command /\ r[1].id \in Nat
           /\ calls \in Nat
<1>1. Unanswered = Waiting \union Applied
  BY DEF Unanswered, Waiting, Applied
<1>2. \A m \in Command : m.by \in Callers /\ m.id \in Nat
  BY DEF Command
<1>3. \A c \in Callers : command[c] \in Command
  BY DEF TypeOK
<1>4. \A r \in answers : r[1] \in Command
  BY DEF TypeOK
<1> QED
  BY <1>1, <1>2, <1>3, <1>4, UnansweredType DEF TypeOK

(* A command in transit is its caller's, and nobody else's. *)
LEMMA Holder ==
    ASSUME TypeOK, InOnePlace, Numbered
    PROVE  /\ \A m \in Unanswered : /\ m.by \in Callers /\ command[m.by] = m /\ pc[m.by] = "reply"
                                    /\ m.id > 0 /\ m.id <= calls
           /\ \A m \in Unanswered, c \in Callers : command[c].id = m.id => c = m.by
           /\ \A m, k \in Unanswered : m.id = k.id => m = k
           /\ \A m \in Unanswered, r \in answers : r[1].id # m.id
<1>1. \A m \in Unanswered : m \in Command /\ m.by \in Callers /\ m.id \in Nat
  BY InTransit
<1>2. \A m \in Unanswered : command[m.by] = m /\ pc[m.by] = "reply"
  BY DEF InOnePlace
<1>3. \A m \in Unanswered : m.id > 0 /\ m.id <= calls
  <2> SUFFICES ASSUME NEW m \in Unanswered PROVE m.id > 0 /\ m.id <= calls
    OBVIOUS
  <2>1. m.by \in Callers /\ command[m.by] = m /\ pc[m.by] # "idle"
    BY <1>1, <1>2
  <2>2. command[m.by].id <= calls /\ command[m.by].id > 0
    BY <2>1 DEF Numbered
  <2> QED
    BY <2>1, <2>2
<1>4. ASSUME NEW m \in Unanswered, NEW c \in Callers, command[c].id = m.id PROVE c = m.by
  <2>1. m.by \in Callers /\ command[m.by] = m /\ m.id > 0 /\ m.id \in Nat
    BY <1>1, <1>2, <1>3
  <2>2. command[c].id = command[m.by].id /\ command[c].id # 0
    BY <1>4, <2>1
  <2> QED
    BY <2>1, <2>2 DEF Numbered
<1>5. ASSUME NEW m \in Unanswered, NEW k \in Unanswered, m.id = k.id PROVE m = k
  <2>1. k.by \in Callers /\ command[k.by] = k /\ command[k.by].id = m.id /\ command[m.by] = m
    BY <1>1, <1>2, <1>5
  <2>2. k.by = m.by
    BY <1>4, <2>1
  <2> QED
    BY <2>1, <2>2
<1>6. ASSUME NEW m \in Unanswered, NEW r \in answers, r[1].id = m.id PROVE FALSE
  <2>1. m.by \in Callers /\ command[m.by] = m /\ pc[m.by] = "reply"
    BY <1>1, <1>2
  <2>2. r[1].id = command[m.by].id
    BY <1>6, <2>1
  <2> QED
    BY <2>1, <2>2 DEF Numbered
<1> QED
  BY <1>1, <1>2, <1>3, <1>4, <1>5, <1>6

LEMMA AnswersInit == Init => AnswersInv
<1> SUFFICES ASSUME Init PROVE AnswersInv
  OBVIOUS
<1>1. TypeOK
  BY TypeInit
<1>2. Unanswered = {} /\ Waiting = {} /\ Applied = {}
  BY ElementsEmpty DEF Init, Unanswered, Waiting, Applied
<1>3. InOnePlace
  BY <1>2, ElementsEmpty DEF Init, InOnePlace, Distinct
<1>4. \A m : RowsOf(m) = {} /\ Cardinality(RowsOf(m)) = 0
  BY FS_EmptySet DEF Init, RowsOf
<1>5. Numbered /\ Untouched /\ AnswersAreTrue
  BY <1>2, <1>4 DEF Init, Numbered, Untouched, AnswersAreTrue
<1>6. OutcomesAreTrue /\ AllOrNothing
  BY <1>4 DEF Init, OutcomesAreTrue, AllOrNothing
<1> QED
  BY <1>3, <1>5, <1>6 DEF AnswersInv

(***************************************************************************)
(* A step that commits nothing and numbers no call: commands move on, a    *)
(* caller goes from sending to waiting, and new answers, each to the       *)
(* caller's own command, tell the truth.                                   *)
(***************************************************************************)
LEMMA AnswersKept ==
    ASSUME TypeOK, AnswersInv, UNCHANGED <<ever, command, calls>>,
           \A c \in Callers : \/ pc'[c] = pc[c] \/ pc'[c] = "idle"
                              \/ pc[c] = "send" /\ pc'[c] = "reply",
           \A r \in answers' \ answers :
               /\ \E c \in Callers : r[1] = command[c] /\ command[c].id > 0 /\ pc'[c] = "idle"
               /\ r[1].op = "append" =>
                     Cardinality(RowsOf(r[1])) = IF r[2] = "ok" THEN Len(r[1].streams) ELSE 0,
           Waiting' \subseteq Waiting \union {command[c] : c \in {d \in Callers : pc[d] = "send"}},
           writer' # "publish" =>
               Applied' \subseteq Waiting \union IF writer # "publish" THEN Applied ELSE {}
    PROVE  Numbered' /\ Untouched' /\ AnswersAreTrue' /\ AllOrNothing'
<1>1. \A m : RowsOf(m)' = RowsOf(m)
  BY DEF RowsOf
<1>2. Numbered'
  <2>1. Numbered
    BY DEF AnswersInv
  <2>2. \A c \in Callers : pc'[c] # "idle" => pc[c] # "idle"
    OBVIOUS
  <2>3. \A r \in answers' \ answers : r[1].id > 0 /\ r[1].id <= calls
    BY <2>1 DEF Numbered
  <2>4. ASSUME NEW r \in answers' \ answers, NEW c \in Callers, r[1].id = command[c].id
        PROVE  r[1] = command[c] /\ pc'[c] = "idle"
    <3>1. PICK d \in Callers : r[1] = command[d] /\ command[d].id > 0 /\ pc'[d] = "idle"
      BY <2>4
    <3>2. c = d
      BY <2>1, <2>4, <3>1, InTransit DEF Numbered
    <3> QED
      BY <3>1, <3>2
  <2>5. \A r \in answers, c \in Callers : r[1].id = command[c].id => r[1] = command[c] /\ pc'[c] = "idle"
    BY <2>1, <2>2 DEF Numbered
  <2> QED
    BY <2>1, <2>2, <2>3, <2>4, <2>5 DEF Numbered
<1>3. Untouched'
  <2>1. Untouched
    BY DEF AnswersInv
  <2>2. \A c \in Callers : pc'[c] = "send" => pc[c] = "send"
    OBVIOUS
  <2>3. \A m \in Waiting' : RowsOf(m) = {}
    BY <2>1 DEF Untouched
  <2>4. writer' # "publish" => \A m \in Applied' : RowsOf(m) = {}
    BY <2>1 DEF Untouched
  <2> QED
    BY <1>1, <2>1, <2>2, <2>3, <2>4 DEF Untouched
<1>4. AnswersAreTrue'
  BY <1>1 DEF AnswersAreTrue, AnswersInv
<1>5. AllOrNothing'
  BY <1>1 DEF AllOrNothing, AnswersInv
<1> QED
  BY <1>2, <1>3, <1>4, <1>5

(* A step that leaves every command where it is keeps each in one place. *)
LEMMA PlacesKept ==
    ASSUME InOnePlace, UNCHANGED <<queue, batch, todo, stopping, command>>,
           Len(outcomes') = Len(outcomes), DOMAIN outcomes' = DOMAIN outcomes,
           \A i \in DOMAIN outcomes : outcomes'[i].command = outcomes[i].command,
           \A m \in Unanswered : pc'[m.by] = pc[m.by]
    PROVE  InOnePlace' /\ Waiting' = Waiting /\ Applied' = Applied
<1>1. Applied' = Applied
  BY DEF Applied, Elements
<1>2. Waiting' = Waiting
  BY DEF Waiting
<1>3. Unanswered' = Unanswered
  BY <1>1, <1>2 DEF Unanswered, Waiting, Applied
<1> QED
  BY <1>1, <1>2, <1>3 DEF InOnePlace, Distinct

LEMMA AnswersSubmit ==
    ASSUME TypeOK, AnswersInv, NEW c \in Callers, NEW call \in Calls, Submit(c, call)
    PROVE  AnswersInv'
<1> DEFINE k == command'[c]
<1>1. /\ pc[c] = "idle" /\ calls' = calls + 1 /\ calls \in Nat
      /\ UNCHANGED <<queue, writer, batch, todo, stopping, stored, outcomes, ever>>
  BY DEF Submit, TypeOK, tx
<1>2. /\ command' = [command EXCEPT ![c] = k] /\ k.id = calls + 1 /\ k.by = c
      /\ \A d \in Callers : d # c => command'[d] = command[d]
  BY <1>1 DEF Submit, TypeOK
<1>3. /\ \A d \in Callers : d # c => pc'[d] = pc[d]
      /\ \A r \in answers' \ answers : r[1] = k /\ r[2] # "ok" /\ pc'[c] = "idle"
  BY <1>1 DEF Submit, TypeOK
<1>4. answers \subseteq answers'
  BY DEF Submit
<1> HIDE DEF k
<1>5. AnswersInv /\ InOnePlace /\ Numbered /\ Untouched
  BY DEF AnswersInv
<1>6. \A m : RowsOf(m)' = RowsOf(m)
  BY <1>1 DEF RowsOf
<1>7. \A e \in ever : e.call \in Nat
  BY DEF TypeOK, Row
<1>8. RowsOf(k) = {} /\ Cardinality(RowsOf(k)) = 0
  <2>1. \A e \in ever : e.call # k.id
    BY <1>1, <1>2, <1>5, <1>7 DEF Numbered
  <2> QED
    BY <2>1, FS_EmptySet DEF RowsOf
<1>9. \A d \in Callers : command[d].id \in Nat /\ command[d].id <= calls
  BY <1>5, InTransit DEF Numbered
<1>10. \A m \in Unanswered : m.by \in Callers /\ m.by # c
  BY <1>1, <1>5, Holder
<1>11. Unanswered' = Unanswered /\ Waiting' = Waiting /\ Applied' = Applied
  BY <1>1 DEF Unanswered, Waiting, Applied
<1>12. InOnePlace'
  <2>1. \A m \in Unanswered : command'[m.by] = m /\ pc'[m.by] = "reply"
    BY <1>2, <1>3, <1>5, <1>10 DEF InOnePlace
  <2> QED
    BY <1>1, <1>5, <1>11, <2>1 DEF InOnePlace, Distinct
<1>13. Numbered'
  <2>1. \A d \in Callers : /\ command'[d].by = d /\ command'[d].id <= calls'
                           /\ pc'[d] # "idle" => command'[d].id > 0
    <3>1. command'[c].by = c /\ command'[c].id <= calls' /\ command'[c].id > 0
      BY <1>1, <1>2 DEF k
    <3>2. ASSUME NEW d \in Callers, d # c
          PROVE  /\ command'[d].by = d /\ command'[d].id <= calls'
                 /\ pc'[d] # "idle" => command'[d].id > 0
      BY <1>1, <1>2, <1>3, <1>5, <1>9, <3>2 DEF Numbered
    <3> QED
      BY <3>1, <3>2
  <2>2. \A d, e \in Callers : command'[d].id = command'[e].id => d = e \/ command'[d].id = 0
    BY <1>1, <1>2, <1>5, <1>9 DEF Numbered
  <2>3. \A r \in answers : r[1].id \in Nat /\ r[1].id > 0 /\ r[1].id <= calls
    BY <1>5, InTransit DEF Numbered
  <2>4. \A r \in answers' : r[1].id > 0 /\ r[1].id <= calls'
    BY <1>1, <1>2, <1>3, <2>3
  <2>5. ASSUME NEW r \in answers', NEW d \in Callers, r[1].id = command'[d].id
        PROVE  r[1] = command'[d] /\ pc'[d] = "idle"
    <3>1. CASE r \in answers
      <4>1. d # c
        BY <1>1, <1>2, <2>3, <2>5, <3>1 DEF k
      <4> QED
        BY <1>2, <1>3, <1>5, <2>5, <3>1, <4>1 DEF Numbered
    <3>2. CASE r \notin answers
      <4>1. r[1] = k /\ pc'[c] = "idle"
        BY <1>3, <2>5, <3>2
      <4>2. d = c
        BY <1>1, <1>2, <1>9, <2>5, <4>1
      <4> QED
        BY <4>1, <4>2 DEF k
    <3> QED
      BY <3>1, <3>2
  <2>6. \A e \in ever' : e.call > 0 /\ e.call <= calls'
    BY <1>1, <1>5, <1>7 DEF Numbered
  <2> QED
    BY <2>1, <2>2, <2>4, <2>5, <2>6 DEF Numbered
<1>14. Untouched'
  <2>1. \A d \in Callers : pc'[d] = "send" => RowsOf(command'[d]) = {}
    BY <1>2, <1>3, <1>5, <1>8 DEF Untouched, k
  <2> QED
    BY <1>1, <1>5, <1>6, <1>11, <2>1 DEF Untouched
<1>15. OutcomesAreTrue'
  BY <1>1, <1>6 DEF OutcomesAreTrue, AnswersInv, Complete
<1>16. AnswersAreTrue'
  BY <1>3, <1>6, <1>8 DEF AnswersAreTrue, AnswersInv
<1>17. AllOrNothing'
  BY <1>2, <1>6, <1>8 DEF AllOrNothing, AnswersInv, k
<1> QED
  BY <1>12, <1>13, <1>14, <1>15, <1>16, <1>17 DEF AnswersInv

LEMMA AnswersSend ==
    ASSUME TypeOK, AnswersInv, NEW c \in Callers, Send(c)
    PROVE  AnswersInv'
<1> DEFINE k == command[c]
<1>1. /\ pc[c] = "send" /\ UNCHANGED <<writer, batch, todo, stopping, stored, outcomes, ever, command, calls>>
  BY DEF Send, tx
<1>2. InOnePlace /\ Numbered /\ Untouched
  BY DEF AnswersInv
<1>3. k \in Command /\ k.by = c /\ k.id > 0
  BY <1>1, <1>2, InTransit DEF Numbered
<1>4. k \notin Unanswered
  BY <1>1, <1>2, <1>3 DEF InOnePlace
<1>5. \A m \in Unanswered : m.by \in Callers /\ m.by # c /\ pc[m.by] = "reply" /\ command[m.by] = m
  BY <1>1, <1>2, Holder
<1>6. RowsOf(k) = {} /\ Cardinality(RowsOf(k)) = 0
  BY <1>1, <1>2, FS_EmptySet DEF Untouched
<1>7. CASE receiving /\ Len(queue) < WriteQueue /\ queue' = Append(queue, k)
           /\ pc' = [pc EXCEPT ![c] = "reply"] /\ UNCHANGED answers
  <2>1. queue \in Seq(Command) /\ pc \in [Callers -> {"idle", "send", "reply"}]
    BY DEF TypeOK
  <2>2. Elements(queue') = Elements(queue) \union {k}
    BY <1>3, <1>7, <2>1, ElementsAppend
  <2>3. Distinct(queue')
    <3>1. Distinct(queue) /\ k \notin Elements(queue)
      BY <1>2, <1>4 DEF InOnePlace, Unanswered
    <3> QED
      BY <1>3, <1>7, <2>1, <3>1, DistinctAppend
  <2>4. /\ Waiting' = Waiting \union {k} /\ Applied' = Applied /\ Unanswered' = Unanswered \union {k}
    BY <1>1, <2>2 DEF Waiting, Applied, Unanswered
  <2>5. \A d \in Callers : pc'[d] = IF d = c THEN "reply" ELSE pc[d]
    BY <1>7, <2>1
  <2>6. InOnePlace'
    <3>1. \A m \in Unanswered' : command'[m.by] = m /\ pc'[m.by] = "reply"
      BY <1>1, <1>3, <1>5, <2>4, <2>5
    <3>2. k \notin Elements(batch) /\ k \notin Elements(todo) /\ k \notin stopping /\ k \notin Applied
      BY <1>4 DEF Unanswered, Applied
    <3>3. UNCHANGED Applied
      BY <2>4
    <3> HIDE DEF k
    <3> QED
      BY <1>1, <1>2, <2>2, <2>3, <3>1, <3>2, <3>3 DEF InOnePlace, Distinct
  <2>7. Numbered' /\ Untouched' /\ AnswersAreTrue' /\ AllOrNothing'
    <3>1. Waiting' \subseteq Waiting \union {command[d] : d \in {f \in Callers : pc[f] = "send"}}
      BY <1>1, <2>4
    <3> QED
      BY <1>1, <1>7, <2>4, <2>5, <3>1, AnswersKept
  <2>8. OutcomesAreTrue'
    BY <1>1 DEF OutcomesAreTrue, AnswersInv, Complete, RowsOf
  <2> QED
    BY <2>6, <2>7, <2>8 DEF AnswersInv
<1>8. CASE ~receiving /\ answers' = answers \union {<<k, "writer_gone">>}
           /\ pc' = [pc EXCEPT ![c] = "idle"] /\ UNCHANGED queue
  <2>1. \A d \in Callers : pc'[d] = IF d = c THEN "idle" ELSE pc[d]
    BY <1>8 DEF TypeOK
  <2>2. InOnePlace' /\ Waiting' = Waiting /\ Applied' = Applied
    BY <1>1, <1>2, <1>5, <1>8, <2>1, PlacesKept
  <2>3. Numbered' /\ Untouched' /\ AnswersAreTrue' /\ AllOrNothing'
    <3>1. \A r \in answers' \ answers :
            /\ \E d \in Callers : r[1] = command[d] /\ command[d].id > 0 /\ pc'[d] = "idle"
            /\ r[1].op = "append" =>
                 Cardinality(RowsOf(r[1])) = IF r[2] = "ok" THEN Len(r[1].streams) ELSE 0
      <4>1. \A r \in answers' \ answers : r[1] = k /\ r[2] # "ok"
        BY <1>8
      <4>2. pc'[c] = "idle"
        BY <2>1
      <4> QED
        BY <1>3, <1>6, <4>1, <4>2
    <3> QED
      BY <1>1, <2>1, <2>2, <3>1, AnswersKept
  <2>4. OutcomesAreTrue'
    BY <1>1 DEF OutcomesAreTrue, AnswersInv, Complete, RowsOf
  <2> QED
    BY <2>2, <2>3, <2>4 DEF AnswersInv
<1> QED
  BY <1>7, <1>8 DEF Send

LEMMA AnswersTakeBatch ==
    ASSUME TypeOK, AnswersInv, TakeBatch
    PROVE  AnswersInv'
<1> DEFINE n == TakenLength
<1>1. /\ writer = "idle" /\ writer' = "sort"
      /\ batch' = SubSeq(queue, 1, n) /\ queue' = SubSeq(queue, n + 1, Len(queue))
      /\ UNCHANGED <<pc, command, todo, stopping, stored, outcomes, ever, answers, calls>>
  BY DEF TakeBatch, history
<1>2. n \in 0 .. Len(queue)
  BY StoreAssumption DEF TypeOK, TakenLength
<1>3. InOnePlace /\ queue \in Seq(Command)
  BY DEF AnswersInv, TypeOK
<1> HIDE DEF n
<1>4. /\ Distinct(batch') /\ Distinct(queue') /\ Elements(batch') \cap Elements(queue') = {}
      /\ Elements(batch') \subseteq Elements(queue) /\ Elements(queue') \subseteq Elements(queue)
  <2>1. Distinct(queue)
    BY <1>3 DEF InOnePlace
  <2> QED
    BY <1>1, <1>2, <1>3, <2>1, DistinctSplit
<1>5. Applied' = Applied /\ Waiting' \subseteq Waiting /\ Unanswered' \subseteq Unanswered
  BY <1>1, <1>4 DEF Applied, Waiting, Unanswered
<1>6. InOnePlace'
  BY <1>1, <1>3, <1>4, <1>5 DEF InOnePlace, Distinct
<1>7. Numbered' /\ Untouched' /\ AnswersAreTrue' /\ AllOrNothing'
  BY <1>1, <1>5, AnswersKept
<1>8. OutcomesAreTrue'
  BY <1>1 DEF OutcomesAreTrue
<1> QED
  BY <1>6, <1>7, <1>8 DEF AnswersInv

LEMMA AnswersSortCommand ==
    ASSUME TypeOK, AnswersInv, SortCommand
    PROVE  AnswersInv'
<1> DEFINE m == Head(batch)
<1>1. /\ writer = "sort" /\ writer' = "sort" /\ batch # <<>> /\ batch' = Tail(batch)
      /\ UNCHANGED <<queue, command, stored, outcomes, ever, calls>>
  BY DEF SortCommand
<1>2. InOnePlace /\ Numbered /\ Untouched /\ batch \in Seq(Command) /\ todo \in Seq(Command)
  BY DEF AnswersInv, TypeOK
<1>3. Elements(batch) = {m} \union Elements(batch') /\ Distinct(batch') /\ m \notin Elements(batch')
  <2>1. Distinct(batch)
    BY <1>2 DEF InOnePlace
  <2> QED
    BY <1>1, <1>2, <2>1, ElementsHeadTail, DistinctTail
<1>4. m \in Command /\ m \in Unanswered /\ m \in Waiting
  <2>1. m \in Waiting /\ m \in Unanswered
    BY <1>3 DEF Waiting, Unanswered
  <2> QED
    BY <2>1, InTransit
<1>5. /\ m \notin Elements(queue) /\ m \notin Elements(todo) /\ m \notin stopping /\ m \notin Applied
  BY <1>2, <1>3 DEF InOnePlace
<1>6. UNCHANGED Applied
  BY <1>1 DEF Applied
<1>7. OutcomesAreTrue'
  BY <1>1 DEF OutcomesAreTrue
<1> HIDE DEF m
<1>8. CASE todo' = Append(todo, m) /\ UNCHANGED <<stopping, pc, answers>>
  <2>1. Elements(todo') = Elements(todo) \union {m}
    BY <1>2, <1>4, <1>8, ElementsAppend
  <2>2. Distinct(todo')
    <3>1. Distinct(todo)
      BY <1>2 DEF InOnePlace
    <3> QED
      BY <1>2, <1>4, <1>5, <1>8, <3>1, DistinctAppend
  <2>3. Waiting' = Waiting /\ Unanswered' = Unanswered
    BY <1>1, <1>3, <1>8, <2>1 DEF Waiting, Unanswered
  <2>4. InOnePlace'
    BY <1>1, <1>2, <1>3, <1>5, <1>6, <1>8, <2>1, <2>2, <2>3 DEF InOnePlace, Distinct
  <2>5. Numbered' /\ Untouched' /\ AnswersAreTrue' /\ AllOrNothing'
    BY <1>1, <1>6, <1>8, <2>3, AnswersKept
  <2> QED
    BY <1>7, <2>4, <2>5 DEF AnswersInv
<1>9. CASE m.op = "shutdown" /\ stopping = {} /\ stopping' = {m} /\ UNCHANGED <<todo, pc, answers>>
  <2>1. Waiting' = Waiting /\ Unanswered' = Unanswered
    BY <1>1, <1>3, <1>9 DEF Waiting, Unanswered
  <2>2. InOnePlace'
    BY <1>1, <1>2, <1>3, <1>5, <1>6, <1>9, <2>1 DEF InOnePlace, Distinct
  <2>3. Numbered' /\ Untouched' /\ AnswersAreTrue' /\ AllOrNothing'
    BY <1>1, <1>6, <1>9, <2>1, AnswersKept
  <2> QED
    BY <1>7, <2>2, <2>3 DEF AnswersInv
<1>10. CASE m.op = "shutdown" /\ Answer({m}, "ok") /\ UNCHANGED <<todo, stopping>>
  <2>1. /\ answers' = answers \union {<<m, "ok">>}
        /\ \A c \in Callers : pc'[c] = IF c = m.by THEN "idle" ELSE pc[c]
    BY <1>10 DEF Answer
  <2>2. Waiting' \subseteq Waiting /\ Unanswered' \subseteq Unanswered /\ m \notin Unanswered'
    <3>1. m \notin Unanswered'
      BY <1>1, <1>3, <1>5, <1>10 DEF Unanswered, Applied
    <3> QED
      BY <1>1, <1>3, <1>10, <3>1 DEF Waiting, Unanswered
  <2>3. /\ \A k \in Unanswered : k.by \in Callers /\ command[k.by] = k /\ pc[k.by] = "reply"
        /\ command[m.by] = m /\ m.by \in Callers /\ m.id > 0
    BY <1>2, <1>4, Holder
  <2>4. \A k \in Unanswered' : command'[k.by] = k /\ pc'[k.by] = "reply"
    BY <1>1, <2>1, <2>2, <2>3
  <2>5. InOnePlace'
    BY <1>1, <1>2, <1>3, <1>6, <1>10, <2>4 DEF InOnePlace, Distinct
  <2>6. Numbered' /\ Untouched' /\ AnswersAreTrue' /\ AllOrNothing'
    <3>1. \A r \in answers' \ answers :
            /\ \E c \in Callers : r[1] = command[c] /\ command[c].id > 0 /\ pc'[c] = "idle"
            /\ r[1].op = "append" =>
                 Cardinality(RowsOf(r[1])) = IF r[2] = "ok" THEN Len(r[1].streams) ELSE 0
      BY <1>10, <2>1, <2>3
    <3> QED
      BY <1>1, <1>6, <2>1, <2>2, <3>1, AnswersKept
  <2> QED
    BY <1>7, <2>5, <2>6 DEF AnswersInv
<1> QED
  BY <1>8, <1>9, <1>10 DEF SortCommand, m

(* Begin, the insert of an event, and the end of a batch. *)
LEMMA AnswersQuiet ==
    ASSUME TypeOK, AnswersInv, OutcomesAreTrue',
           UNCHANGED <<handle, batch, todo, stopping, outcomes, ever, answers, calls>>,
           writer = "publish" /\ writer' # "publish" => outcomes = <<>>
    PROVE  AnswersInv'
<1>1. UNCHANGED <<queue, pc, command>>
  BY DEF handle
<1>2. InOnePlace' /\ Waiting' = Waiting /\ Applied' = Applied
  BY <1>1, PlacesKept DEF AnswersInv
<1>3. writer' # "publish" /\ writer = "publish" => Applied = {}
  BY ElementsEmpty DEF Applied
<1>4. Numbered' /\ Untouched' /\ AnswersAreTrue' /\ AllOrNothing'
  BY <1>1, <1>2, <1>3, AnswersKept
<1> QED
  BY <1>2, <1>4 DEF AnswersInv

LEMMA AnswersBegin ==
    ASSUME TypeOK, Inductive, AnswersInv, Begin
    PROVE  AnswersInv'
<1>1. writer = "sort" /\ UNCHANGED <<handle, batch, todo, stopping, stored, outcomes, ever, answers, calls>>
      /\ writer' = "apply"
  BY DEF Begin, history
<1>2. outcomes = <<>> /\ stored = <<>>
  BY <1>1 DEF Inductive, OutsideTransaction
<1>3. OutcomesAreTrue'
  BY <1>1, <1>2, ElementsEmpty DEF OutcomesAreTrue
<1> QED
  BY <1>1, <1>3, AnswersQuiet

LEMMA AnswersInsertEvent ==
    ASSUME TypeOK, AnswersInv, InsertEvent
    PROVE  AnswersInv'
<1>1. /\ writer = "apply" /\ writer' = writer
      /\ UNCHANGED <<handle, batch, todo, stopping, outcomes, ever, answers, calls>>
  BY DEF InsertEvent, history
<1>2. PICK r : stored' = Append(stored, r) /\ r.call = Head(todo).id
  BY DEF InsertEvent, NewRow
<1>3. stored \in Seq(Row) /\ stored' \in Seq(Row)
  BY TypeInsertEvent DEF TypeOK
<1>4. r \in Row
  <2>1. stored'[Len(stored) + 1] = r /\ Len(stored') = Len(stored) + 1 /\ Len(stored) + 1 \in 1 .. Len(stored')
    BY <1>2, <1>3
  <2> QED
    BY <1>3, <2>1
<1>5. Elements(stored') = Elements(stored) \union {r}
  BY <1>2, <1>3, <1>4, ElementsAppend
<1>6. OutcomesAreTrue'
  BY <1>1, <1>2, <1>5 DEF OutcomesAreTrue, AnswersInv, Complete
<1> QED
  BY <1>1, <1>6, AnswersQuiet

LEMMA AnswersEndCommand ==
    ASSUME TypeOK, AnswersInv, writer = "apply", todo # <<>>, NEW R, NEW ok \in BOOLEAN,
           NEW result \in Seq(Row), EndCommand(R, ok, result), result \in {<<>>, stored},
           Head(todo).op = "append" => Len(result) = IF ok THEN Len(Head(todo).streams) ELSE 0
    PROVE  AnswersInv'
<1> DEFINE m == Head(todo)
           n == Len(outcomes)
<1>1. /\ writer' = writer /\ stored' = <<>> /\ todo' = Tail(todo)
      /\ UNCHANGED <<queue, pc, command, batch, stopping, ever, answers, calls>>
  BY DEF EndCommand, handle, history
<1>2. /\ n \in Nat /\ DOMAIN outcomes = 1 .. n /\ DOMAIN outcomes' = 1 .. n + 1
      /\ \A i \in 1 .. n : outcomes'[i] = outcomes[i]
  BY OutcomesAfterEnd
<1>3. outcomes'[n + 1].command = m /\ outcomes'[n + 1].ok = ok /\ outcomes'[n + 1].stored = result
  BY OutcomesAfterEnd
<1>4. InOnePlace /\ todo \in Seq(Command)
  BY DEF AnswersInv, TypeOK
<1>5. Elements(todo) = {m} \union Elements(todo') /\ Distinct(todo') /\ m \notin Elements(todo')
  <2>1. Distinct(todo)
    BY <1>4 DEF InOnePlace
  <2> QED
    BY <1>1, <1>4, <2>1, ElementsHeadTail, DistinctTail
<1>6. m \notin Elements(queue) /\ m \notin Elements(batch) /\ m \notin stopping /\ m \notin Applied
  BY <1>4, <1>5 DEF InOnePlace
<1>7. m.op = "append" => Len(result) = IF ok THEN Len(m.streams) ELSE 0
  OBVIOUS
<1>8. \A e \in Elements(result) : e.call = m.id
  BY ElementsEmpty DEF AnswersInv, OutcomesAreTrue
<1> HIDE DEF m, n
<1>9. Applied' = Applied \union {m}
  BY <1>2, <1>3 DEF Applied, Elements
<1>10. Waiting' \subseteq Waiting /\ Waiting = Waiting' \union {m} /\ Unanswered' = Unanswered
  <2>1. Waiting = Waiting' \union {m}
    BY <1>1, <1>5 DEF Waiting
  <2> QED
    BY <1>9, <2>1 DEF Waiting, Applied, Unanswered
<1>11. InOnePlace'
  <2>1. \A i \in 1 .. n : outcomes'[i].command \in Applied
    BY <1>2 DEF Applied, Elements
  <2>2. ASSUME NEW i \in DOMAIN outcomes', NEW j \in DOMAIN outcomes',
               outcomes'[i].command = outcomes'[j].command
        PROVE  i = j
    <3>1. CASE i \in 1 .. n /\ j \in 1 .. n
      BY <1>2, <1>4, <2>2, <3>1 DEF InOnePlace
    <3>2. CASE i \in 1 .. n /\ j = n + 1
      BY <1>3, <1>6, <2>1, <2>2, <3>2
    <3>3. CASE i = n + 1 /\ j \in 1 .. n
      BY <1>3, <1>6, <2>1, <2>2, <3>3
    <3> QED
      BY <1>2, <2>2, <3>1, <3>2, <3>3
  <2>3. /\ Distinct(queue)' /\ Distinct(batch)' /\ Distinct(todo)'
        /\ \A k \in Unanswered' : command'[k.by] = k /\ pc'[k.by] = "reply"
        /\ \A k \in stopping' : k.op = "shutdown"
    BY <1>1, <1>4, <1>5, <1>10 DEF InOnePlace, Distinct
  <2>4. /\ (Elements(queue) \cap (Elements(batch) \union Elements(todo) \union stopping \union Applied) = {})'
        /\ (Elements(batch) \cap (Elements(todo) \union stopping \union Applied) = {})'
        /\ (Elements(todo) \cap (stopping \union Applied) = {})'
        /\ (stopping \cap Applied = {})'
    BY <1>1, <1>4, <1>5, <1>6, <1>9 DEF InOnePlace
  <2> QED
    BY <2>2, <2>3, <2>4 DEF InOnePlace
<1>12. Numbered' /\ Untouched' /\ AnswersAreTrue' /\ AllOrNothing'
  <2>1. Applied' \subseteq Waiting \union Applied
    BY <1>9, <1>10
  <2> QED
    BY <1>1, <1>10, <2>1, AnswersKept
<1>13. OutcomesAreTrue'
  <2>1. ASSUME NEW o \in Elements(outcomes')
        PROVE  (\A e \in Elements(o.stored) : e.call = o.command.id) /\ Complete(o, Len(o.stored))
    <3>1. PICK i \in 1 .. n + 1 : o = outcomes'[i]
      BY <1>2 DEF Elements
    <3>2. CASE i \in 1 .. n
      <4>1. o \in Elements(outcomes)
        BY <1>2, <3>1, <3>2 DEF Elements
      <4> QED
        BY <4>1 DEF AnswersInv, OutcomesAreTrue
    <3>3. CASE i = n + 1
      BY <1>3, <1>7, <1>8, <3>1, <3>3 DEF Complete
    <3> QED
      BY <1>2, <3>2, <3>3
  <2> QED
    BY <1>1, <2>1, ElementsEmpty DEF OutcomesAreTrue
<1> QED
  BY <1>11, <1>12, <1>13 DEF AnswersInv

(* The commands that end: an append that inserted all its events, a delete, and one that fails. *)
LEMMA AnswersCommandEnds ==
    ASSUME TypeOK, AnswersInv, FinishAppend \/ ApplyDelete \/ FailCommand
    PROVE  AnswersInv'
<1>1. writer = "apply" /\ todo # <<>>
  BY DEF FinishAppend, ApplyDelete, FailCommand
<1>2. <<>> \in Seq(Row) /\ stored \in Seq(Row) /\ Len(<<>>) = 0
  BY DEF TypeOK
<1>3. ASSUME FinishAppend PROVE AnswersInv'
  BY <1>1, <1>2, <1>3, AnswersEndCommand DEF FinishAppend
<1>4. ASSUME ApplyDelete PROVE AnswersInv'
  BY <1>1, <1>2, <1>4, AnswersEndCommand DEF ApplyDelete
<1>5. ASSUME FailCommand PROVE AnswersInv'
  <2>1. Head(todo).op = "append" => Len(<<>>) = IF FALSE THEN Len(Head(todo).streams) ELSE 0
    BY <1>2
  <2>2. EndCommand(RowsAfterFailure, FALSE, <<>>)
    BY <1>5 DEF FailCommand
  <2> QED
    BY <1>1, <1>2, <2>1, <2>2, AnswersEndCommand
<1> QED
  BY <1>3, <1>4, <1>5

LEMMA AnswersCommit ==
    ASSUME TypeOK, Inductive, FeedInv, AnswersInv, Commit
    PROVE  AnswersInv'
<1>1. /\ writer = "apply" /\ todo = <<>> /\ writer' = "publish" /\ ever' = ever \union work \union Kept
      /\ UNCHANGED <<queue, pc, command, batch, todo, stopping, stored, outcomes, answers, calls>>
  BY DEF Commit, tx, handle, Kept
<1>2. InOnePlace /\ Numbered /\ Untouched /\ OutcomesAreTrue /\ AnswersAreTrue /\ AllOrNothing
  BY DEF AnswersInv
<1>3. ever' = ever \union Kept
  <2>1. work \subseteq ever \union Kept
    BY <1>1, ElementsEmpty DEF Inductive, InsideTransaction, Committed
  <2> QED
    BY <1>1, <2>1
<1>4. InOnePlace' /\ Waiting' = Waiting /\ Applied' = Applied
  BY <1>1, <1>2, PlacesKept
<1>5. /\ \A m \in Applied : m \in Unanswered
      /\ \A m \in Waiting : m \in Unanswered /\ m \notin Applied
  BY <1>2 DEF Waiting, Unanswered, Applied, InOnePlace
<1>6. \A e \in Kept : \E o \in Elements(outcomes) :
         e \in Elements(o.stored) /\ e.call = o.command.id /\ o.command \in Applied
  BY <1>1, <1>2 DEF Kept, OutcomesAreTrue, Applied
<1>7. \A m : (\A k \in Applied : k.id # m.id) => RowsOf(m)' = RowsOf(m)
  BY <1>3, <1>6 DEF RowsOf
<1>8. ASSUME NEW o \in Elements(outcomes)
      PROVE  Complete(o, Cardinality(RowsOf(o.command)'))
  <2>1. o.command \in Applied /\ RowsOf(o.command) = {}
    BY <1>1, <1>2 DEF Applied, Untouched
  <2>2. PICK i \in DOMAIN outcomes : outcomes[i] = o
    BY DEF Elements
  <2>3. \A e \in Elements(o.stored) : e.call = o.command.id
    BY <1>1, <1>2 DEF OutcomesAreTrue
  <2>4. ASSUME NEW e \in Kept, e.call = o.command.id
        PROVE  e \in Elements(o.stored)
    <3>1. PICK p \in Elements(outcomes) : e \in Elements(p.stored) /\ e.call = p.command.id /\ p.command \in Applied
      BY <1>6
    <3>2. p.command = o.command
      <4>1. p.command \in Unanswered /\ o.command \in Unanswered /\ p.command.id = o.command.id
        BY <1>5, <2>1, <2>4, <3>1
      <4> QED
        BY <1>2, <4>1, Holder
    <3>3. PICK j \in DOMAIN outcomes : outcomes[j] = p
      BY DEF Elements
    <3>4. i = j
      BY <1>2, <2>2, <3>2, <3>3 DEF InOnePlace
    <3> QED
      BY <2>2, <3>1, <3>3, <3>4
  <2>5. RowsOf(o.command)' = {e \in ever' : e.call = o.command.id}
    BY <1>1 DEF RowsOf
  <2>6. Elements(o.stored) \subseteq Kept
    BY DEF Kept
  <2>7. RowsOf(o.command)' = Elements(o.stored)
    BY <1>3, <2>1, <2>3, <2>4, <2>5, <2>6 DEF RowsOf
  <2>8. o.stored \in Seq(Row) /\ Ascending(o.stored)
    BY <2>2, RowNumbers DEF FeedInv, BatchAscending
  <2>9. Cardinality(Elements(o.stored)) = Len(o.stored)
    BY <2>8, CountAscending
  <2> QED
    BY <1>1, <1>2, <2>7, <2>9 DEF OutcomesAreTrue
<1>9. Numbered'
  <2>1. \A e \in Kept : e.call > 0 /\ e.call <= calls
    BY <1>2, <1>5, <1>6, Holder
  <2> QED
    BY <1>1, <1>2, <1>3, <2>1 DEF Numbered
<1>10. Untouched'
  <2>1. ASSUME NEW c \in Callers, pc[c] = "send" PROVE RowsOf(command[c])' = {}
    <3>1. \A k \in Applied : k.id # command[c].id
      BY <1>2, <1>5, <2>1, Holder
    <3> QED
      BY <1>1, <1>2, <1>7, <2>1, <3>1 DEF Untouched
  <2>2. ASSUME NEW m \in Waiting PROVE RowsOf(m)' = {}
    <3>1. \A k \in Applied : k.id # m.id
      BY <1>2, <1>5, Holder
    <3> QED
      BY <1>2, <1>7, <3>1 DEF Untouched
  <2> QED
    BY <1>1, <1>4, <2>1, <2>2 DEF Untouched
<1>11. AnswersAreTrue'
  <2>1. \A r \in answers : RowsOf(r[1])' = RowsOf(r[1])
    BY <1>2, <1>5, <1>7, Holder
  <2> QED
    BY <1>1, <1>2, <2>1 DEF AnswersAreTrue
<1>12. AllOrNothing'
  <2> SUFFICES ASSUME NEW c \in Callers, command[c].op = "append"
               PROVE  Cardinality(RowsOf(command[c])') \in {0, Len(command[c].streams)}
    BY <1>1 DEF AllOrNothing
  <2>1. CASE \E k \in Applied : k.id = command[c].id
    <3>1. PICK o \in Elements(outcomes) : o.command.id = command[c].id /\ o.command \in Unanswered
      BY <1>5, <2>1 DEF Applied
    <3>2. o.command = command[c]
      BY <1>2, <3>1, Holder
    <3>3. RowsOf(o.command)' = RowsOf(command[c])'
      BY <1>1, <3>2 DEF RowsOf
    <3> QED
      BY <1>8, <3>2, <3>3 DEF Complete
  <2>2. CASE \A k \in Applied : k.id # command[c].id
    <3>1. RowsOf(command[c])' = RowsOf(command[c])
      BY <1>1, <1>7, <2>2 DEF RowsOf
    <3> QED
      BY <1>2, <3>1 DEF AllOrNothing
  <2> QED
    BY <2>1, <2>2
<1>13. OutcomesAreTrue'
  BY <1>1, <1>8 DEF OutcomesAreTrue, RowsOf
<1> QED
  BY <1>4, <1>9, <1>10, <1>11, <1>12, <1>13 DEF AnswersInv

LEMMA AnswersWriterEnds ==
    ASSUME TypeOK, AnswersInv, NEW state \in {"stopped", "died"}, NEW m \in SUBSET Unanswered, NEW r,
           WriterEnds(state, m, r), writer # "publish" \/ outcomes = <<>>,
           r = "ok" => m \subseteq stopping
    PROVE  AnswersInv'
<1>1. /\ writer' = state /\ queue' = <<>> /\ batch' = <<>> /\ todo' = <<>> /\ stopping' = {} /\ outcomes' = <<>>
      /\ UNCHANGED <<command, ever, calls>>
  BY DEF WriterEnds
<1>2. Unanswered' = {} /\ Waiting' = {} /\ Applied' = {}
  BY <1>1, ElementsEmpty DEF Unanswered, Waiting, Applied
<1>3. InOnePlace /\ Numbered /\ Untouched
  BY DEF AnswersInv
<1>4. \A k \in Unanswered : RowsOf(k) = {} /\ Cardinality(RowsOf(k)) = 0
  <2>1. Unanswered = Waiting \union Applied
    BY InTransit
  <2>2. outcomes = <<>> => Applied = {}
    BY ElementsEmpty DEF Applied
  <2> QED
    BY <1>3, <2>1, <2>2, FS_EmptySet DEF Untouched
<1>5. \A c \in Callers : pc'[c] = IF c \in {k.by : k \in Unanswered} THEN "idle" ELSE pc[c]
  <2>1. m \union (Unanswered \ m) = Unanswered
    OBVIOUS
  <2>2. pc' = [c \in Callers |-> IF c \in {k.by : k \in Unanswered} THEN "idle" ELSE pc[c]]
    BY <2>1 DEF WriterEnds
  <2> QED
    BY <2>2
<1>6. \A a \in answers' \ answers : a[1] \in Unanswered /\ (a[2] = "ok" => a[1] \in stopping)
  BY DEF WriterEnds
<1>7. \A a \in answers' \ answers :
        /\ \E c \in Callers : a[1] = command[c] /\ command[c].id > 0 /\ pc'[c] = "idle"
        /\ a[1].op = "append" =>
             Cardinality(RowsOf(a[1])) = IF a[2] = "ok" THEN Len(a[1].streams) ELSE 0
  <2> SUFFICES ASSUME NEW a \in answers' \ answers
               PROVE  /\ \E c \in Callers : a[1] = command[c] /\ command[c].id > 0 /\ pc'[c] = "idle"
                      /\ a[1].op = "append" =>
                           Cardinality(RowsOf(a[1])) = IF a[2] = "ok" THEN Len(a[1].streams) ELSE 0
    OBVIOUS
  <2>1. a[1] \in Unanswered /\ (a[2] = "ok" => a[1] \in stopping)
    BY <1>6
  <2>2. a[1].by \in Callers /\ command[a[1].by] = a[1] /\ a[1].id > 0
    BY <1>3, <2>1, Holder
  <2>3. pc'[a[1].by] = "idle"
    BY <1>5, <2>1, <2>2
  <2>4. a[2] = "ok" => a[1].op # "append"
    BY <1>3, <2>1 DEF InOnePlace
  <2> QED
    BY <1>4, <2>1, <2>2, <2>3, <2>4
<1>8. InOnePlace'
  BY <1>1, <1>2, ElementsEmpty DEF InOnePlace, Distinct
<1>9. Numbered' /\ Untouched' /\ AnswersAreTrue' /\ AllOrNothing'
  BY <1>1, <1>2, <1>5, <1>7, AnswersKept
<1>10. OutcomesAreTrue'
  BY <1>1 DEF OutcomesAreTrue
<1> QED
  BY <1>8, <1>9, <1>10 DEF AnswersInv

LEMMA AnswersStops ==
    ASSUME TypeOK, AnswersInv, CommitFails \/ TransactionFails \/ Stop
    PROVE  AnswersInv'
<1>1. Applied \subseteq Unanswered /\ stopping \subseteq Unanswered /\ {} \subseteq Unanswered
  BY DEF Applied, Unanswered
<1>2. ASSUME CommitFails PROVE AnswersInv'
  BY <1>1, <1>2, AnswersWriterEnds DEF CommitFails, Applied
<1>3. ASSUME TransactionFails PROVE AnswersInv'
  BY <1>1, <1>3, AnswersWriterEnds DEF TransactionFails
<1>4. ASSUME Stop PROVE AnswersInv'
  BY <1>1, <1>4, AnswersWriterEnds DEF Stop
<1> QED
  BY <1>2, <1>3, <1>4

LEMMA AnswersPublishEvent ==
    ASSUME TypeOK, AnswersInv, PublishEvent
    PROVE  AnswersInv'
<1> DEFINE n == Len(outcomes)
<1>1. /\ writer = "publish" /\ writer' = writer
      /\ UNCHANGED <<queue, pc, command, batch, todo, stopping, ever, answers, calls>>
  BY DEF PublishEvent, handle, history
<1>2. /\ n \in Nat /\ DOMAIN outcomes = 1 .. n /\ DOMAIN outcomes' = 1 .. n
      /\ \A i \in 1 .. n : outcomes'[i].command = outcomes[i].command /\ outcomes'[i].ok = outcomes[i].ok
  BY OutcomesAfterPublish
<1> HIDE DEF n
<1>3. Len(outcomes') = Len(outcomes)
  <2>1. outcomes \in Seq(Outcome) /\ outcomes' \in Seq(Outcome)
    BY TypePublishEvent DEF TypeOK
  <2>2. Len(outcomes) \in Nat /\ Len(outcomes') \in Nat /\ 1 .. Len(outcomes) = 1 .. Len(outcomes')
    BY <1>2, <2>1
  <2> QED
    BY <2>2
<1>4. InOnePlace' /\ Waiting' = Waiting /\ Applied' = Applied
  BY <1>1, <1>2, <1>3, PlacesKept DEF AnswersInv
<1>5. Numbered' /\ Untouched' /\ AnswersAreTrue' /\ AllOrNothing'
  BY <1>1, <1>4, AnswersKept
<1>6. OutcomesAreTrue'
  <2>1. ASSUME NEW o \in Elements(outcomes') PROVE Complete(o, Cardinality(RowsOf(o.command)))
    <3>1. PICK i \in 1 .. n : o = outcomes'[i]
      BY <1>2 DEF Elements
    <3>2. outcomes[i] \in Elements(outcomes) /\ o.command = outcomes[i].command /\ o.ok = outcomes[i].ok
      BY <1>2, <3>1 DEF Elements
    <3>3. Complete(outcomes[i], Cardinality(RowsOf(outcomes[i].command)))
      BY <1>1, <3>2 DEF AnswersInv, OutcomesAreTrue
    <3> QED
      BY <3>2, <3>3 DEF Complete
  <2>2. \A o \in Elements(outcomes') : Complete(o, Cardinality({e \in ever' : e.call = o.command.id}))
    BY <1>1, <2>1 DEF RowsOf
  <2> QED
    BY <1>1, <2>2 DEF OutcomesAreTrue, RowsOf
<1> QED
  BY <1>4, <1>5, <1>6 DEF AnswersInv

LEMMA AnswersReply ==
    ASSUME TypeOK, AnswersInv, Reply
    PROVE  AnswersInv'
<1> DEFINE n == Len(outcomes)
           o == Head(outcomes)
           m == o.command
<1>1. /\ writer = "publish" /\ writer' = writer /\ Answer({m}, ResultOf(o))
      /\ UNCHANGED <<queue, command, batch, todo, stopping, ever, calls>>
  BY DEF Reply
<1>2. /\ n \in Nat \ {0} /\ DOMAIN outcomes = 1 .. n /\ DOMAIN outcomes' = 1 .. n - 1
      /\ \A i \in 1 .. n - 1 : outcomes'[i] = outcomes[i + 1]
      /\ outcomes[1] = o
  BY OutcomesAfterReply
<1>3. /\ answers' = answers \union {<<m, ResultOf(o)>>}
      /\ \A c \in Callers : pc'[c] = IF c = m.by THEN "idle" ELSE pc[c]
  BY <1>1 DEF Answer
<1>4. InOnePlace /\ Numbered /\ OutcomesAreTrue
  BY DEF AnswersInv
<1>5. o \in Elements(outcomes) /\ m \in Applied /\ m \in Unanswered
  <2>1. o \in Elements(outcomes)
    BY <1>2 DEF Elements
  <2> QED
    BY <2>1 DEF Applied, Unanswered
<1> HIDE DEF n, o
<1>6. \A i \in 1 .. n - 1 : i + 1 \in DOMAIN outcomes /\ i + 1 # 1 /\ 1 \in DOMAIN outcomes
                            /\ outcomes'[i] = outcomes[i + 1] /\ i \in Int
  BY <1>2
<1>7. Elements(outcomes') \subseteq Elements(outcomes) /\ Applied' \subseteq Applied /\ m \notin Applied'
  <2>1. Elements(outcomes') \subseteq Elements(outcomes)
    BY <1>2, <1>6 DEF Elements
  <2>2. \A i \in 1 .. n - 1 : outcomes'[i].command # m
    BY <1>2, <1>4, <1>6 DEF InOnePlace
  <2>3. \A p \in Elements(outcomes') : p.command # m
    BY <1>2, <2>2 DEF Elements
  <2> QED
    BY <2>1, <2>3 DEF Applied
<1>8. Waiting' = Waiting /\ Unanswered' \subseteq Unanswered /\ m \notin Unanswered'
  <2>1. Waiting' = Waiting /\ m \notin Waiting
    BY <1>1, <1>4, <1>5 DEF Waiting, InOnePlace
  <2>2. Unanswered = Waiting \union Applied /\ Unanswered' = Waiting' \union Applied'
    BY DEF Unanswered, Waiting, Applied
  <2> QED
    BY <1>7, <2>1, <2>2
<1>9. /\ m.by \in Callers /\ command[m.by] = m /\ m.id > 0
      /\ \A k \in Unanswered : command[k.by] = k /\ pc[k.by] = "reply" /\ k.by \in Callers
  BY <1>4, <1>5, Holder
<1>10. InOnePlace'
  <2>1. \A k \in Unanswered' : command'[k.by] = k /\ pc'[k.by] = "reply"
    BY <1>1, <1>3, <1>8, <1>9
  <2>2. ASSUME NEW i \in DOMAIN outcomes', NEW j \in DOMAIN outcomes',
               outcomes'[i].command = outcomes'[j].command
        PROVE  i = j
    <3>1. i + 1 = j + 1
      <4>1. /\ i + 1 \in DOMAIN outcomes /\ j + 1 \in DOMAIN outcomes
            /\ outcomes[i + 1].command = outcomes[j + 1].command
        BY <1>2, <1>6, <2>2
      <4> QED
        BY <1>4, <4>1 DEF InOnePlace
    <3> QED
      BY <1>2, <1>6, <3>1
  <2> QED
    BY <1>1, <1>4, <1>7, <2>1, <2>2 DEF InOnePlace, Distinct
<1>11. Numbered' /\ Untouched' /\ AnswersAreTrue' /\ AllOrNothing'
  <2>1. \A r \in answers' \ answers :
          /\ \E c \in Callers : r[1] = command[c] /\ command[c].id > 0 /\ pc'[c] = "idle"
          /\ r[1].op = "append" =>
               Cardinality(RowsOf(r[1])) = IF r[2] = "ok" THEN Len(r[1].streams) ELSE 0
    <3>1. \A r \in answers' \ answers : r[1] = m /\ r[2] = ResultOf(o)
      BY <1>3
    <3>2. Complete(o, Cardinality(RowsOf(m)))
      BY <1>1, <1>4, <1>5 DEF OutcomesAreTrue
    <3>3. pc'[m.by] = "idle"
      BY <1>3, <1>9
    <3> QED
      BY <1>9, <3>1, <3>2, <3>3 DEF Complete, ResultOf
  <2> QED
    BY <1>1, <1>3, <1>8, <2>1, AnswersKept
<1>12. OutcomesAreTrue'
  BY <1>1, <1>4, <1>7 DEF OutcomesAreTrue, RowsOf, Complete
<1> QED
  BY <1>10, <1>11, <1>12 DEF AnswersInv

LEMMA AnswersRestart ==
    ASSUME TypeOK, AnswersInv, Restart
    PROVE  AnswersInv'
<1>1. /\ writer' = "idle" /\ queue' = <<>> /\ batch' = <<>> /\ todo' = <<>> /\ stopping' = {} /\ outcomes' = <<>>
      /\ UNCHANGED <<command, ever, calls, answers>> /\ \A c \in Callers : pc'[c] = "idle"
  BY DEF Restart
<1>2. Unanswered' = {} /\ Waiting' = {} /\ Applied' = {}
  BY <1>1, ElementsEmpty DEF Unanswered, Waiting, Applied
<1>3. InOnePlace'
  BY <1>1, <1>2, ElementsEmpty DEF InOnePlace, Distinct
<1>4. Numbered' /\ Untouched' /\ AnswersAreTrue' /\ AllOrNothing'
  BY <1>1, <1>2, AnswersKept
<1>5. OutcomesAreTrue'
  BY <1>1 DEF OutcomesAreTrue
<1> QED
  BY <1>3, <1>4, <1>5 DEF AnswersInv

LEMMA AnswersStep == TypeOK /\ Inductive /\ FeedInv /\ AnswersInv /\ [Next]_vars => AnswersInv'
<1> SUFFICES ASSUME TypeOK, Inductive, FeedInv, AnswersInv, [Next]_vars PROVE AnswersInv'
  OBVIOUS
<1>1. CASE FinishBatch
  <2>1. OutcomesAreTrue'
    BY <1>1 DEF FinishBatch, OutcomesAreTrue
  <2> QED
    BY <1>1, <2>1, AnswersQuiet DEF FinishBatch, tx, history
<1>2. CASE UNCHANGED vars
  <2>1. OutcomesAreTrue'
    BY <1>2 DEF vars, tx, history, OutcomesAreTrue, AnswersInv, Complete, RowsOf
  <2> QED
    BY <1>2, <2>1, AnswersQuiet DEF vars, tx, history
<1> QED
  BY <1>1, <1>2, AnswersSubmit, AnswersSend, AnswersTakeBatch, AnswersSortCommand, AnswersBegin,
     AnswersInsertEvent, AnswersCommandEnds, AnswersCommit, AnswersStops, AnswersPublishEvent,
     AnswersReply, AnswersRestart
  DEF Next, WriterStep

LEMMA AnswersInvariant == Spec => []AnswersInv
<1>1. Init => FeedInv /\ AnswersInv
  BY FeedInit, AnswersInit
<1>2. TypeOK /\ Inductive /\ FeedInv /\ AnswersInv /\ [Next]_vars => (FeedInv /\ AnswersInv)'
  BY FeedStep, AnswersStep
<1> QED
  BY <1>1, <1>2, TypeInvariant, InductiveInvariant, PTL DEF Spec

(* A reply is the truth about the call: ok means all its events are committed, anything else
   that none is or ever will be, however commands queue, fail, and wait for one another. *)
THEOREM AnswersTruthful == Spec => []AnswersAreTrue
<1>1. AnswersInv => AnswersAreTrue
  BY DEF AnswersInv
<1> QED
  BY <1>1, AnswersInvariant, PTL

(* A call nobody heard the answer of has all its events in the history or none. *)
THEOREM CallsAtomic == Spec => []AllOrNothing
<1>1. AnswersInv => AllOrNothing
  BY DEF AnswersInv
<1> QED
  BY <1>1, AnswersInvariant, PTL

-----------------------------------------------------------------------------
(***************************************************************************)
(* The invariant behind NothingLost: what the open transaction has removed *)
(* of the committed rows and of the batch's was removed by a command of    *)
(* the batch; the rows of the command under way are all there, and the     *)
(* cached head of each of its streams is the last of them.                 *)
(***************************************************************************)
AllRemoved(R) ==
    /\ \A e \in rows \ R : \E i \in DOMAIN outcomes : Removes(outcomes[i], e)
    /\ \A i \in DOMAIN outcomes : \A e \in Elements(outcomes[i].stored) \ R :
          \E j \in i .. Len(outcomes) : Removes(outcomes[j], e)

LastOfStream(s) == \E i \in DOMAIN stored : stored[i].stream = s /\ stored[i].stream_seq = heads[s]

LossesExplained ==
    writer = "apply" =>
        /\ AllRemoved(work) /\ AllRemoved(savedRows)
        /\ Elements(stored) \subseteq work
        /\ \A k \in DOMAIN stored :
              stored[k].stream = Head(todo).streams[k] /\ LastOfStream(stored[k].stream)

(***************************************************************************)
(* The invariant behind ShutdownAnswersAll: once a shutdown is taken the   *)
(* queue is closed and empty, and a batch has no command left to sort or   *)
(* apply when the writer is done with those steps.                         *)
(***************************************************************************)
Drained ==
    /\ ~receiving => queue = <<>>
    /\ stopping # {} \/ (\E m \in Elements(batch) : m.op = "shutdown") => ~receiving
    /\ writer # "sort" => batch = <<>>
    /\ writer \notin {"sort", "apply"} => todo = <<>>

LEMMA DrainedStep == TypeOK /\ Drained /\ [Next]_vars => Drained'
<1> SUFFICES ASSUME TypeOK, Drained, [Next]_vars PROVE Drained'
  OBVIOUS
<1>1. ASSUME NEW c \in Callers, NEW call \in Calls, Submit(c, call) PROVE Drained'
  BY <1>1 DEF Submit, Drained, tx
<1>2. ASSUME NEW c \in Callers, Send(c) PROVE Drained'
  BY <1>2 DEF Send, Drained, tx
<1>3. CASE TakeBatch
  <2>1. /\ writer = "idle" /\ writer' = "sort" /\ queue # <<>> /\ todo' = todo /\ stopping' = stopping
        /\ batch' = SubSeq(queue, 1, TakenLength) /\ queue' = SubSeq(queue, TakenLength + 1, Len(queue))
        /\ receiving' = (\A i \in DOMAIN batch' : batch'[i].op # "shutdown")
    BY <1>3 DEF TakeBatch
  <2>2. receiving /\ stopping = {}
    BY <2>1 DEF Drained
  <2>3. queue \in Seq(Command) /\ TakenLength \in 0 .. Len(queue)
    BY StoreAssumption DEF TypeOK, TakenLength
  <2>4. DOMAIN batch' = 1 .. TakenLength /\ \A i \in 1 .. TakenLength : batch'[i] = queue[i]
    BY <2>1, <2>3
  <2>5. (\E i \in 1 .. TakenLength : queue[i].op = "shutdown") => TakenLength = Len(queue)
    BY StoreAssumption, <2>3 DEF TakenLength
  <2>6. TakenLength = Len(queue) => queue' = <<>>
    BY <2>1, <2>3
  <2>7. ~receiving' => queue' = <<>>
    BY <2>1, <2>4, <2>5, <2>6
  <2>8. (\E m \in Elements(batch') : m.op = "shutdown") => ~receiving'
    BY <2>1 DEF Elements
  <2> QED
    BY <2>1, <2>2, <2>7, <2>8 DEF Drained
<1>4. CASE SortCommand
  <2>1. /\ writer = "sort" /\ writer' = "sort" /\ batch # <<>> /\ batch' = Tail(batch) /\ batch \in Seq(Command)
        /\ receiving' = receiving /\ queue' = queue
    BY <1>4 DEF SortCommand, TypeOK
  <2>2. Elements(batch) = {Head(batch)} \union Elements(batch')
    BY <2>1, ElementsHeadTail
  <2>3. stopping' = stopping \/ Head(batch).op = "shutdown"
    BY <1>4 DEF SortCommand
  <2> QED
    BY <2>1, <2>2, <2>3 DEF Drained
<1>5. CASE Begin \/ InsertEvent \/ Commit \/ PublishEvent \/ Reply \/ FinishBatch \/ UNCHANGED vars
  <2>1. UNCHANGED <<queue, receiving, batch, todo, stopping>>
    BY <1>5 DEF Begin, InsertEvent, Commit, PublishEvent, Reply, FinishBatch, vars, handle, tx
  <2>2. writer' \in {"sort", "apply"} \/ writer' = writer \/ todo = <<>>
    BY <1>5 DEF Begin, InsertEvent, Commit, PublishEvent, Reply, FinishBatch, vars, Drained
  <2>3. writer' # "sort" => batch = <<>>
    BY <1>5 DEF Begin, InsertEvent, Commit, PublishEvent, Reply, FinishBatch, vars, Drained
  <2>4. writer' \notin {"sort", "apply"} => todo = <<>>
    BY <1>5 DEF Begin, InsertEvent, Commit, PublishEvent, Reply, FinishBatch, vars, Drained
  <2> QED
    BY <2>1, <2>3, <2>4 DEF Drained
<1>6. CASE FinishAppend \/ ApplyDelete \/ FailCommand
  BY <1>6 DEF FinishAppend, ApplyDelete, FailCommand, EndCommand, Drained, handle
<1>7. CASE CommitFails \/ TransactionFails \/ Stop
  BY <1>7, ElementsEmpty DEF CommitFails, TransactionFails, Stop, WriterEnds, Drained
<1>8. CASE Restart
  BY <1>8, ElementsEmpty DEF Restart, Drained
<1> QED
  BY <1>1, <1>2, <1>3, <1>4, <1>5, <1>6, <1>7, <1>8 DEF Next, WriterStep

(* An orderly stop drops no command that was sent: all that waited behind the shutdown, taken
   with it or left in the queue, was committed and answered before the writer ends. *)
THEOREM ShutdownDrains == Spec => ShutdownAnswersAll
<1> DEFINE Drains == stopping # {} /\ writer = "publish" /\ writer' \in {"stopped", "died"}
                        => Unanswered = stopping
<1>1. Init => Drained
  BY ElementsEmpty DEF Init, Drained
<1>2. TypeOK /\ Drained /\ [Next]_vars => [Drains]_vars
  <2> SUFFICES ASSUME TypeOK, Drained, Next, stopping # {}, writer = "publish",
                      writer' \in {"stopped", "died"}
               PROVE  Unanswered = stopping
    OBVIOUS
  <2>1. ASSUME NEW c \in Callers, NEW call \in Calls, Submit(c, call) PROVE FALSE
    BY <2>1 DEF Submit
  <2>2. ASSUME NEW c \in Callers, Send(c) PROVE FALSE
    BY <2>2 DEF Send
  <2>3. CASE Stop
    <3>1. queue = <<>> /\ batch = <<>> /\ todo = <<>> /\ outcomes = <<>>
      BY <2>3 DEF Drained, Stop
    <3> QED
      BY <3>1, ElementsEmpty DEF Unanswered
  <2>4. CASE TakeBatch \/ SortCommand \/ Begin \/ InsertEvent \/ Commit \/ CommitFails \/ TransactionFails
    BY <2>4 DEF TakeBatch, SortCommand, Begin, InsertEvent, Commit, CommitFails, TransactionFails
  <2>5. CASE FinishAppend \/ ApplyDelete \/ FailCommand
    BY <2>5 DEF FinishAppend, ApplyDelete, FailCommand
  <2>6. CASE PublishEvent \/ Reply \/ FinishBatch \/ Restart
    BY <2>6 DEF PublishEvent, Reply, FinishBatch, Restart
  <2> QED
    BY <2>1, <2>2, <2>3, <2>4, <2>5, <2>6 DEF Next, WriterStep
<1> QED
  BY <1>1, <1>2, DrainedStep, TypeInvariant, PTL DEF Spec, ShutdownAnswersAll

-----------------------------------------------------------------------------
(* No event is lost. *)

LEMMA LossesInsertEvent ==
    ASSUME TypeOK, LossesExplained, InsertEvent
    PROVE  LossesExplained'
<1> DEFINE s == Head(todo).streams[Len(stored) + 1]
           n == Len(stored)
<1>1. /\ writer = "apply" /\ UNCHANGED <<todo, rows, savedRows, outcomes>>
  BY DEF InsertEvent, disk
<1>0. PICK h : /\ work' = work \union {NewRow(s, h)} /\ heads' = [heads EXCEPT ![s] = h + 1]
               /\ stored' = Append(stored, NewRow(s, h))
  BY DEF InsertEvent
<1> DEFINE r == NewRow(s, h)
<1>2. /\ work' = work \union {r} /\ heads' = [heads EXCEPT ![s] = h + 1]
      /\ stored' = Append(stored, r) /\ r.stream = s /\ r.stream_seq = h + 1
  BY <1>0 DEF NewRow
<1> HIDE DEF r
<1>3. stored \in Seq(Row) /\ stored' \in Seq(Row)
  BY TypeInsertEvent DEF TypeOK
<1>4. /\ n \in Nat /\ DOMAIN stored = 1 .. n /\ DOMAIN stored' = 1 .. n + 1
      /\ stored'[n + 1] = r /\ \A i \in 1 .. n : stored'[i] = stored[i]
  BY <1>2, <1>3
<1>5. r \in Row /\ s \in Streams
  <2>1. r \in Row
    <3>1. Len(stored') = n + 1 /\ n + 1 \in 1 .. Len(stored')
      BY <1>2, <1>3
    <3> QED
      BY <1>3, <1>4, <3>1
  <2> QED
    BY <1>2, <2>1 DEF Row
<1>6. heads'[s] = h + 1 /\ \A t \in Streams : t # s => heads'[t] = heads[t]
  BY <1>2, <1>5 DEF TypeOK
<1>7. AllRemoved(work') /\ AllRemoved(savedRows)
  BY <1>1, <1>2 DEF LossesExplained, AllRemoved
<1>8. Elements(stored') = Elements(stored) \union {r}
  BY <1>2, <1>3, <1>5, ElementsAppend
<1> HIDE DEF s, n
<1>9. ASSUME NEW k \in DOMAIN stored'
      PROVE  /\ stored'[k].stream = Head(todo).streams[k]
             /\ \E i \in DOMAIN stored' :
                   stored'[i].stream = stored'[k].stream /\ stored'[i].stream_seq = heads'[stored'[k].stream]
  <2>1. CASE k = n + 1
    BY <1>2, <1>4, <1>6, <2>1 DEF s, n
  <2>2. CASE k \in 1 .. n
    <3>1. stored'[k] = stored[k] /\ stored[k].stream = Head(todo).streams[k] /\ stored[k].stream \in Streams
      <4>1. stored[k] \in Row
        BY <1>3, <1>4, <2>2
      <4> QED
        BY <1>1, <1>4, <2>2, <4>1 DEF LossesExplained, Row
    <3>2. CASE stored[k].stream = s
      BY <1>2, <1>4, <1>6, <3>1, <3>2
    <3>3. CASE stored[k].stream # s
      <4>1. PICK i \in 1 .. n : stored[i].stream = stored[k].stream /\ stored[i].stream_seq = heads[stored[k].stream]
        BY <1>1, <1>4, <2>2 DEF LossesExplained, LastOfStream
      <4> QED
        BY <1>4, <1>6, <3>1, <3>3, <4>1
    <3> QED
      BY <3>1, <3>2, <3>3
  <2> QED
    BY <1>4, <2>1, <2>2
<1>10. Elements(stored') \subseteq work'
  BY <1>1, <1>2, <1>8 DEF LossesExplained
<1>11. AllRemoved(work)' /\ AllRemoved(savedRows)'
  BY <1>1, <1>7 DEF AllRemoved
<1> QED
  BY <1>1, <1>9, <1>10, <1>11 DEF LossesExplained, LastOfStream

(* A command ends, and R is the table it leaves: what is missing from it was removed before or by it. *)
LEMMA LossesEndCommand ==
    ASSUME TypeOK, LossesExplained, writer = "apply", todo # <<>>, NEW R, NEW ok \in BOOLEAN,
           NEW result \in Seq(Row), EndCommand(R, ok, result), NEW B, AllRemoved(B),
           LET o == [command |-> Head(todo), ok |-> ok, stored |-> result] IN
           \A e \in (B \ R) \union (Elements(result) \ R) : Removes(o, e)
    PROVE  LossesExplained'
<1> DEFINE n == Len(outcomes)
           o == [command |-> Head(todo), ok |-> ok, stored |-> result]
<1>1. /\ work' = R /\ savedRows' = R /\ stored' = <<>> /\ rows' = rows /\ writer' = writer
  BY DEF EndCommand, disk
<1>2. /\ n \in Nat /\ DOMAIN outcomes = 1 .. n /\ DOMAIN outcomes' = 1 .. n + 1
      /\ \A i \in 1 .. n : outcomes'[i] = outcomes[i]
  BY OutcomesAfterEnd
<1>3. outcomes'[n + 1] = o /\ Len(outcomes') = n + 1
  <2>1. Head(todo) \in Command
    BY DEF TypeOK
  <2>2. o \in Outcome /\ outcomes \in Seq(Outcome) /\ outcomes' = Append(outcomes, o)
    BY <2>1 DEF Outcome, TypeOK, EndCommand
  <2> HIDE DEF o
  <2> QED
    BY <2>2
<1>4. o.stored = result
  OBVIOUS
<1>5. \A e \in (B \ R) \union (Elements(result) \ R) : Removes(o, e)
  OBVIOUS
<1> HIDE DEF n, o
<1>6. ASSUME NEW e \in rows \ R
      PROVE  \E i \in 1 .. n + 1 : Removes(outcomes'[i], e)
  <2>1. CASE e \in B
    BY <1>2, <1>3, <1>5, <2>1
  <2>2. CASE e \notin B
    <3>1. PICK i \in 1 .. n : Removes(outcomes[i], e)
      BY <1>2, <2>2 DEF AllRemoved
    <3> QED
      BY <1>2, <3>1
  <2> QED
    BY <2>1, <2>2
<1>7. ASSUME NEW i \in 1 .. n + 1, NEW e \in Elements(outcomes'[i].stored) \ R
      PROVE  \E j \in i .. n + 1 : Removes(outcomes'[j], e)
  <2>1. n + 1 \in i .. n + 1
    BY <1>2
  <2>2. CASE i = n + 1 \/ e \in B
    BY <1>3, <1>4, <1>5, <1>7, <2>1, <2>2
  <2>3. CASE i \in 1 .. n /\ e \notin B
    <3>1. PICK j \in i .. n : Removes(outcomes[j], e)
      BY <1>2, <1>7, <2>3 DEF AllRemoved, n
    <3>2. j \in i .. n + 1 /\ outcomes'[j] = outcomes[j]
      BY <1>2, <2>3
    <3> QED
      BY <3>1, <3>2
  <2> QED
    BY <1>2, <2>2, <2>3
<1>8. AllRemoved(work)' /\ AllRemoved(savedRows)'
  BY <1>1, <1>2, <1>3, <1>6, <1>7 DEF AllRemoved
<1> QED
  BY <1>1, <1>8, ElementsEmpty DEF LossesExplained

LEMMA LossesFinishAppend ==
    ASSUME TypeOK, LossesExplained, FinishAppend
    PROVE  LossesExplained'
<1> DEFINE m == Head(todo)
           o == [command |-> Head(todo), ok |-> TRUE, stored |-> stored]
           R == Trimmed(work, Elements(m.streams), m.keep)
<1>1. /\ writer = "apply" /\ todo # <<>> /\ m.op = "append" /\ Len(stored) = Len(m.streams)
      /\ EndCommand(R, TRUE, stored)
  BY DEF FinishAppend
<1>2. stored \in Seq(Row) /\ m \in Command /\ heads \in [Streams -> Nat] /\ work \subseteq Row
  BY <1>1 DEF TypeOK
<1>3. m.streams \in Seq(Streams) /\ m.keep \in Nat
  BY <1>2 DEF Command
<1>4. AllRemoved(work) /\ Elements(stored) \subseteq work
  BY <1>1 DEF LossesExplained
<1>5. ASSUME NEW e \in work \ R
      PROVE  Removes(o, e)
  <2>1. e.stream \in Elements(m.streams) /\ m.keep > 0 /\ e.stream_seq <= heads[e.stream] - m.keep
    BY <1>5 DEF Trimmed
  <2>2. PICK k \in DOMAIN m.streams : m.streams[k] = e.stream
    BY <2>1 DEF Elements
  <2>3. k \in DOMAIN stored
    BY <1>1, <1>2, <1>3
  <2>4. stored[k].stream = e.stream
    BY <1>1, <2>2, <2>3 DEF LossesExplained
  <2>5. PICK i \in DOMAIN stored : stored[i].stream = e.stream /\ stored[i].stream_seq = heads[e.stream]
    BY <1>1, <2>3, <2>4 DEF LossesExplained, LastOfStream
  <2>6. e.stream \in Streams /\ e.stream_seq \in Nat /\ heads[e.stream] \in Nat
    BY <1>2, <1>5 DEF Row
  <2>7. stored[i].stream_seq >= e.stream_seq + m.keep
    BY <1>3, <2>1, <2>5, <2>6
  <2> HIDE DEF m
  <2> QED
    BY <1>1, <2>1, <2>5, <2>7 DEF Removes, m
<1>6. \A e \in (work \ R) \union (Elements(stored) \ R) : Removes(o, e)
  BY <1>4, <1>5
<1> HIDE DEF R
<1> QED
  BY <1>1, <1>2, <1>4, <1>6, LossesEndCommand

LEMMA LossesApplyDelete ==
    ASSUME TypeOK, LossesExplained, ApplyDelete
    PROVE  LossesExplained'
<1> DEFINE gone == Elements(Head(todo).streams)
           R    == {e \in work : e.stream \notin gone}
           o    == [command |-> Head(todo), ok |-> TRUE, stored |-> <<>>]
<1>1. writer = "apply" /\ todo # <<>> /\ Head(todo).op = "delete" /\ EndCommand(R, TRUE, <<>>)
  BY DEF ApplyDelete
<1>2. <<>> \in Seq(Row) /\ AllRemoved(work)
  BY <1>1 DEF LossesExplained
<1>3. \A e \in (work \ R) \union (Elements(<<>>) \ R) : Removes(o, e)
  BY <1>1, ElementsEmpty DEF Removes
<1> HIDE DEF R
<1> QED
  BY <1>1, <1>2, <1>3, LossesEndCommand

LEMMA LossesFailCommand ==
    ASSUME TypeOK, LossesExplained, FailCommand
    PROVE  LossesExplained'
<1>1. writer = "apply" /\ todo # <<>> /\ EndCommand(savedRows, FALSE, <<>>)
  BY DEF FailCommand, RowsAfterFailure
<1>2. <<>> \in Seq(Row) /\ AllRemoved(savedRows)
  BY <1>1 DEF LossesExplained
<1>3. (savedRows \ savedRows) \union (Elements(<<>>) \ savedRows) = {}
  BY ElementsEmpty
<1> QED
  BY <1>1, <1>2, <1>3, LossesEndCommand

LEMMA LossesStep == TypeOK /\ Inductive /\ LossesExplained /\ [Next]_vars => LossesExplained'
<1> SUFFICES ASSUME TypeOK, Inductive, LossesExplained, [Next]_vars PROVE LossesExplained'
  OBVIOUS
<1>1. ASSUME UNCHANGED <<writer, rows, todo, work, savedRows, stored, outcomes, heads>>
      PROVE  LossesExplained'
  BY <1>1 DEF LossesExplained, AllRemoved, LastOfStream
<1>2. ASSUME NEW c \in Callers, NEW call \in Calls, Submit(c, call) PROVE LossesExplained'
  BY <1>1, <1>2 DEF Submit, disk, tx
<1>3. ASSUME NEW c \in Callers, Send(c) PROVE LossesExplained'
  BY <1>1, <1>3 DEF Send, disk, tx
<1>4. CASE Begin
  <2>1. work' = rows /\ savedRows' = rows /\ rows' = rows /\ stored' = stored /\ outcomes' = outcomes
    BY <1>4 DEF Begin, disk
  <2>2. stored = <<>> /\ outcomes = <<>>
    BY <1>4 DEF Begin, Inductive, OutsideTransaction
  <2> QED
    BY <2>1, <2>2, ElementsEmpty DEF LossesExplained, AllRemoved
<1>5. CASE TakeBatch \/ SortCommand \/ Commit \/ FinishBatch
  <2>1. writer' # "apply"
    BY <1>5 DEF TakeBatch, SortCommand, Commit, FinishBatch
  <2> QED
    BY <2>1 DEF LossesExplained
<1>6. CASE PublishEvent \/ Reply \/ Restart
  <2>1. writer' # "apply"
    BY <1>6 DEF PublishEvent, Reply, Restart
  <2> QED
    BY <2>1 DEF LossesExplained
<1>7. CASE CommitFails \/ TransactionFails \/ Stop
  <2>1. writer' # "apply"
    BY <1>7 DEF CommitFails, TransactionFails, Stop, WriterEnds
  <2> QED
    BY <2>1 DEF LossesExplained
<1>8. CASE UNCHANGED vars
  BY <1>1, <1>8 DEF vars, disk, tx
<1> QED
  BY <1>2, <1>3, <1>4, <1>5, <1>6, <1>7, <1>8, LossesInsertEvent, LossesFinishAppend, LossesApplyDelete,
     LossesFailCommand
  DEF Next, WriterStep

(* A commit loses no event: a row that is gone, and one just answered ok that is not there, was
   deleted or trimmed by a command of the batch that comes no earlier than the event. *)
THEOREM CommitsLoseNothing == Spec => NothingLost
<1> DEFINE Explains ==
              /\ \A e \in rows \ rows' : \E i \in DOMAIN outcomes : Removes(outcomes[i], e)
              /\ \A i \in DOMAIN outcomes : \A e \in StoredBy(i) \ rows' :
                     \E j \in i .. Len(outcomes) : Removes(outcomes[j], e)
<1>1. Init => LossesExplained
  BY DEF Init, LossesExplained
<1>2. TypeOK /\ Inductive /\ LossesExplained /\ [Next]_vars => [Explains]_vars
  <2> SUFFICES ASSUME TypeOK, Inductive, LossesExplained, Next PROVE Explains
    OBVIOUS
  <2>1. CASE Commit
    <3>1. writer = "apply" /\ writer' = "publish" /\ rows' = work
      BY <2>1 DEF Commit
    <3> QED
      BY <3>1 DEF LossesExplained, AllRemoved, StoredBy
  <2>2. ASSUME rows' = rows, ~(writer = "apply" /\ writer' = "publish") PROVE Explains
    BY <2>2 DEF StoredBy
  <2>3. ASSUME NEW c \in Callers, NEW call \in Calls, Submit(c, call) PROVE Explains
    BY <2>2, <2>3 DEF Submit, disk
  <2>4. ASSUME NEW c \in Callers, Send(c) PROVE Explains
    BY <2>2, <2>4 DEF Send, disk
  <2>5. CASE TakeBatch \/ SortCommand \/ Begin \/ InsertEvent
    BY <2>2, <2>5 DEF TakeBatch, SortCommand, Begin, InsertEvent, disk
  <2>6. CASE FinishAppend \/ ApplyDelete \/ FailCommand
    BY <2>2, <2>6 DEF FinishAppend, ApplyDelete, FailCommand, EndCommand, disk
  <2>7. CASE CommitFails \/ TransactionFails \/ Stop
    BY <2>2, <2>7 DEF CommitFails, TransactionFails, Stop, WriterEnds, disk
  <2>8. CASE PublishEvent \/ Reply \/ FinishBatch \/ Restart
    BY <2>2, <2>8 DEF PublishEvent, Reply, FinishBatch, Restart, disk
  <2> HIDE DEF Explains
  <2> QED
    BY <2>1, <2>3, <2>4, <2>5, <2>6, <2>7, <2>8 DEF Next, WriterStep
<1> QED
  BY <1>1, <1>2, LossesStep, TypeInvariant, InductiveInvariant, PTL DEF Spec, NothingLost

-----------------------------------------------------------------------------
(* The blobs. *)

LEMMA BlobTypeInit == BlobInit => BlobTypeOK
BY DEF BlobInit, BlobTypeOK, NoChunk, Absent

LEMMA TypeHolder ==
    ASSUME BlobTypeOK, NEW c \in Holders, HolderStep(c)
    PROVE  BlobTypeOK'
<1>1. ASSUME NEW h \in Hashes, StartPut(c, h) PROVE BlobTypeOK'
  BY <1>1 DEF BlobTypeOK, StartPut, Refreshed, collector, Absent
<1>2. CASE RenameIntoPlace(c)
  BY <1>2 DEF BlobTypeOK, RenameIntoPlace, collector, Absent
<1>3. CASE PutFails(c)
  BY <1>3 DEF BlobTypeOK, PutFails, collector, Absent
<1>4. CASE Touch(c)
  BY <1>4 DEF BlobTypeOK, Touch, Refreshed, collector, Absent
<1>5. CASE AppendReference(c)
  BY <1>5 DEF BlobTypeOK, AppendReference, collector, Absent
<1>6. CASE Discard(c)
  BY <1>6 DEF BlobTypeOK, Discard, collector, Absent
<1> QED
  BY <1>1, <1>2, <1>3, <1>4, <1>5, <1>6 DEF HolderStep

LEMMA TypeCollector ==
    ASSUME BlobTypeOK, NEW g \in Collectors, CollectorStep(g)
    PROVE  BlobTypeOK'
<1>1. CASE StartGc(g)
  BY <1>1, BlobAssumption DEF BlobTypeOK, StartGc, holder, Absent
<1>2. CASE FinishListing(g)
  BY <1>2 DEF BlobTypeOK, FinishListing, holder, Absent
<1>3. CASE SendChunk(g)
  BY <1>3 DEF BlobTypeOK, SendChunk, holder, Absent
<1>4. ASSUME NEW h \in Hashes, ListEntry(g, h) PROVE BlobTypeOK'
  BY <1>4 DEF BlobTypeOK, ListEntry, holder, Absent
<1> QED
  BY <1>1, <1>2, <1>3, <1>4 DEF CollectorStep

LEMMA BlobTypeStep == BlobTypeOK /\ [BlobNext]_blobVars => BlobTypeOK'
<1> SUFFICES ASSUME BlobTypeOK, [BlobNext]_blobVars PROVE BlobTypeOK'
  OBVIOUS
<1>1. ASSUME NEW h \in Hashes, RemoveEvent(h) PROVE BlobTypeOK'
  BY <1>1 DEF BlobTypeOK, RemoveEvent, Mentioned, holder, collector, Absent
<1>2. ASSUME NEW h \in Hashes, CollectBlob(h) PROVE BlobTypeOK'
  BY <1>2 DEF BlobTypeOK, CollectBlob, holder, Absent
<1>3. CASE Tick
  BY <1>3 DEF BlobTypeOK, Tick, holder, collector, Absent
<1>4. CASE BlobRestart
  BY <1>4, BlobAssumption DEF BlobTypeOK, BlobRestart, NoChunk, Absent
<1>5. CASE UNCHANGED blobVars
  BY <1>5 DEF BlobTypeOK, blobVars, holder, collector, Absent
<1> QED
  BY <1>1, <1>2, <1>3, <1>4, <1>5, TypeHolder, TypeCollector DEF BlobNext

(* The clock, the files, the holders and the collections keep their types. *)
THEOREM BlobTypes == BlobSpec => []BlobTypeOK
BY BlobTypeInit, BlobTypeStep, PTL DEF BlobSpec

-----------------------------------------------------------------------------
LEMMA BlobInductiveInit == BlobInit => BlobInductive
BY DEF BlobInit, BlobInductive, HoldsAreFresh, CutoffsAreOld, NoDanglingReference, NoChunk

LEMMA InductiveHolder ==
    ASSUME BlobTypeOK, BlobInductive, NEW c \in Holders, HolderStep(c)
    PROVE  BlobInductive'
<1> USE BlobAssumption DEF BlobInductive, NoDanglingReference, MayReference, BlobTypeOK, Absent
<1>1. ASSUME NEW h \in Hashes, StartPut(c, h) PROVE BlobInductive'
  <2>1. HoldsAreFresh'
    BY <1>1 DEF StartPut, HoldsAreFresh, Refreshed
  <2>2. CutoffsAreOld' /\ NoDanglingReference'
    BY <1>1 DEF StartPut, CutoffsAreOld, Refreshed, collector
  <2> QED
    BY <2>1, <2>2
<1>2. CASE RenameIntoPlace(c)
  <2>1. HoldsAreFresh'
    BY <1>2 DEF RenameIntoPlace, HoldsAreFresh
  <2>2. CutoffsAreOld' /\ NoDanglingReference'
    BY <1>2 DEF RenameIntoPlace, CutoffsAreOld, collector
  <2> QED
    BY <2>1, <2>2
<1>3. CASE PutFails(c)
  BY <1>3 DEF PutFails, HoldsAreFresh, CutoffsAreOld, collector
<1>4. CASE Touch(c)
  <2>1. HoldsAreFresh'
    BY <1>4 DEF Touch, HoldsAreFresh, Refreshed
  <2>2. CutoffsAreOld' /\ NoDanglingReference'
    BY <1>4 DEF Touch, CutoffsAreOld, Refreshed, collector
  <2> QED
    BY <2>1, <2>2
<1>5. CASE AppendReference(c)
  <2>1. HoldsAreFresh' /\ CutoffsAreOld'
    BY <1>5 DEF AppendReference, HoldsAreFresh, CutoffsAreOld, collector
  <2>2. NoDanglingReference'
    BY <1>5 DEF AppendReference, HoldsAreFresh
  <2> QED
    BY <2>1, <2>2
<1>6. CASE Discard(c)
  BY <1>6 DEF Discard, HoldsAreFresh, CutoffsAreOld, collector
<1> QED
  BY <1>1, <1>2, <1>3, <1>4, <1>5, <1>6 DEF HolderStep

LEMMA InductiveCollector ==
    ASSUME BlobTypeOK, BlobInductive, NEW g \in Collectors, CollectorStep(g)
    PROVE  BlobInductive'
<1> USE BlobAssumption DEF BlobInductive, BlobTypeOK
<1>0. CASE UNCHANGED <<now, file, events, holder>> /\ CutoffsAreOld'
  BY <1>0 DEF HoldsAreFresh, NoDanglingReference, MayReference, holder
<1>1. CASE StartGc(g)
  <2>1. CutoffsAreOld'
    BY <1>1 DEF StartGc, CutoffsAreOld
  <2> QED
    BY <1>0, <1>1, <2>1 DEF StartGc
<1>2. CASE FinishListing(g)
  <2>1. CutoffsAreOld'
    BY <1>2 DEF FinishListing, CutoffsAreOld
  <2> QED
    BY <1>0, <1>2, <2>1 DEF FinishListing
<1>3. CASE SendChunk(g)
  <2>1. CutoffsAreOld'
    BY <1>3 DEF SendChunk, CutoffsAreOld
  <2> QED
    BY <1>0, <1>3, <2>1 DEF SendChunk
<1>4. ASSUME NEW h \in Hashes, ListEntry(g, h) PROVE BlobInductive'
  <2>1. CutoffsAreOld'
    BY <1>4 DEF ListEntry, CutoffsAreOld
  <2> QED
    BY <1>0, <1>4, <2>1 DEF ListEntry
<1> QED
  BY <1>1, <1>2, <1>3, <1>4 DEF CollectorStep

(***************************************************************************)
(* The heart of the argument: a file that may be collected is as old as    *)
(* the cutoff, so at least Grace old; a file somebody may still reference  *)
(* is younger than that.                                                   *)
(***************************************************************************)
LEMMA CollectSparesHolds ==
    ASSUME BlobTypeOK, BlobInductive, NEW h \in Hashes, CollectBlob(h), Collectable(h)
    PROVE  ~RecentlyHeld(h)
<1> SUFFICES ASSUME NEW c \in Holders, doing[c] = "hold", blob[c] = h, MayReference(c)
             PROVE  FALSE
  BY DEF RecentlyHeld
<1>1. file[h] >= since[c] - MaxPutTime
  BY DEF BlobInductive, HoldsAreFresh
<1>2. file[h] <= chunk.cutoff /\ chunk.cutoff <= now - Grace
  BY DEF CollectBlob, Collectable, BlobInductive, CutoffsAreOld
<1>3. file[h] \in Int /\ chunk.cutoff \in Int /\ now \in Nat /\ since[c] \in Nat
  BY DEF BlobTypeOK
<1> QED
  BY <1>1, <1>2, <1>3, BlobAssumption DEF MayReference

LEMMA InductiveCollectBlob ==
    ASSUME BlobTypeOK, BlobInductive, NEW h \in Hashes, CollectBlob(h)
    PROVE  BlobInductive'
<1>1. UNCHANGED <<now, events, doing, blob, stamp, since, gc, cutoff>>
  BY DEF CollectBlob, holder
<1>2. CutoffsAreOld'
  BY <1>1 DEF CollectBlob, BlobInductive, CutoffsAreOld, BlobTypeOK
<1>3. CASE UNCHANGED file
  BY <1>1, <1>2, <1>3 DEF BlobInductive, HoldsAreFresh, NoDanglingReference, MayReference
<1>4. CASE Collectable(h) /\ file' = [file EXCEPT ![h] = Absent]
  <2>1. \A g \in Hashes : g # h => file'[g] = file[g]
    BY <1>4 DEF BlobTypeOK
  <2>2. HoldsAreFresh'
    <3>1. \A c \in Holders : doing[c] = "hold" /\ MayReference(c) => blob[c] # h
      BY <1>4, CollectSparesHolds DEF RecentlyHeld
    <3>2. \A c \in Holders : blob[c] \in Hashes
      BY DEF BlobTypeOK
    <3> QED
      BY <1>1, <2>1, <3>1, <3>2 DEF BlobInductive, HoldsAreFresh, MayReference
  <2>3. NoDanglingReference'
    <3>1. events[h] = 0
      BY <1>4 DEF Collectable
    <3> QED
      BY <1>1, <2>1, <3>1 DEF BlobInductive, NoDanglingReference
  <2> QED
    BY <1>2, <2>2, <2>3 DEF BlobInductive
<1> QED
  BY <1>3, <1>4 DEF CollectBlob

LEMMA BlobInductiveStep == BlobTypeOK /\ BlobInductive /\ [BlobNext]_blobVars => BlobInductive'
<1> SUFFICES ASSUME BlobTypeOK, BlobInductive, [BlobNext]_blobVars PROVE BlobInductive'
  OBVIOUS
<1> USE BlobAssumption DEF BlobInductive, HoldsAreFresh, CutoffsAreOld, NoDanglingReference,
                           MayReference, BlobTypeOK
<1>1. ASSUME NEW h \in Hashes, RemoveEvent(h) PROVE BlobInductive'
  BY <1>1 DEF RemoveEvent, holder, collector
<1>2. CASE Tick
  BY <1>2 DEF Tick, holder, collector
<1>3. CASE BlobRestart
  BY <1>3 DEF BlobRestart, NoChunk
<1>4. CASE UNCHANGED blobVars
  BY <1>4 DEF blobVars, holder, collector
<1> QED
  BY <1>1, <1>2, <1>3, <1>4, InductiveHolder, InductiveCollector, InductiveCollectBlob DEF BlobNext

(* The inductive invariant of holds, files and cutoffs. *)
THEOREM BlobInvariant == BlobSpec => []BlobInductive
<1>1. BlobTypeOK /\ BlobInductive /\ [BlobNext]_blobVars => BlobInductive'
  BY BlobInductiveStep
<1> QED
  BY <1>1, BlobInductiveInit, BlobTypes, PTL DEF BlobSpec

(* Every blob a stored event mentions is there to be read. *)
THEOREM ReferencesResolve == BlobSpec => []NoDanglingReference
<1>1. BlobInductive => NoDanglingReference
  BY DEF BlobInductive
<1> QED
  BY <1>1, BlobInvariant, PTL

(* A collection takes no blob that was put or touched within its grace period. *)
THEOREM CollectionKeepsRecent == BlobSpec => RecentKept
<1> DEFINE Spares == \A h \in Hashes : file[h] # Absent /\ file'[h] = Absent => ~RecentlyHeld(h)
<1>1. BlobTypeOK /\ BlobInductive /\ [BlobNext]_blobVars => [Spares]_blobVars
  <2> SUFFICES ASSUME BlobTypeOK, BlobInductive, BlobNext, NEW h \in Hashes,
                      file[h] # Absent, file'[h] = Absent
               PROVE  ~RecentlyHeld(h)
    OBVIOUS
  <2>1. ASSUME NEW k \in Hashes, CollectBlob(k) PROVE ~RecentlyHeld(h)
    <3>1. Collectable(k) /\ k = h
      BY <2>1 DEF CollectBlob, BlobTypeOK
    <3> QED
      BY <2>1, <3>1, CollectSparesHolds
  <2>2. ASSUME NEW c \in Holders, HolderStep(c) PROVE FALSE
    BY <2>2 DEF HolderStep, StartPut, RenameIntoPlace, PutFails, Touch, AppendReference, Discard,
       Refreshed, BlobTypeOK, Absent
  <2>3. ASSUME NEW g \in Collectors, CollectorStep(g) PROVE FALSE
    BY <2>3 DEF CollectorStep, StartGc, FinishListing, SendChunk, ListEntry
  <2>4. ASSUME (\E k \in Hashes : RemoveEvent(k)) \/ Tick \/ BlobRestart PROVE FALSE
    BY <2>4 DEF RemoveEvent, Tick, BlobRestart
  <2> QED
    BY <2>1, <2>2, <2>3, <2>4 DEF BlobNext
<1> QED
  BY <1>1, BlobTypes, BlobInvariant, PTL DEF BlobSpec, RecentKept
=============================================================================

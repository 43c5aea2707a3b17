----------------------------- MODULE EventStore -----------------------------
(***************************************************************************)
(* The event store: many callers, one bounded queue, one writer thread     *)
(* that owns the database.  The writer takes what is queued, commits it in *)
(* one transaction with a savepoint per command, then publishes and        *)
(* replies.  The process may be killed between any two steps.              *)
(*                                                                         *)
(* Source: src/crates/store/src/{lib,writer,schema}.rs.                    *)
(***************************************************************************)
EXTENDS Integers, Sequences, FiniteSets

CONSTANTS
    Callers,          \* tasks of the daemon that hold a Store handle
    Streams,          \* stream names
    Calls,            \* the calls a caller may make (see Call)
    WriteQueue,       \* WRITE_QUEUE: capacity of the command queue
    MaxBatch,         \* MAX_BATCH: commands taken into one transaction
    MaxCachedHeads,   \* MAX_CACHED_HEADS
    MaxCalls,         \* bound: calls made in a behaviour
    MaxRestarts       \* bound: restarts of the process in a behaviour

(***************************************************************************)
(* A call: append events to these streams in order (keep > 0 is the        *)
(* retention that trims each of them, 0 is none), delete these streams, or *)
(* shut the store down.  The code trims with keep_last from 1 up.          *)
(***************************************************************************)
Call == [op : {"append", "delete", "shutdown"}, streams : Seq(Streams), keep : Nat]

ASSUME StoreAssumption ==
    /\ Calls \subseteq Call
    /\ WriteQueue \in Nat \ {0}
    /\ MaxBatch \in Nat \ {0}
    /\ MaxCachedHeads \in Nat
    /\ MaxCalls \in Nat
    /\ MaxRestarts \in Nat

Command == [id : Nat, by : Callers, op : {"append", "delete", "shutdown"},
            streams : Seq(Streams), keep : Nat]
Row     == [seq : Nat, stream : Streams, stream_seq : Nat, call : Nat]
Outcome == [command : Command, ok : BOOLEAN, stored : Seq(Row)]
Results == {"ok", "failed", "shutting_down", "writer_gone"}

VARIABLES
    (* on disk *)
    rows,        \* the events table, as committed
    issued,      \* sqlite_sequence of the events table, as committed
    (* handles and queue *)
    admitting,   \* Store.admitting
    queue,       \* commands sent and not yet taken
    receiving,   \* whether the writer's receiver is open
    pc,          \* per caller: idle, about to send, or awaiting its reply
    command,     \* per caller: the command it sends or waits for
    (* the writer thread *)
    writer,      \* idle, sort, apply, publish, stopped or died
    batch,       \* commands taken and not yet sorted
    todo,        \* mutations of the batch not yet applied
    stopping,    \* the shutdown commands this batch must still answer
    work,        \* the table inside the open transaction
    workIssued,  \* sqlite_sequence inside the open transaction
    savedRows,   \* the savepoint: work before this command,
    savedIssued, \* and workIssued before it
    stored,      \* rows this command inserted so far
    outcomes,    \* results of the applied mutations, in order
    heads,       \* cached last stream_seq per stream, 0 when not cached
    (* what the others see *)
    feed,        \* events broadcast since the store was opened
    lastSeq,     \* counters.last_seq
    (* history and bounds *)
    answers,     \* every reply given: <<command, result>>
    ever,        \* every row ever committed
    calls,       \* calls made
    restarts     \* restarts made

disk   == <<rows, issued>>
handle == <<admitting, queue, receiving, pc, command>>
tx     == <<batch, todo, stopping, work, workIssued, savedRows, savedIssued, stored, outcomes>>
seen   == <<feed, lastSeq>>
history == <<answers, ever, calls, restarts>>
vars == <<disk, handle, writer, tx, heads, seen, history>>

NoHeads == [s \in Streams |-> 0]
Elements(q) == {q[i] : i \in DOMAIN q}

(***************************************************************************)
(* SELECT MAX(stream_seq) FROM events WHERE stream = s, or 0 for no row.   *)
(***************************************************************************)
IsHead(R, s, h) ==
    LET mine == {e \in R : e.stream = s} IN
    \/ mine = {} /\ h = 0
    \/ (\E e \in mine : e.stream_seq = h) /\ (\A e \in mine : e.stream_seq <= h)

(* The head append() continues from: the cache's, or else the table's. *)
ContinuesFrom(s, h) ==
    IF heads[s] # 0 THEN h = heads[s] ELSE IsHead(work, s, h)

(* Mutant: a rowid without AUTOINCREMENT, one above the largest row there is. *)
RowidAfterLargest ==
    CHOOSE n \in 1 .. workIssued + 1 :
        /\ \A e \in work : e.seq < n
        /\ n = 1 \/ \E e \in work : e.seq = n - 1

(* The number AUTOINCREMENT gives the next row. *)
NextSeq == workIssued + 1

(* The row inserted for stream s after head h. *)
NewRow(s, h) ==
    [seq |-> NextSeq, stream |-> s, stream_seq |-> h + 1, call |-> Head(todo).id]

(* Mutant: trims one row too many. *)
TrimmedTooFar(R, streams, keep) ==
    {e \in R : ~ (e.stream \in streams /\ keep > 0 /\ e.stream_seq <= heads[e.stream] - keep + 1)}

(* The rows a retention of keep leaves of the streams a command appended to. *)
Trimmed(R, streams, keep) ==
    {e \in R : ~ (e.stream \in streams /\ keep > 0 /\ e.stream_seq <= heads[e.stream] - keep)}

(* Mutants: a failed command keeps the cached heads, or the rows it inserted. *)
SameHeads == heads
RowsSoFar == work

(* What a failed command leaves: no cached head, and the savepoint's rows. *)
HeadsAfterFailure == NoHeads
RowsAfterFailure  == savedRows

(* Mutant: every outcome of a committed batch is reported as a success. *)
AlwaysOk(o) == "ok"

(* The reply of an applied command. *)
ResultOf(o) == IF o.ok THEN "ok" ELSE "failed"

(* Mutant: the newest event of a command is published first. *)
LastStored(o) == o.stored[Len(o.stored)]

(* The event of a command's outcome that is published next. *)
NextToPublish(o) == Head(o.stored)

(* Mutant: the queue behind a shutdown is not drained. *)
BatchOnly == IF Len(queue) < MaxBatch THEN Len(queue) ELSE MaxBatch

(* How many queued commands a batch takes: everything when it holds a shutdown. *)
TakenLength ==
    LET n == IF Len(queue) < MaxBatch THEN Len(queue) ELSE MaxBatch
    IN  IF \E i \in 1..n : queue[i].op = "shutdown" THEN Len(queue) ELSE n

(* Mutant: the commands still queued are not told that the writer is gone. *)
BatchUnanswered == Elements(batch) \union Elements(todo) \union stopping
                   \union {o.command : o \in Elements(outcomes)}

(* Commands whose reply channel is dropped with the receiver or the batch. *)
Unanswered == Elements(queue) \union Elements(batch) \union Elements(todo) \union stopping
              \union {o.command : o \in Elements(outcomes)}

Answer(commands, result) ==
    /\ answers' = answers \union (commands \X {result})
    /\ pc' = [c \in Callers |-> IF c \in {m.by : m \in commands} THEN "idle" ELSE pc[c]]

-----------------------------------------------------------------------------
Init ==
    /\ rows = {} /\ issued = 0
    /\ admitting = TRUE /\ queue = <<>> /\ receiving = TRUE
    /\ pc = [c \in Callers |-> "idle"]
    /\ command = [c \in Callers |-> [id |-> 0, by |-> c, op |-> "append", streams |-> <<>>, keep |-> 0]]
    /\ writer = "idle" /\ batch = <<>> /\ todo = <<>> /\ stopping = {}
    /\ work = {} /\ workIssued = 0 /\ savedRows = {} /\ savedIssued = 0 /\ stored = <<>> /\ outcomes = <<>>
    /\ heads = NoHeads
    /\ feed = <<>> /\ lastSeq = 0
    /\ answers = {} /\ ever = {} /\ calls = 0 /\ restarts = 0

-----------------------------------------------------------------------------
(* The callers: Store::append_with, Store::delete, Store::shutdown. *)

(***************************************************************************)
(* A caller checks `admitting` (a shutdown clears it instead) and builds   *)
(* its command.  Sending it is a later step: the send awaits queue space.  *)
(***************************************************************************)
Submit(c, call) ==
    /\ pc[c] = "idle" /\ calls < MaxCalls
    /\ calls' = calls + 1
    /\ command' = [command EXCEPT ![c] =
           [id |-> calls', by |-> c, op |-> call.op, streams |-> call.streams, keep |-> call.keep]]
    /\ admitting' = (admitting /\ call.op # "shutdown")
    /\ IF admitting \/ call.op = "shutdown"
         THEN /\ pc' = [pc EXCEPT ![c] = "send"]
              /\ UNCHANGED answers
         ELSE /\ answers' = answers \union {<<command'[c], "shutting_down">>}
              /\ UNCHANGED pc
    /\ UNCHANGED <<disk, queue, receiving, writer, tx, heads, seen, ever, restarts>>

(* The send completes: the command is queued, or the receiver is gone. *)
Send(c) ==
    /\ pc[c] = "send"
    /\ \/ /\ receiving /\ Len(queue) < WriteQueue
          /\ queue' = Append(queue, command[c])
          /\ pc' = [pc EXCEPT ![c] = "reply"]
          /\ UNCHANGED answers
       \/ /\ ~receiving
          /\ answers' = answers \union {<<command[c], "writer_gone">>}
          /\ pc' = [pc EXCEPT ![c] = "idle"]
          /\ UNCHANGED queue
    /\ UNCHANGED <<disk, admitting, receiving, command, writer, tx, heads, seen, ever, calls, restarts>>

-----------------------------------------------------------------------------
(* The writer thread: Writer::run and Writer::commit. *)

(***************************************************************************)
(* The writer takes up to MaxBatch queued commands.  If one of them is a   *)
(* shutdown it closes the queue and takes the rest as well.                *)
(***************************************************************************)
TakeBatch ==
    /\ writer = "idle" /\ queue # <<>>
    /\ batch' = SubSeq(queue, 1, TakenLength)
    /\ queue' = SubSeq(queue, TakenLength + 1, Len(queue))
    /\ receiving' = (\A i \in DOMAIN batch' : batch'[i].op # "shutdown")
    /\ writer' = "sort"
    /\ UNCHANGED <<disk, admitting, pc, command, todo, stopping, work, workIssued, savedRows,
                   savedIssued, stored, outcomes, heads, seen, history>>

(* Sorted::push: mutations keep their order, the first shutdown is kept to *)
(* be answered last, any other is answered at once.                        *)
SortCommand ==
    /\ writer = "sort" /\ batch # <<>>
    /\ LET m == Head(batch) IN
       \/ /\ m.op # "shutdown"
          /\ todo' = Append(todo, m)
          /\ UNCHANGED <<stopping, pc, answers>>
       \/ /\ m.op = "shutdown" /\ stopping = {}
          /\ stopping' = {m}
          /\ UNCHANGED <<todo, pc, answers>>
       \/ /\ m.op = "shutdown" /\ stopping # {}
          /\ Answer({m}, "ok")
          /\ UNCHANGED <<todo, stopping>>
    /\ batch' = Tail(batch)
    /\ UNCHANGED <<disk, admitting, queue, receiving, command, writer, work, workIssued, savedRows,
                   savedIssued, stored, outcomes, heads, seen, ever, calls, restarts>>

(* The batch is sorted: open the transaction on the committed table. *)
Begin ==
    /\ writer = "sort" /\ batch = <<>>
    /\ writer' = "apply"
    /\ work' = rows /\ workIssued' = issued /\ savedRows' = rows /\ savedIssued' = issued
    /\ UNCHANGED <<disk, handle, batch, todo, stopping, stored, outcomes, heads, seen, history>>

(* append(): one INSERT of the command at the head of the batch. *)
InsertEvent ==
    /\ writer = "apply" /\ todo # <<>> /\ Head(todo).op = "append"
    /\ Len(stored) < Len(Head(todo).streams)
    /\ LET s == Head(todo).streams[Len(stored) + 1] IN
       \E h \in {0, heads[s]} \union {e.stream_seq : e \in work} :
          /\ ContinuesFrom(s, h)
          /\ work' = work \union {NewRow(s, h)}
          /\ heads' = [heads EXCEPT ![s] = h + 1]
          /\ stored' = Append(stored, NewRow(s, h))
    /\ workIssued' = NextSeq
    /\ UNCHANGED <<disk, handle, writer, batch, todo, stopping, savedRows, savedIssued, outcomes, seen, history>>

(* The mutation at the head of the batch ends: its savepoint is released. *)
EndCommand(R, ok, result) ==
    /\ work' = R /\ savedRows' = R /\ savedIssued' = workIssued'
    /\ outcomes' = Append(outcomes, [command |-> Head(todo), ok |-> ok, stored |-> result])
    /\ todo' = Tail(todo) /\ stored' = <<>>
    /\ UNCHANGED <<disk, handle, writer, batch, stopping, seen, history>>

(* append(): every event is inserted; trim the streams it touched. *)
FinishAppend ==
    /\ writer = "apply" /\ todo # <<>> /\ Head(todo).op = "append"
    /\ Len(stored) = Len(Head(todo).streams)
    /\ UNCHANGED <<workIssued, heads>>
    /\ EndCommand(Trimmed(work, Elements(Head(todo).streams), Head(todo).keep), TRUE, stored)

(* delete(): the streams' rows and their cached heads go. *)
ApplyDelete ==
    /\ writer = "apply" /\ todo # <<>> /\ Head(todo).op = "delete"
    /\ UNCHANGED workIssued
    /\ LET gone == Elements(Head(todo).streams) IN
       /\ EndCommand({e \in work : e.stream \notin gone}, TRUE, <<>>)
       /\ heads' = [s \in Streams |-> IF s \in gone THEN 0 ELSE heads[s]]

(* A command fails part way: roll back to its savepoint, forget the heads. *)
FailCommand ==
    /\ writer = "apply" /\ todo # <<>>
    /\ workIssued' = savedIssued
    /\ EndCommand(RowsAfterFailure, FALSE, <<>>)
    /\ heads' = HeadsAfterFailure

(* The transaction commits: readers see it from here on. *)
Commit ==
    /\ writer = "apply" /\ todo = <<>>
    /\ rows' = work /\ issued' = workIssued
    /\ ever' = ever \union work \union UNION {Elements(o.stored) : o \in Elements(outcomes)}
    /\ writer' = "publish"
    /\ UNCHANGED <<handle, tx, heads, seen, answers, calls, restarts>>

(***************************************************************************)
(* The writer ends for good.  Its batch and receiver are dropped, so every *)
(* call not answered before learns that the writer is gone.                *)
(***************************************************************************)
WriterEnds(state, commands, result) ==
    /\ writer' = state
    /\ LET dropped == Unanswered \ commands IN
       /\ answers' = answers \union (commands \X {result}) \union (dropped \X {"writer_gone"})
       /\ pc' = [c \in Callers |->
                   IF c \in {m.by : m \in commands \union dropped} THEN "idle" ELSE pc[c]]
    /\ queue' = <<>> /\ receiving' = FALSE
    /\ batch' = <<>> /\ todo' = <<>> /\ stopping' = {} /\ stored' = <<>> /\ outcomes' = <<>>
    /\ work' = rows /\ workIssued' = issued /\ savedRows' = rows /\ savedIssued' = issued
    /\ UNCHANGED <<disk, admitting, command, seen, ever, calls, restarts>>

(* COMMIT itself fails: every command of the batch fails, the writer dies. *)
CommitFails ==
    /\ writer = "apply" /\ todo = <<>> /\ outcomes # <<>>
    /\ WriterEnds("died", {o.command : o \in Elements(outcomes)}, "failed")
    /\ heads' = NoHeads

(* SAVEPOINT or RELEASE fails: the batch is dropped unanswered.  (So it is *)
(* when BEGIN fails, before anything is applied: the same outcome.)        *)
TransactionFails ==
    /\ writer = "apply" /\ todo # <<>>
    /\ Len(stored) \in {0, Len(Head(todo).streams)}
    /\ WriterEnds("died", {}, "failed")
    /\ UNCHANGED heads

(* After the commit: one event goes to the counter and the live feed. *)
PublishEvent ==
    /\ writer = "publish" /\ outcomes # <<>> /\ Head(outcomes).stored # <<>>
    /\ LET o == Head(outcomes)
           e == NextToPublish(o)
       IN /\ lastSeq' = e.seq
          /\ feed' = Append(feed, e)
          /\ outcomes' = <<[command |-> o.command, ok |-> o.ok, stored |-> Tail(o.stored)]>>
                          \o Tail(outcomes)
    /\ UNCHANGED <<disk, handle, writer, batch, todo, stopping, work, workIssued, savedRows, savedIssued,
                   stored, heads, history>>

(* The command's events are all out: reply to its caller. *)
Reply ==
    /\ writer = "publish" /\ outcomes # <<>> /\ Head(outcomes).stored = <<>>
    /\ Answer({Head(outcomes).command}, ResultOf(Head(outcomes)))
    /\ outcomes' = Tail(outcomes)
    /\ UNCHANGED <<disk, admitting, queue, receiving, command, writer, batch, todo, stopping, work,
                   workIssued, savedRows, savedIssued, stored, heads, seen, ever, calls, restarts>>

(* The batch is done: bound the cache and wait for the next one. *)
FinishBatch ==
    /\ writer = "publish" /\ outcomes = <<>> /\ stopping = {}
    /\ writer' = "idle"
    /\ heads' = IF Cardinality({s \in Streams : heads[s] # 0}) > MaxCachedHeads THEN NoHeads ELSE heads
    /\ UNCHANGED <<disk, handle, tx, seen, history>>

(* The batch held a shutdown: truncate the WAL, answer it and end. *)
Stop ==
    /\ writer = "publish" /\ outcomes = <<>> /\ stopping # {}
    /\ \/ WriterEnds("stopped", stopping, "ok")
       \/ WriterEnds("died", stopping, "failed")
    /\ UNCHANGED heads

WriterStep ==
    \/ TakeBatch \/ SortCommand \/ Begin \/ InsertEvent \/ FinishAppend \/ ApplyDelete \/ FailCommand
    \/ Commit \/ CommitFails \/ TransactionFails
    \/ PublishEvent \/ Reply \/ FinishBatch \/ Stop

-----------------------------------------------------------------------------
(***************************************************************************)
(* The process is killed (or exits after its writer ended) and Store::open *)
(* runs in the next one: what was committed is there, nothing else is.     *)
(***************************************************************************)
Restart ==
    /\ restarts < MaxRestarts
    /\ restarts' = restarts + 1
    /\ admitting' = TRUE /\ queue' = <<>> /\ receiving' = TRUE
    /\ pc' = [c \in Callers |-> "idle"]
    /\ writer' = "idle" /\ batch' = <<>> /\ todo' = <<>> /\ stopping' = {} /\ stored' = <<>> /\ outcomes' = <<>>
    /\ work' = rows /\ workIssued' = issued /\ savedRows' = rows /\ savedIssued' = issued
    /\ heads' = NoHeads /\ feed' = <<>> /\ lastSeq' = issued
    /\ UNCHANGED <<disk, command, answers, ever, calls>>

Next ==
    \/ \E c \in Callers, call \in Calls : Submit(c, call)
    \/ \E c \in Callers : Send(c)
    \/ WriterStep
    \/ Restart

Spec == Init /\ [][Next]_vars

(***************************************************************************)
(* The writer's thread is scheduled and a caller's task is polled; nothing *)
(* obliges a caller to make a call, a command to fail, or a restart.       *)
(***************************************************************************)
FairSpec == Spec /\ WF_vars(WriterStep) /\ \A c \in Callers : WF_vars(Send(c))

-----------------------------------------------------------------------------
TypeOK ==
    /\ rows \subseteq Row /\ issued \in Nat
    /\ admitting \in BOOLEAN /\ queue \in Seq(Command) /\ receiving \in BOOLEAN
    /\ pc \in [Callers -> {"idle", "send", "reply"}]
    /\ command \in [Callers -> Command]
    /\ writer \in {"idle", "sort", "apply", "publish", "stopped", "died"}
    /\ batch \in Seq(Command) /\ todo \in Seq(Command) /\ stopping \subseteq Command
    /\ work \subseteq Row /\ workIssued \in Nat
    /\ savedRows \subseteq Row /\ savedIssued \in Nat
    /\ stored \in Seq(Row) /\ outcomes \in Seq(Outcome)
    /\ heads \in [Streams -> Nat]
    /\ feed \in Seq(Row) /\ lastSeq \in Nat
    /\ answers \subseteq Command \X Results /\ ever \subseteq Row
    /\ calls \in Nat /\ restarts \in Nat

(***************************************************************************)
(* The cache of heads is authoritative (the comment on Writer.heads): what *)
(* it holds for a stream is the last position of the stream in the table   *)
(* the writer is working on, through failures, deletes and trims.          *)
(***************************************************************************)
HeadsAgree ==
    writer \in {"idle", "sort", "apply", "publish"} =>
        \A s \in Streams : heads[s] # 0 => IsHead(work, s, heads[s])

(***************************************************************************)
(* StoredEvent.seq is unique for good: no two rows ever committed share a  *)
(* number, across deletes, rolled back commands and restarts.              *)
(***************************************************************************)
SeqNeverReused == \A e, f \in ever : e.seq = f.seq => e = f

(* The rows of one call that were ever committed. *)
RowsOf(m) == {e \in ever : e.call = m.id}

(***************************************************************************)
(* A caller can trust its reply: an append answered ok was committed with  *)
(* all its events, and one answered any other way left nothing behind.     *)
(***************************************************************************)
AnswersAreTrue ==
    \A a \in answers : a[1].op = "append" =>
        Cardinality(RowsOf(a[1])) = IF a[2] = "ok" THEN Len(a[1].streams) ELSE 0

(***************************************************************************)
(* Store::append is atomic even when nobody hears the answer: after any    *)
(* failure or kill a call has all of its events in the history or none.    *)
(***************************************************************************)
AllOrNothing ==
    \A c \in Callers : command[c].op = "append" =>
        Cardinality(RowsOf(command[c])) \in {0, Len(command[c].streams)}

(***************************************************************************)
(* Subscribers see committed events only, in the order of their numbers,   *)
(* and miss none committed by this process once a batch is done.           *)
(***************************************************************************)
FeedInOrder ==
    /\ Elements(feed) \subseteq ever
    /\ \A i, j \in DOMAIN feed : i < j => feed[i].seq < feed[j].seq
    /\ writer \in {"idle", "stopped"} =>
           \A e \in ever : /\ e.seq <= lastSeq
                           /\ feed # <<>> /\ feed[1].seq <= e.seq => e \in Elements(feed)

(***************************************************************************)
(* A commit loses no event: a row of the table that is gone after it, and  *)
(* an event the batch answered ok that is not there, were removed by a     *)
(* command of the batch, not an earlier one than stored the event, which   *)
(* deleted its stream or trimmed it to keep newer events.                  *)
(***************************************************************************)
Removes(o, e) ==
    /\ o.ok /\ e.stream \in Elements(o.command.streams)
    /\ \/ o.command.op = "delete"
       \/ /\ o.command.op = "append" /\ o.command.keep > 0
          /\ \E i \in DOMAIN o.stored : o.stored[i].stream = e.stream
                    /\ o.stored[i].stream_seq >= e.stream_seq + o.command.keep

StoredBy(i) == IF writer = "apply" /\ writer' = "publish" THEN Elements(outcomes[i].stored) ELSE {}

NothingLost ==
    [][/\ \A e \in rows \ rows' : \E i \in DOMAIN outcomes : Removes(outcomes[i], e)
       /\ \A i \in DOMAIN outcomes : \A e \in StoredBy(i) \ rows' :
              \E j \in i .. Len(outcomes) : Removes(outcomes[j], e)]_vars

(***************************************************************************)
(* An orderly stop drops no command that was sent: when the writer stops   *)
(* (or fails to truncate the WAL) it has answered all but the shutdown.    *)
(***************************************************************************)
ShutdownAnswersAll ==
    [][stopping # {} /\ writer = "publish" /\ writer' \in {"stopped", "died"}
         => Unanswered = stopping]_vars

(* The detailed store implements the promises of EventLog. *)
Log == INSTANCE EventLog WITH rows <- rows, issued <- issued
LogSpec == Log!Spec

(***************************************************************************)
(* The inductive invariant behind HeadsAgree, SeqNeverReused and LogSpec:  *)
(* what the open transaction holds is the committed table plus the rows    *)
(* its commands inserted, numbered above everything committed; a savepoint *)
(* holds the rows of the commands that ended.                              *)
(***************************************************************************)
Kept == UNION {Elements(o.stored) : o \in Elements(outcomes)}

OutsideTransaction ==
    writer # "apply" =>
        /\ work = rows /\ workIssued = issued
        /\ writer \in {"idle", "sort"} => outcomes = <<>>
        /\ stored = <<>>

InsideTransaction ==
    writer = "apply" =>
        /\ stored # <<>> => todo # <<>> /\ Head(todo).op = "append"
        /\ issued <= savedIssued /\ savedIssued <= workIssued
        /\ work \subseteq rows \union Kept \union Elements(stored)
        /\ savedRows \subseteq rows \union Kept
        /\ \A e \in Kept : issued < e.seq /\ e.seq <= savedIssued
        /\ \A e \in Elements(stored) : savedIssued < e.seq /\ e.seq <= workIssued
        /\ Log!SeqsDistinct(Kept) /\ Log!SeqsDistinct(Elements(stored))
        /\ Log!WellFormed(work) /\ Log!WellFormed(savedRows)

Committed ==
    /\ rows \subseteq ever
    /\ \A e \in ever : e.seq <= issued
    /\ Log!WellFormed(rows)

Inductive == /\ OutsideTransaction
             /\ InsideTransaction
             /\ Committed
             /\ HeadsAgree
             /\ SeqNeverReused

(***************************************************************************)
(* Every call is answered: nobody waits for ever on a full queue, on a     *)
(* batch cut short, or behind a shutdown.                                  *)
(***************************************************************************)
EveryCallAnswered == \A c \in Callers : pc[c] # "idle" ~> pc[c] = "idle"

=============================================================================

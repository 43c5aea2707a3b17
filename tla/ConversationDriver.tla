------------------------- MODULE ConversationDriver -------------------------
(***************************************************************************)
(* One conversation: its queue, its requests and the driver that sends one *)
(* turn after another to its CLI.  The board (queue, transcript, requests, *)
(* tasks) is stored, each change of it one step under the boards' lock.    *)
(* The driver's own state is in memory under a lock of its own, which a    *)
(* driver keeps while it takes a message out of the queue; everything that *)
(* touches the board alone goes on meanwhile.  Drivers (one per kick),     *)
(* clients' calls, the orchestrator's tool calls, the pump of each CLI and *)
(* a worker's report interleave at every await.                            *)
(*                                                                         *)
(* Source: src/crates/core/src/{sessions,board}.rs and                     *)
(* src/crates/core/src/manager/{conversation,requests,workers,lifecycle}.rs *)
(***************************************************************************)
EXTENDS Integers, Sequences, FiniteSets

CONSTANTS
    Msgs,          \* the user's messages; each starts a request of its own
    Kinds,         \* of the conversation: subset of {"chat", "session"}
    Drivers,       \* calls of next_turn in flight
    Callers,       \* clients' calls in flight
    Clis,          \* CLI sessions the conversation may go through
    Worker,        \* the task that runs for a request
    Tool,          \* the orchestrator's route_follow_up
    None,
    MaxKicks,      \* bound: drivers spawned and not started; one more finds nothing the last left
    Allowed, MaxMishaps     \* bound: which Mishaps may happen, and how many of them

\* What happens at most once each: a worker is started, the user stops a turn, the CLI does not
\* start or exits, the store does not take a message, the daemon is killed.
Mishaps == {"worker", "stop", "nostart", "exit", "nostore", "kill"}

ASSUME DriverAssumption ==
    /\ Kinds \subseteq {"chat", "session"}
    /\ Allowed \subseteq Mishaps
    /\ None \notin Msgs \union Clis \union Drivers \union {"completed", "stopped", "exited"}
    /\ Worker # Tool /\ {Worker, Tool} \intersect (Drivers \union Callers \union Clis) = {}
    /\ Drivers \intersect (Callers \union Clis) = {} /\ Callers \intersect Clis = {}
    /\ MaxKicks \in Nat \ {0} /\ MaxMishaps \in Nat

Procs  == Drivers \union Callers \union Clis \union {Worker, Tool}
States == {"none", "working", "stopped", "failed", "done"}

VARIABLES
    kind,    \* ConversationKind
    board,   \* Board: queue, paused, deciding, log, state, into, tasks
    conv,    \* ConvState
    clis,    \* per CLI: its state, and the events its pump has not read
    lock,    \* who keeps ConvState locked from one step to the next
    kicks,   \* drivers spawned and not started
    proc,    \* per task of the daemon: where it is, and its locals
    hist     \* what happened so far, for the properties and the bounds

vars == <<kind, board, conv, clis, lock, kicks, proc, hist>>

In(q) == {q[i] : i \in DOMAIN q}

\* What q has at the positions I, in its order.
Pick(q, I) ==
    LET Nth(n) == CHOOSE i \in I : Cardinality({j \in I : j <= i}) = n
    IN  [n \in 1 .. Cardinality(I) |-> q[Nth(n)]]
Without(q, m) == Pick(q, {i \in DOMAIN q : q[i] # m})
FirstOf(q) == IF q = <<>> THEN None ELSE Head(q)
LastOf(q) == IF q = <<>> THEN None ELSE q[Len(q)]

NoSnap == [state |-> [m \in Msgs |-> "none"], tasks |-> {}, ready |-> FALSE]

\* A task of the daemon that does nothing.
Off == [at |-> "off", ret |-> "off", m |-> None, users |-> <<>>, envs |-> <<>>, snap |-> NoSnap,
        work |-> None, busy |-> FALSE, steer |-> FALSE, cli |-> None, asked |-> {}, sent |-> FALSE]

ConvDefault ==
    [cli |-> None, busy |-> FALSE, inbox |-> <<>>, announcing |-> {}, pending |-> <<>>,
     request |-> None, outcomes |-> [m \in Msgs |-> "none"], asking |-> {}, asked |-> {}]

Init ==
    /\ kind \in Kinds
    /\ board = [queue |-> <<>>, paused |-> FALSE, deciding |-> {}, log |-> <<>>,
                state |-> [m \in Msgs |-> "none"], into |-> [m \in Msgs |-> None], tasks |-> {}]
    /\ conv = ConvDefault
    /\ clis = [c \in Clis |-> [state |-> "none", events |-> <<>>]]
    /\ lock = None
    /\ kicks = 0
    /\ proc = [p \in Procs |-> Off]
    /\ hist = [sent |-> {}, given |-> [m \in Msgs |-> 0], told |-> {}, deleted |-> {}, lost |-> {},
               mishaps |-> {}]

MayHappen(what) == what \in Allowed /\ what \notin hist.mishaps /\ Cardinality(hist.mishaps) < MaxMishaps
Happened(what) == [hist EXCEPT !.mishaps = @ \union {what}]

Be(p, local) == proc' = [proc EXCEPT ![p] = local]
Goto(p, label) == Be(p, [proc[p] EXCEPT !.at = label])
Settle(local, next) == [local EXCEPT !.at = "read", !.ret = next]
At(p, label) == proc[p].at = label

\* Whoever needs ConvState waits for the lock.
Unlocked == lock = None

\* SessionManager::kick
Kicked(n) == IF kicks + n > MaxKicks THEN MaxKicks ELSE kicks + n

-----------------------------------------------------------------------------
(* The newest answer and the requests.                                     *)

\* The newest request and those it was steered into, one after the other.
Chain(b) ==
    LET upTo[n \in 0 .. Cardinality(Msgs)] ==
            IF n = 0 THEN {LastOf(b.log)} \ {None}
            ELSE upTo[n - 1] \union ({b.into[r] : r \in upTo[n - 1]} \ {None})
    IN  upTo[Cardinality(Msgs)]

\* working_request.  With neither cards nor questions to the user no request waits, so
\* answer_working is the same.
Working(b) == IF \E r \in Chain(b) : b.state[r] = "working" THEN LastOf(b.log) ELSE None

\* append_user_message: the message and its request, in one step.
Appended(b, m) == [b EXCEPT !.log = Append(@, m), !.state[m] = "working"]

TakenStillJudged(b, m) == [b EXCEPT !.queue = Without(@, m)]

\* change_queue's removal: a message that leaves the queue is no longer judged.
Taken(b, m) == [b EXCEPT !.queue = Without(@, m), !.deciding = @ \ {m}]

\* The messages and envelopes that wait for a turn, or are on their way to the inbox.
Carried == {env.of : env \in In(conv.inbox)} \union In(conv.pending) \union conv.announcing

\* settle_requests looks at the board,
SettleRead(p) ==
    /\ At(p, "read")
    /\ LET snap == [state |-> board.state, tasks |-> board.tasks,
                    ready |-> /\ kind = "session" /\ board.log # <<>> /\ ~ board.paused
                              /\ FirstOf(board.queue) \notin (board.deciding \union {None})]
       IN  Be(p, [proc[p] EXCEPT !.at = IF board.log = <<>> THEN "write" ELSE "weigh", !.snap = snap])
    /\ UNCHANGED <<kind, board, conv, clis, lock, kicks, hist>>

\* then at what the driver holds, and decides how each request stands,
SettleWeigh(p) ==
    /\ At(p, "weigh") /\ Unlocked
    /\ LET snap == proc[p].snap
           outcome == conv.outcomes
           works(r) == \/ conv.busy /\ conv.request = r
                       \/ r \in Carried /\ outcome[r] = "none"
                       \/ r \in snap.tasks
           stands(r) == IF snap.state[r] = "none" THEN "none"
                        ELSE IF works(r) THEN "working"
                        ELSE IF outcome[r] # "none" THEN outcome[r]
                        ELSE IF snap.state[r] \in {"stopped", "failed"} THEN snap.state[r]
                        ELSE "done"
       IN  Be(p, [proc[p] EXCEPT
                     !.at = "write",
                     !.snap = [state |-> [r \in Msgs |-> stands(r)], tasks |-> {},
                               ready |-> /\ snap.ready /\ Carried = {}
                                         /\ ~ (conv.busy /\ conv.request # None)]])
    /\ UNCHANGED <<kind, board, conv, clis, lock, kicks, hist>>

\* then records it.  A session's queue that now may go on gets a driver, and so does a caller
\* that kicks once the requests have settled.
SettleWrite(p) ==
    /\ At(p, "write")
    /\ LET stands == proc[p].snap.state
           b == [board EXCEPT !.state = [r \in Msgs |-> IF stands[r] = "none" THEN @[r] ELSE stands[r]]]
           next == proc[p].ret
       IN  /\ board' = b
           /\ kicks' = Kicked((IF proc[p].snap.ready /\ Working(b) = None THEN 1 ELSE 0)
                                + (IF next = "kick" THEN 1 ELSE 0))
           /\ Be(p, IF next \in {"off", "kick"} THEN Off
                    ELSE [proc[p] EXCEPT !.at = next, !.ret = "off", !.snap = NoSnap])
    /\ UNCHANGED <<kind, conv, clis, lock, hist>>

\* Mutant: the judged follow-ups are left as they are.
UnaskedUnsettled(asked, next) == Settle(Off, next)

\* What settle_queued has nothing to do for goes on at once.
Unask(asked, next) == IF asked = {} THEN Settle(Off, next)
                      ELSE [Off EXCEPT !.at = "unasked", !.ret = next, !.asked = asked]

\* settle_queued: the messages no longer judged wait in the queue, and the requests settle.
SettleQueued(p) ==
    /\ At(p, "unasked")
    /\ board' = [board EXCEPT !.deciding = @ \ proc[p].asked]
    /\ Be(p, [Settle(proc[p], proc[p].ret) EXCEPT !.asked = {}])
    /\ UNCHANGED <<kind, conv, clis, lock, kicks, hist>>

-----------------------------------------------------------------------------
(* The driver: next_turn.                                                  *)

\* A driver begins where it first takes the lock; a session's comes back once.
DriverBegins(d) ==
    \/ At(d, "off") /\ kicks > 0 /\ kicks' = kicks - 1
    \/ At(d, "turn") /\ UNCHANGED kicks

\* The driver takes the turn for what it carries.  The follow-ups its envelopes ask about are
\* now the turn's to judge.
Claim(d, users, envs, rest) ==
    LET request == IF users # <<>> THEN LastOf(users) ELSE Head(envs).of
        judged == IF \E env \in In(envs) : env.item # None
                  THEN {pair \in conv.asking : pair[2] = request} ELSE {}
    IN  /\ conv' = [conv EXCEPT !.busy = TRUE, !.pending = <<>>, !.inbox = rest, !.request = request,
                                !.outcomes[request] = "none", !.asking = @ \ judged,
                                !.asked = @ \union {pair[1] : pair \in judged}]
        /\ Be(d, [Settle(proc[d], "start") EXCEPT !.users = users, !.envs = envs, !.m = None])

\* Messages first; else every envelope of the oldest one's request; else a Chat looks at its
\* queue, the lock kept, and a session lets its requests settle first.
DriverTurn(d) ==
    /\ DriverBegins(d) /\ Unlocked
    /\ LET of == FirstOf(conv.inbox).of
           envs == Pick(conv.inbox, {i \in DOMAIN conv.inbox : conv.inbox[i].of = of})
           rest == Pick(conv.inbox, {i \in DOMAIN conv.inbox : conv.inbox[i].of # of})
       IN  \/ /\ conv.busy
              /\ Be(d, Off)
              /\ UNCHANGED <<conv, lock>>
           \/ /\ ~ conv.busy /\ conv.pending # <<>>
              /\ Claim(d, conv.pending, <<>>, conv.inbox)
              /\ UNCHANGED lock
           \/ /\ ~ conv.busy /\ conv.pending = <<>> /\ conv.inbox # <<>>
              /\ Claim(d, <<>>, envs, rest)
              /\ UNCHANGED lock
           \/ /\ ~ conv.busy /\ conv.pending = <<>> /\ conv.inbox = <<>> /\ kind = "chat"
              /\ lock' = d
              /\ Goto(d, "peek")
              /\ UNCHANGED conv
           \/ /\ ~ conv.busy /\ conv.pending = <<>> /\ conv.inbox = <<>> /\ kind = "session"
              /\ Be(d, Settle(proc[d], IF proc[d].sent THEN "off" ELSE "queue"))
              /\ UNCHANGED <<conv, lock>>
    /\ UNCHANGED <<kind, board, clis, hist>>

\* send_queued: no answer may work,
QueueMayGo(d) ==
    /\ At(d, "queue")
    /\ IF Working(board) = None THEN Goto(d, "ready") ELSE Be(d, Off)
    /\ UNCHANGED <<kind, board, conv, clis, lock, kicks, hist>>

\* nothing may wait for a turn or run in one, and the first message must have been judged.
QueueReady(d) ==
    /\ At(d, "ready") /\ Unlocked
    /\ LET quiet == ~ conv.busy /\ conv.pending = <<>> /\ conv.inbox = <<>>
           first == FirstOf(board.queue)
       IN  IF quiet /\ first # None /\ first \notin board.deciding
           THEN lock' = d /\ Goto(d, "peek")
           ELSE Be(d, Off) /\ UNCHANGED lock
    /\ UNCHANGED <<kind, board, conv, clis, kicks, hist>>

\* The driver found nothing to send in the queue.  A Chat's requests settle; a session's did.
GivesUp(d) == IF kind = "chat" THEN Be(d, Settle(proc[d], "off")) ELSE Be(d, Off)

\* pop_queued: which message is first, unless the queue is paused,
QueuePeek(d) ==
    /\ At(d, "peek")
    /\ IF board.paused \/ board.queue = <<>>
       THEN GivesUp(d) /\ lock' = None
       ELSE Be(d, [proc[d] EXCEPT !.at = "take", !.m = Head(board.queue)]) /\ UNCHANGED lock
    /\ UNCHANGED <<kind, board, conv, clis, kicks, hist>>

QueueTakeUnchecked(d) ==
    /\ At(d, "take") /\ d \in Drivers
    /\ board' = Taken(board, proc[d].m) /\ Goto(d, "append")
    /\ UNCHANGED <<kind, conv, clis, lock, kicks, hist>>

\* take_queued: it leaves the queue, unless somebody else took it meanwhile.
QueueTake(d) ==
    /\ At(d, "take") /\ d \in Drivers
    /\ IF proc[d].m \in In(board.queue)
       THEN board' = Taken(board, proc[d].m) /\ Goto(d, "append") /\ UNCHANGED lock
       ELSE GivesUp(d) /\ lock' = None /\ UNCHANGED board
    /\ UNCHANGED <<kind, conv, clis, kicks, hist>>

\* It is in the transcript: a Chat's driver takes the turn for it, a session's goes round again.
QueueAppend(d) ==
    /\ At(d, "append") /\ d \in Drivers
    /\ board' = Appended(board, proc[d].m)
    /\ lock' = None
    /\ IF kind = "chat"
       THEN Claim(d, <<proc[d].m>>, <<>>, <<>>)
       ELSE /\ conv' = [conv EXCEPT !.pending = Append(@, proc[d].m)]
            /\ Be(d, [proc[d] EXCEPT !.at = "turn", !.m = None, !.sent = TRUE])
    /\ UNCHANGED <<kind, clis, kicks, hist>>

\* The store does not take it: the daemon logs that, and the message is gone.
QueueAppendFails(d) ==
    /\ At(d, "append") /\ d \in Drivers /\ MayHappen("nostore")
    /\ GivesUp(d)
    /\ lock' = None
    /\ hist' = [Happened("nostore") EXCEPT !.lost = @ \union {proc[d].m}]
    /\ UNCHANGED <<kind, board, conv, clis, kicks>>

\* ensure_cli: the CLI there is, or a new one,
EnsureCli(d) ==
    /\ At(d, "start") /\ Unlocked
    /\ \/ /\ conv.cli # None
          /\ Be(d, [proc[d] EXCEPT !.at = "send", !.cli = conv.cli])
          /\ UNCHANGED <<conv, clis>>
       \/ LET unused == {c \in Clis : clis[c].state = "none"}
              c == CHOOSE x \in unused : TRUE
          IN  /\ conv.cli = None /\ unused # {}
              /\ clis' = [clis EXCEPT ![c].state = "idle"]
              /\ conv' = [conv EXCEPT !.cli = c]
              /\ Be(d, [proc[d] EXCEPT !.at = "send", !.cli = c])
    /\ UNCHANGED <<kind, board, lock, kicks, hist>>

\* or none, when it does not start.
CliFailsToStart(d) ==
    /\ At(d, "start") /\ conv.cli = None /\ MayHappen("nostart")
    /\ Goto(d, "fail")
    /\ hist' = Happened("nostart")
    /\ UNCHANGED <<kind, board, conv, clis, lock, kicks>>

Gave(h, users) == [h EXCEPT !.given = [m \in Msgs |-> @[m] + IF m \in In(users) THEN 1 ELSE 0]]

\* The CLI takes the turn, or is gone.
SendTurn(d) ==
    /\ At(d, "send")
    /\ LET c == proc[d].cli
       IN  IF clis[c].state = "gone"
           THEN Goto(d, "fail") /\ UNCHANGED <<clis, hist>>
           ELSE /\ clis' = [clis EXCEPT ![c].state = "running"]
                /\ hist' = [Gave(hist, proc[d].users) EXCEPT
                              !.told = @ \union ({env.item : env \in In(proc[d].envs)} \ {None})]
                /\ Be(d, Off)
    /\ UNCHANGED <<kind, board, conv, lock, kicks>>

FailTurnDropsIt(d) ==
    /\ At(d, "fail") /\ Unlocked
    /\ conv' = [conv EXCEPT !.busy = FALSE, !.request = None, !.asked = {}]
    /\ Be(d, Unask(conv.asked, "off"))
    /\ UNCHANGED <<kind, board, clis, lock, kicks, hist>>

\* fail_turn: what the turn carried is kept for the next try.
FailTurn(d) ==
    /\ At(d, "fail") /\ Unlocked
    /\ conv' = [conv EXCEPT !.busy = FALSE, !.request = None,
                            !.outcomes = [r \in Msgs |-> IF r = conv.request THEN "failed" ELSE @[r]],
                            !.pending = proc[d].users \o @, !.inbox = proc[d].envs \o @, !.asked = {}]
    /\ Be(d, Unask(conv.asked, "off"))
    /\ UNCHANGED <<kind, board, clis, lock, kicks, hist>>

-----------------------------------------------------------------------------
(* Clients.                                                                *)

\* The CLI takes a message into its turn; when that turn has just ended it starts another.
CliTakes == conv.busy /\ conv.cli # None /\ clis[conv.cli].state # "gone"
Steered == [clis EXCEPT ![conv.cli].state = "running"]

\* The user's next message.
Fresh == IF hist.sent = Msgs THEN None ELSE CHOOSE m \in Msgs : m \notin hist.sent

\* send_message in a Chat, all of it under the driver's lock.
ChatSends(p, m, steer) ==
    /\ kind = "chat" /\ At(p, "off") /\ m = Fresh /\ Unlocked
    /\ \/ /\ conv.busy /\ steer /\ CliTakes
          /\ board' = Appended(board, m)
          /\ clis' = Steered
          /\ conv' = [conv EXCEPT !.request = m]
          /\ hist' = [Gave(hist, <<m>>) EXCEPT !.sent = @ \union {m}]
          /\ Be(p, [Off EXCEPT !.at = "note", !.m = m, !.work = conv.request, !.ret = "off"])
          /\ UNCHANGED kicks
       \/ /\ conv.busy /\ steer /\ ~ CliTakes
          /\ board' = Appended(board, m)
          /\ conv' = [conv EXCEPT !.pending = Append(@, m)]
          /\ hist' = [hist EXCEPT !.sent = @ \union {m}]
          /\ Be(p, Settle(Off, "off"))
          /\ UNCHANGED <<clis, kicks>>
       \/ /\ conv.busy /\ ~ steer
          /\ board' = [board EXCEPT !.queue = Append(@, m)]
          /\ hist' = [hist EXCEPT !.sent = @ \union {m}]
          /\ UNCHANGED <<conv, clis, kicks, proc>>
       \/ /\ ~ conv.busy
          /\ board' = Appended(board, m)
          /\ conv' = [conv EXCEPT !.pending = Append(@, m)]
          /\ hist' = [hist EXCEPT !.sent = @ \union {m}]
          /\ kicks' = Kicked(1)
          /\ UNCHANGED <<clis, proc>>
    /\ UNCHANGED <<kind, lock>>

\* send_to_session: whether an answer works,
SessionSends(p, m, steer) ==
    /\ kind = "session" /\ At(p, "off") /\ m = Fresh
    /\ hist' = [hist EXCEPT !.sent = @ \union {m}]
    /\ Be(p, [Off EXCEPT !.at = "busy?", !.m = m, !.steer = steer, !.work = Working(board)])
    /\ UNCHANGED <<kind, board, conv, clis, lock, kicks>>

\* and whether a turn runs, read one after the other,
SessionBusy(p) ==
    /\ At(p, "busy?") /\ Unlocked
    /\ Be(p, [proc[p] EXCEPT !.at = "place", !.busy = conv.busy])
    /\ UNCHANGED <<kind, board, conv, clis, lock, kicks, hist>>

\* say where the message goes: into the answer that works, to be judged, into the queue, or
\* into a turn of its own.
SessionPlaces(p) ==
    /\ At(p, "place")
    /\ LET me == proc[p]
           works == me.work # None
           queued == [board EXCEPT !.queue = Append(@, me.m)]
       IN  \/ /\ me.steer /\ (me.busy \/ works)
              /\ board' = Appended(board, me.m)
              /\ Goto(p, "join")
           \/ /\ ~ me.steer /\ works
              /\ board' = [queued EXCEPT !.deciding = @ \union {me.m}]
              /\ Goto(p, "ask")
           \/ /\ ~ me.steer /\ ~ works /\ me.busy
              /\ board' = queued
              /\ Be(p, Off)
           \/ /\ ~ works /\ ~ me.busy
              /\ board' = Appended(board, me.m)
              /\ Goto(p, "push")
    /\ UNCHANGED <<kind, conv, clis, lock, kicks, hist>>

SessionPushes(p) ==
    /\ At(p, "push") /\ Unlocked
    /\ conv' = [conv EXCEPT !.pending = Append(@, proc[p].m)]
    /\ kicks' = Kicked(1)
    /\ Be(p, Off)
    /\ UNCHANGED <<kind, board, clis, lock, hist>>

\* ask_follow_up: in the running turn, else in an envelope of the working request's,
AskFollowUp(p) ==
    /\ At(p, "ask") /\ Unlocked
    /\ IF CliTakes
       THEN /\ conv' = [conv EXCEPT !.asked = @ \union {proc[p].m}]
            /\ clis' = Steered
            /\ hist' = [hist EXCEPT !.told = @ \union {proc[p].m}]
            /\ Be(p, Off)
       ELSE /\ conv' = [conv EXCEPT !.asking = @ \union {<<proc[p].m, proc[p].work>>}]
            /\ Goto(p, "envelope")
            /\ UNCHANGED <<clis, hist>>
    /\ UNCHANGED <<kind, board, lock, kicks>>

\* Mutant: no driver is started for an envelope.
DeliverQuietly(p) ==
    /\ At(p, "envelope") /\ Unlocked
    /\ conv' = [conv EXCEPT !.inbox = Append(@, [of |-> proc[p].work, item |-> proc[p].m]),
                            !.announcing = IF p = Worker THEN {} ELSE @]
    /\ Be(p, Settle(Off, "off"))
    /\ UNCHANGED <<kind, board, clis, lock, kicks, hist>>

\* deliver_for: an envelope goes into the inbox, the requests settle, a driver starts.
Deliver(p) ==
    /\ At(p, "envelope") /\ Unlocked
    /\ conv' = [conv EXCEPT !.inbox = Append(@, [of |-> proc[p].work, item |-> proc[p].m]),
                            !.announcing = IF p = Worker THEN {} ELSE @]
    /\ Be(p, Settle(Off, "kick"))
    /\ UNCHANGED <<kind, board, clis, lock, kicks, hist>>

\* steer_queued: the answer that works, the message out of the queue and into the transcript,
SteerQueued(p, m) ==
    /\ At(p, "off") /\ m \in In(board.queue)
    /\ Be(p, [Off EXCEPT !.at = "take", !.m = m, !.work = Working(board)])
    /\ UNCHANGED <<kind, board, conv, clis, lock, kicks, hist>>

TakesQueued(p) ==
    /\ At(p, "take") /\ p \notin Drivers
    /\ IF proc[p].m \in In(board.queue)
       THEN board' = Taken(board, proc[p].m) /\ Goto(p, "append")
       ELSE Be(p, Off) /\ UNCHANGED board
    /\ UNCHANGED <<kind, conv, clis, lock, kicks, hist>>

AppendsTaken(p) ==
    /\ At(p, "append") /\ p \notin Drivers
    /\ board' = Appended(board, proc[p].m)
    /\ Goto(p, "join")
    /\ UNCHANGED <<kind, conv, clis, lock, kicks, hist>>

TakenAppendFails(p) ==
    /\ At(p, "append") /\ p \notin Drivers /\ MayHappen("nostore")
    /\ hist' = [Happened("nostore") EXCEPT !.lost = @ \union {proc[p].m}]
    /\ Be(p, Off)
    /\ UNCHANGED <<kind, board, conv, clis, lock, kicks>>

\* and join_working: into the running turn, which from now on answers it, or into the next.
JoinWorking(p) ==
    /\ At(p, "join") /\ Unlocked
    /\ LET m == proc[p].m
       IN  IF CliTakes
           THEN /\ conv' = [conv EXCEPT !.request = m]
                /\ clis' = Steered
                /\ hist' = Gave(hist, <<m>>)
                /\ Be(p, [proc[p] EXCEPT !.at = "note", !.work = conv.request, !.ret = "off"])
           ELSE /\ conv' = [conv EXCEPT !.pending = Append(@, m)]
                /\ Be(p, [proc[p] EXCEPT !.at = "note", !.ret = "kick"])
                /\ UNCHANGED <<clis, hist>>
    /\ UNCHANGED <<kind, board, lock, kicks>>

\* note_steered: the request names the one it was steered into.
NoteSteered(p) ==
    /\ At(p, "note")
    /\ board' = IF proc[p].work = None THEN board
                ELSE [board EXCEPT !.into[proc[p].m] = proc[p].work]
    /\ Be(p, Settle(Off, proc[p].ret))
    /\ UNCHANGED <<kind, conv, clis, lock, kicks, hist>>

\* The user deletes a queued message, or moves one to the front.
DeleteQueued(p, m) ==
    /\ At(p, "off") /\ m \in In(board.queue)
    /\ board' = Taken(board, m)
    /\ hist' = [hist EXCEPT !.deleted = @ \union {m}]
    /\ UNCHANGED <<kind, conv, clis, lock, kicks, proc>>

MoveQueued(p, m) ==
    /\ At(p, "off") /\ m \in In(board.queue)
    /\ board' = [board EXCEPT !.queue = <<m>> \o Without(@, m)]
    /\ UNCHANGED <<kind, conv, clis, lock, kicks, proc, hist>>

\* interrupt: the queue pauses when something waits in it; then the CLI's turn ends.
Interrupt(p) ==
    /\ At(p, "off") /\ MayHappen("stop") /\ Unlocked
    /\ hist' = Happened("stop")
    /\ Be(p, [Off EXCEPT !.at = "pause", !.cli = conv.cli])
    /\ UNCHANGED <<kind, board, conv, clis, lock, kicks>>

InterruptPauses(p) ==
    /\ At(p, "pause")
    /\ board' = [board EXCEPT !.paused = @ \/ board.queue # <<>>]
    /\ IF proc[p].cli = None THEN Be(p, Off) ELSE Goto(p, "stop")
    /\ UNCHANGED <<kind, conv, clis, lock, kicks, hist>>

InterruptStops(p) ==
    /\ At(p, "stop")
    /\ LET c == proc[p].cli
       IN  clis' = IF clis[c].state = "running"
                   THEN [clis EXCEPT ![c] = [state |-> "idle", events |-> Append(@.events, "stopped")]]
                   ELSE clis
    /\ Be(p, Off)
    /\ UNCHANGED <<kind, board, conv, lock, kicks, hist>>

ResumeQueue(p) ==
    /\ At(p, "off") /\ board.paused
    /\ board' = [board EXCEPT !.paused = FALSE]
    /\ kicks' = Kicked(1)
    /\ UNCHANGED <<kind, conv, clis, lock, proc, hist>>

-----------------------------------------------------------------------------
(* The CLI, its pump, the orchestrator's calls and its worker.             *)

\* Its turn ends, once its call is answered.
TurnEnds(c) ==
    /\ clis[c].state = "running" /\ At(Tool, "off")
    /\ clis' = [clis EXCEPT ![c] = [state |-> "idle", events |-> Append(@.events, "completed")]]
    /\ UNCHANGED <<kind, board, conv, lock, kicks, proc, hist>>

\* It exits.
CliExits(c) ==
    /\ clis[c].state \in {"idle", "running"} /\ MayHappen("exit")
    /\ clis' = [clis EXCEPT ![c] = [state |-> "gone", events |-> Append(@.events, "exited")]]
    /\ hist' = Happened("exit")
    /\ UNCHANGED <<kind, board, conv, lock, kicks, proc>>

Read(c) == [clis EXCEPT ![c].events = Tail(@)]

\* turn_completed: follow-ups the turn left undecided wait in the queue, then the next turn.
TurnCompleted(c) ==
    /\ At(c, "off") /\ FirstOf(clis[c].events) \in {"completed", "stopped"} /\ Unlocked
    /\ clis' = Read(c)
    /\ conv' = [conv EXCEPT !.busy = FALSE, !.request = None, !.asked = {},
                            !.outcomes = [r \in Msgs |->
                                IF r = conv.request /\ Head(clis[c].events) = "stopped" THEN "stopped" ELSE @[r]]]
    /\ Be(c, Unask(conv.asked, "kick"))
    /\ UNCHANGED <<kind, board, lock, kicks, hist>>

\* The end of pump_conversation.
PumpEnds(c) ==
    /\ At(c, "off") /\ FirstOf(clis[c].events) = "exited" /\ Unlocked
    /\ clis' = Read(c)
    /\ conv' = [conv EXCEPT !.cli = IF @ = c THEN None ELSE @, !.busy = FALSE, !.request = None,
                            !.outcomes = [r \in Msgs |->
                                IF r = conv.request /\ conv.busy THEN "failed" ELSE @[r]]]
    /\ Be(c, Settle(Off, "off"))
    /\ UNCHANGED <<kind, board, lock, kicks, hist>>

\* route_follow_up for a message the CLI was asked about,
RouteFollowUp(m, joins) ==
    /\ At(Tool, "off") /\ Unlocked /\ m \in hist.told \intersect In(board.queue) /\ \E c \in Clis : clis[c].state = "running"
    /\ conv' = [conv EXCEPT !.asked = @ \ {m}, !.asking = {pair \in @ : pair[1] # m}]
    /\ Be(Tool, [Off EXCEPT !.at = "routed", !.m = m, !.steer = joins])
    /\ UNCHANGED <<kind, board, clis, lock, kicks, hist>>

\* which joins the answer that works, or waits in the queue.
Routed ==
    /\ At(Tool, "routed")
    /\ LET m == proc[Tool].m
           joins == proc[Tool].steer
       IN  IF m \in In(board.queue) /\ joins
           THEN /\ Be(Tool, [Off EXCEPT !.at = "take", !.m = m, !.work = Working(board)])
                /\ UNCHANGED board
           ELSE /\ board' = [board EXCEPT !.deciding = @ \ {m}]
                /\ Be(Tool, Off)
    /\ UNCHANGED <<kind, conv, clis, lock, kicks, hist>>

\* The orchestrator's turn starts a worker for its request.
TaskStarts ==
    /\ kind = "session" /\ At(Worker, "off") /\ MayHappen("worker")
    /\ conv.busy /\ conv.request # None /\ board.tasks = {}
    /\ conv.cli # None /\ clis[conv.cli].state = "running"
    /\ board' = [board EXCEPT !.tasks = {conv.request}]
    /\ hist' = Happened("worker")
    /\ UNCHANGED <<kind, conv, clis, lock, kicks, proc>>

\* It ends: announced before its state changes, which settles the requests, then delivered.
TaskAnnounced(r) ==
    /\ At(Worker, "off") /\ r \in board.tasks /\ Unlocked
    /\ conv' = [conv EXCEPT !.announcing = {r}]
    /\ Be(Worker, [Off EXCEPT !.at = "reported", !.work = r])
    /\ UNCHANGED <<kind, board, clis, lock, kicks, hist>>

TaskReported ==
    /\ At(Worker, "reported")
    /\ board' = [board EXCEPT !.tasks = @ \ {proc[Worker].work}]
    /\ Be(Worker, Settle(proc[Worker], "envelope"))
    /\ UNCHANGED <<kind, conv, clis, lock, kicks, hist>>

\* The daemon is killed and starts again: only the board is left, running tasks end, and the
\* requests settle.
Restart ==
    /\ MayHappen("kill")
    /\ board' = [board EXCEPT !.tasks = {}]
    /\ conv' = ConvDefault
    /\ clis' = [c \in Clis |-> IF clis[c].state = "none" THEN clis[c]
                                ELSE [state |-> "gone", events |-> <<>>]]
    /\ lock' = None
    /\ kicks' = 0
    /\ proc' = [p \in Procs |-> IF p = Worker THEN Settle(Off, "off") ELSE Off]
    /\ hist' = Happened("kill")
    /\ UNCHANGED kind

-----------------------------------------------------------------------------
Driver(d) ==
    \/ DriverTurn(d) \/ QueueMayGo(d) \/ QueueReady(d)
    \/ QueuePeek(d) \/ QueueTake(d) \/ QueueAppend(d) \/ QueueAppendFails(d)
    \/ EnsureCli(d) \/ CliFailsToStart(d) \/ SendTurn(d) \/ FailTurn(d)

Client(p) ==
    \/ \E m \in Msgs, steer \in BOOLEAN : ChatSends(p, m, steer) \/ SessionSends(p, m, steer)
    \/ SessionBusy(p) \/ SessionPlaces(p) \/ SessionPushes(p) \/ AskFollowUp(p)
    \/ \E m \in Msgs : SteerQueued(p, m) \/ DeleteQueued(p, m) \/ MoveQueued(p, m)
    \/ Interrupt(p) \/ InterruptPauses(p) \/ InterruptStops(p) \/ ResumeQueue(p)

Cli(c) == TurnEnds(c) \/ CliExits(c) \/ TurnCompleted(c) \/ PumpEnds(c)

Orchestrator ==
    \/ \E m \in Msgs, joins \in BOOLEAN : RouteFollowUp(m, joins)
    \/ Routed \/ TaskStarts
    \/ \E r \in Msgs : TaskAnnounced(r)
    \/ TaskReported

\* What several of them do on their way.
Common(p) ==
    \/ SettleRead(p) \/ SettleWeigh(p) \/ SettleWrite(p) \/ SettleQueued(p)
    \/ Deliver(p) \/ TakesQueued(p) \/ AppendsTaken(p) \/ TakenAppendFails(p)
    \/ JoinWorking(p) \/ NoteSteered(p)

Next ==
    \/ \E d \in Drivers : Driver(d)
    \/ \E p \in Callers : Client(p)
    \/ \E c \in Clis : Cli(c)
    \/ Orchestrator
    \/ \E p \in Procs : Common(p)
    \/ Restart

Spec == Init /\ [][Next]_vars

-----------------------------------------------------------------------------
(* Properties.                                                             *)

Envelopes == [of : Msgs, item : Msgs \union {None}]

\* Types; the queue holds a message once, and only queued messages are judged.
TypeOK ==
    /\ kind \in Kinds
    /\ In(board.queue) \subseteq Msgs /\ Len(board.queue) = Cardinality(In(board.queue))
    /\ board.paused \in BOOLEAN /\ board.deciding \subseteq In(board.queue)
    /\ In(board.log) \subseteq Msgs /\ board.state \in [Msgs -> States]
    /\ board.into \in [Msgs -> Msgs \union {None}] /\ board.tasks \subseteq Msgs
    /\ conv.cli \in Clis \union {None} /\ conv.busy \in BOOLEAN
    /\ In(conv.inbox) \subseteq Envelopes /\ In(conv.pending) \subseteq Msgs
    /\ conv.announcing \subseteq Msgs /\ conv.request \in Msgs \union {None}
    /\ conv.outcomes \in [Msgs -> {"none", "stopped", "failed"}]
    /\ conv.asking \subseteq Msgs \X Msgs /\ conv.asked \subseteq Msgs
    /\ lock \in Drivers \union {None} /\ kicks \in 0 .. MaxKicks

\* No message goes to the CLI twice, whoever takes it out of the queue, however often a turn is
\* tried and whenever the daemon is killed.
GivenOnce == \A m \in Msgs : hist.given[m] <= 1

\* The task p carries m from one place to the next.
Carries(p, m) ==
    \/ m \in In(proc[p].users)
    \/ proc[p].m = m /\ proc[p].at \in {"busy?", "place", "append", "join", "push"}

\* A message the user sent is in one place: in the queue, waiting for a turn, on its way, given
\* to the CLI, deleted by the user, or lost to an append the store refused (the daemon warns of
\* it).  A kill may take one that waits or is on its way, and duplicates none.
Accounted ==
    \A m \in hist.sent :
        LET Count(places) == Cardinality({x \in {"queue", "pending", "deleted", "lost"} : m \in places[x]})
            n == hist.given[m] + Cardinality({p \in Procs : Carries(p, m)})
                   + Count([queue |-> In(board.queue), pending |-> In(conv.pending),
                            deleted |-> hist.deleted, lost |-> hist.lost])
        IN  n <= 1 /\ (n = 0 => "kill" \in hist.mishaps)

\* Somebody will settle each message being judged: the running turn was asked, an envelope
\* asks, or a task is about to do either.  A kill drops who was asked (see the README).
Judged ==
    "kill" \notin hist.mishaps =>
        \A m \in board.deciding :
            \/ m \in conv.asked
            \/ m \in {pair[1] : pair \in conv.asking}
            \/ \E p \in Procs :
                 \/ m \in proc[p].asked
                 \/ proc[p].m = m /\ proc[p].at \in {"ask", "envelope", "routed", "take"}

\* Nothing runs, and nothing is about to.
Quiet ==
    /\ \A p \in Procs : At(p, "off")
    /\ kicks = 0
    /\ \A c \in Clis : clis[c].state # "running" /\ clis[c].events = <<>>

\* Whoever leaves a message or an envelope for the next turn also sees to it that a driver
\* comes, until a turn fails (its messages then wait for the user's next one).
NothingStranded ==
    Quiet /\ hist.mishaps \intersect {"exit", "nostart", "kill"} = {}
        => conv.pending = <<>> /\ conv.inbox = <<>>

\* When nothing runs, a request that works has a task or something that waits for a turn
\* (manager/requests.rs:3-10).  It does not hold: SettleWrite may record what a settle saw
\* before the turn ended.  Checked by no run; the README describes it.
Settled ==
    Quiet => \A r \in In(board.log) : board.state[r] = "working" => r \in board.tasks \union Carried
=============================================================================

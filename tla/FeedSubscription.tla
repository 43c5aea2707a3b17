------------------------- MODULE FeedSubscription -------------------------
(***************************************************************************)
(* How the window stays up to date: the daemon publishes each committed    *)
(* event on a bounded feed; a connection's session replays what its client *)
(* missed and then forwards the feed; the desktop bridge reconnects and    *)
(* resumes after the last event it forwarded; the window applies events    *)
(* and reloads the catalog whenever it (re)connects or missed events.      *)
(*                                                                         *)
(* Source: src/crates/daemon/src/server.rs, src/crates/store/src/writer.rs,*)
(* src/apps/desktop/src-tauri/src/bridge.rs, src/apps/desktop/src/state.   *)
(***************************************************************************)
EXTENDS Integers, Sequences, FiniteSetsExt, SequencesExt

CONSTANTS
    Capacity,    \* FEED_CAPACITY
    Page,        \* REPLAY_PAGE
    MaxReplay,   \* MAX_REPLAY
    MaxSeq,      \* bound: events committed
    MaxFaults,   \* bound: broken connections and daemon restarts
    MaxBacklog   \* bound: what the window has yet to handle when the bridge
                 \* connects, and loads that wait for a connection (more are alike)

ASSUME FeedAssumption ==
    /\ Capacity \in Nat \ {0} /\ Page \in Nat \ {0} /\ MaxReplay \in Nat \ {0}
    /\ MaxSeq \in Nat /\ MaxFaults \in Nat /\ MaxBacklog \in Nat \ {0}

VARIABLES
    (* the daemon: an event is its seq *)
    committed,   \* rows in the table
    published,   \* Counters.last_seq, and what was sent on the feed
    applied,     \* events the catalog projection has
    (* the connection's session *)
    phase,
    feed,        \* position of its receiver on the feed
    sent,        \* last_sent; while replaying, the cursor
    replayed,
    asked,       \* GetCatalog requests it has yet to handle
    wire,        \* frames to the bridge
    (* the bridge *)
    seen,        \* last_seq: the last event forwarded, or -1
    queued,      \* GetCatalog requests waiting for a connection
    (* the window *)
    channel,     \* events and notices from the bridge
    answers,     \* answered loads, which do not wait for the channel
    shown,       \* the last event the shown catalog reflects
    got,         \* events ever applied
    loadedAt,    \* published when the newest load that arrived was answered
    faults

daemon  == <<committed, published, applied>>
session == <<phase, feed, sent, replayed, asked>>
bridge  == <<seen, queued>>
window  == <<channel, answers, shown, got, loadedAt>>
vars    == <<daemon, session, wire, bridge, window, faults>>

Event(e)   == [kind |-> "event", seq |-> e]
Lagged     == [kind |-> "lagged"]
Connected  == [kind |-> "connected"]
Load(v, p) == [kind |-> "catalog", value |-> v, at |-> p]
Loads      == {Load(v, p) : v \in 0..MaxSeq, p \in 0..MaxSeq}
Notices    == {Event(e) : e \in 1..MaxSeq} \union {Lagged, Connected}

Phases == {"down", "new", "replay", "replayed", "live", "cut", "deaf"}

Init ==
    /\ committed = 0 /\ published = 0 /\ applied = {}
    /\ phase = "down" /\ feed = 0 /\ sent = 0 /\ replayed = 0 /\ asked = 0
    /\ wire = <<>>
    /\ seen = -1 /\ queued = 0
    /\ channel = <<>> /\ answers = <<>> /\ shown = 0 /\ got = {} /\ loadedAt = 0
    /\ faults = 0

-----------------------------------------------------------------------------
(* The store's writer, and the tasks that wrote. *)

Commit ==
    /\ committed < MaxSeq
    /\ committed' = committed + 1
    /\ UNCHANGED <<published, applied, session, wire, bridge, window, faults>>

Publish ==
    /\ published < committed
    /\ published' = published + 1
    /\ UNCHANGED <<committed, applied, session, wire, bridge, window, faults>>

(* Once its append is answered, a task applies its event: tasks come in any order. *)
Apply(e) ==
    /\ e <= published /\ e \notin applied
    /\ applied' = applied \union {e}
    /\ UNCHANGED <<committed, published, session, wire, bridge, window, faults>>

(* The catalog's value: each field takes its newest event. *)
Catalog == Max(applied \union {0})

-----------------------------------------------------------------------------
(* The connection's session: it handles Subscribe, then the loads and the feed. *)

(* The feed is subscribed to before the table is read. *)
Subscribe ==
    /\ phase = "new"
    /\ phase' = "replay" /\ feed' = published /\ replayed' = 0
    /\ UNCHANGED <<daemon, sent, asked, wire, bridge, window, faults>>

(* Rows after the cursor, one page of them. *)
PageEnd == Min({committed, sent + Page})

ReadPage ==
    /\ phase = "replay"
    /\ LET count == PageEnd - sent IN
       /\ sent' = PageEnd
       /\ replayed' = replayed + count
       /\ IF count = Page /\ replayed' >= MaxReplay
            THEN /\ phase' = "cut"
                 /\ wire' = wire \o [i \in 1..count |-> Event(sent + i)] \o <<Lagged>>
            ELSE /\ phase' = IF count = Page THEN "replay" ELSE "replayed"
                 /\ wire' = wire \o [i \in 1..count |-> Event(sent + i)]
    /\ UNCHANGED <<daemon, feed, asked, bridge, window, faults>>

(* The read fails: Subscribe is answered with an error, which the bridge does not look at. *)
ReadFails ==
    /\ phase = "replay"
    /\ phase' = "deaf"
    /\ UNCHANGED <<daemon, feed, sent, replayed, asked, wire, bridge, window, faults>>

(* Mutant: the feed is subscribed to after the table was read. *)
SubscribedAfter == published

(* Where the live feed starts once the replay is over. *)
KeptFeed == feed

GoLive ==
    /\ phase = "replayed"
    /\ phase' = "live" /\ feed' = KeptFeed
    /\ UNCHANGED <<daemon, sent, replayed, asked, wire, bridge, window, faults>>

(* Mutants: an event already sent is sent again; a client cut off is not told. *)
SentAgain(e) == e >= sent
Silent == <<>>

NotSent(e) == e > sent
CutNotice == <<Lagged>>

ReceiveFeed ==
    /\ phase = "live" /\ feed < published
    /\ published - feed <= Capacity
    /\ feed' = feed + 1
    /\ IF NotSent(feed + 1)
         THEN sent' = feed + 1 /\ wire' = Append(wire, Event(feed + 1))
         ELSE UNCHANGED <<sent, wire>>
    /\ UNCHANGED <<daemon, phase, replayed, asked, bridge, window, faults>>

(* A session that fell behind the feed's buffer is cut off. *)
FallBehind ==
    /\ phase = "live" /\ published - feed > Capacity
    /\ phase' = "cut"
    /\ wire' = wire \o CutNotice
    /\ UNCHANGED <<daemon, feed, sent, replayed, asked, bridge, window, faults>>

AnswerLoad ==
    /\ phase \in {"live", "cut", "deaf"} /\ asked > 0
    /\ asked' = asked - 1
    /\ wire' = Append(wire, Load(Catalog, published))
    /\ UNCHANGED <<daemon, phase, feed, sent, replayed, bridge, window, faults>>

-----------------------------------------------------------------------------
(* The bridge. *)

(* The connection is gone, with the requests and frames on it. *)
Disconnected ==
    /\ phase' = "down" /\ asked' = 0 /\ wire' = <<>>
    /\ UNCHANGED <<feed, sent, replayed>>

(* Mutant: every connection starts at the daemon's head. *)
FromHead == published

(* Where a connection starts: after the last event forwarded, the first at the head. *)
Cursor == IF seen = -1 THEN published ELSE seen

Connect ==
    /\ phase = "down" /\ Len(channel) + Len(answers) < MaxBacklog
    /\ phase' = "new" /\ sent' = Cursor /\ seen' = Cursor
    /\ channel' = Append(channel, Connected)
    /\ UNCHANGED <<daemon, feed, replayed, asked, wire, queued, answers, shown, got, loadedAt, faults>>

SendLoad ==
    /\ phase # "down" /\ queued > 0
    /\ queued' = queued - 1 /\ asked' = asked + 1
    /\ UNCHANGED <<daemon, phase, feed, sent, replayed, wire, seen, window, faults>>

Forward ==
    /\ wire # <<>> /\ Head(wire).kind = "event"
    /\ wire' = Tail(wire)
    /\ seen' = Max({seen, Head(wire).seq})
    /\ channel' = Append(channel, Head(wire))
    /\ UNCHANGED <<daemon, session, queued, answers, shown, got, loadedAt, faults>>

ReceiveAnswer ==
    /\ wire # <<>> /\ Head(wire).kind = "catalog"
    /\ wire' = Tail(wire)
    /\ answers' = Append(answers, Head(wire))
    /\ UNCHANGED <<daemon, session, bridge, channel, shown, got, loadedAt, faults>>

(* Events were missed: the next connection starts at the daemon's head. *)
ReceiveLagged ==
    /\ wire # <<>> /\ Head(wire).kind = "lagged"
    /\ seen' = -1
    /\ channel' = Append(channel, Lagged)
    /\ Disconnected
    /\ UNCHANGED <<daemon, queued, answers, shown, got, loadedAt, faults>>

-----------------------------------------------------------------------------
(* The window. *)

TakeEvent ==
    /\ channel # <<>> /\ Head(channel).kind = "event"
    /\ channel' = Tail(channel)
    /\ shown' = Head(channel).seq
    /\ got' = got \union {Head(channel).seq}
    /\ UNCHANGED <<daemon, session, wire, bridge, answers, loadedAt, faults>>

(* resync(): after (re)connecting and after missing events. *)
Resync ==
    /\ channel # <<>> /\ Head(channel).kind # "event"
    /\ channel' = Tail(channel)
    /\ queued' = Min({queued + 1, MaxBacklog})
    /\ UNCHANGED <<daemon, session, wire, seen, answers, shown, got, loadedAt, faults>>

(* loadCatalog(): the answer replaces the whole catalog. *)
TakeAnswer(i) ==
    /\ shown' = answers[i].value
    /\ loadedAt' = Max({loadedAt, answers[i].at})
    /\ answers' = RemoveAt(answers, i)
    /\ UNCHANGED <<daemon, session, wire, bridge, channel, got, faults>>

-----------------------------------------------------------------------------
(* The connection breaks. *)
Break ==
    /\ phase # "down" /\ faults < MaxFaults
    /\ faults' = faults + 1
    /\ Disconnected
    /\ UNCHANGED <<daemon, bridge, window>>

(* The daemon is restarted: it loads what is committed. *)
RestartDaemon ==
    /\ faults < MaxFaults
    /\ faults' = faults + 1
    /\ published' = committed /\ applied' = 1..committed
    /\ Disconnected
    /\ UNCHANGED <<committed, bridge, window>>

Deliver ==
    \/ Publish \/ Subscribe \/ ReadPage \/ GoLive \/ ReceiveFeed \/ FallBehind \/ AnswerLoad
    \/ Connect \/ SendLoad \/ Forward \/ ReceiveAnswer \/ ReceiveLagged
    \/ TakeEvent \/ Resync \/ \E i \in DOMAIN answers : TakeAnswer(i)

Next ==
    \/ Deliver
    \/ Commit \/ \E e \in 1..MaxSeq : Apply(e)
    \/ ReadFails \/ Break \/ RestartDaemon

Spec == Init /\ [][Next]_vars

(***************************************************************************)
(* Every task of the path keeps running: the writer's thread publishes     *)
(* what it committed, the session's and the bridge's tasks handle what     *)
(* reached them, the bridge keeps reconnecting, the window drains its      *)
(* events.  Nobody has to commit, and nothing has to break.                *)
(***************************************************************************)
Fairness ==
    /\ WF_vars(Publish)
    /\ WF_vars(Subscribe \/ ReadPage \/ GoLive \/ ReceiveFeed \/ FallBehind)
    /\ WF_vars(AnswerLoad)
    /\ WF_vars(Connect) /\ WF_vars(SendLoad)
    /\ WF_vars(Forward \/ ReceiveAnswer \/ ReceiveLagged)
    /\ WF_vars(TakeEvent \/ Resync)
    /\ WF_vars(\E i \in DOMAIN answers : TakeAnswer(i))

FairSpec == Spec /\ Fairness

-----------------------------------------------------------------------------
TypeOK ==
    /\ committed \in 0..MaxSeq /\ published \in 0..committed /\ applied \subseteq 1..published
    /\ phase \in Phases /\ feed \in 0..published /\ sent \in 0..committed
    /\ replayed \in Nat /\ asked \in Nat
    /\ wire \in Seq(Notices \union Loads)
    /\ seen \in -1..committed /\ queued \in Nat
    /\ channel \in Seq(Notices) /\ answers \in Seq(Loads)
    /\ shown \in 0..committed /\ got \subseteq 1..committed /\ loadedAt \in 0..published
    /\ faults \in 0..MaxFaults

(***************************************************************************)
(* The bridge forwards each event after the one before it, with none left  *)
(* out or repeated, through replay, live feed and reconnection alike; only *)
(* a Lagged notice makes it start over.                                    *)
(***************************************************************************)
NoGap ==
    [][ /\ \A e \in 1..MaxSeq : channel' = Append(channel, Event(e)) => e = seen + 1
        /\ seen # -1 => seen' \in {-1, seen, seen + 1} ]_vars

(* e reached the window, or was published before a reload that did was answered. *)
Covered(e) == e \in got \/ e <= loadedAt

(***************************************************************************)
(* Each committed event eventually reaches the window, or is followed by a *)
(* reload that does, whatever lags, breaks or restarts on the way          *)
(* (protocol.rs:614 "Events after afterSeq that were already committed are *)
(* replayed first; then new events stream as they commit"), unless it has  *)
(* a connection whose replay failed: that one never gets a feed.           *)
(***************************************************************************)
Delivered == \A e \in 1..MaxSeq : committed >= e ~> Covered(e) \/ phase = "deaf"

(* A session following the feed that has nothing left to deliver. *)
Quiet ==
    /\ phase = "live" /\ feed = committed /\ applied = 1..committed
    /\ wire = <<>> /\ channel = <<>> /\ answers = <<>>
    /\ queued = 0 /\ asked = 0

(***************************************************************************)
(* When all is quiet, the window shows the daemon's catalog: the reload    *)
(* after (re)connecting leaves it up to date (bridge.ts:44 "Reloads        *)
(* everything the UI holds: used after (re)connecting and after missing    *)
(* events").                                                               *)
(***************************************************************************)
CatalogCaughtUp == Quiet => shown = committed
=============================================================================

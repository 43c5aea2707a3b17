------------------------ MODULE FeedSubscriptionProofs ------------------------
(***************************************************************************)
(* Proofs about FeedSubscription: its types, and that the bridge forwards  *)
(* every event after the one before it.                                    *)
(***************************************************************************)
EXTENDS FeedSubscription, FiniteSetTheorems, TLAPS

Frames == Notices \union Loads

(* Nothing on its way tells of an event or a catalog the daemon has not.   *)
Known(f) ==
    /\ f.kind = "event" => f.seq <= committed
    /\ f.kind = "catalog" => f.value <= published /\ f.at <= published

FramesKnown ==
    /\ \A i \in DOMAIN wire : Known(wire[i])
    /\ \A i \in DOMAIN channel : Known(channel[i])
    /\ \A i \in DOMAIN answers : Known(answers[i])

(* The events on a connection's wire are those after the last one the      *)
(* bridge forwarded, up to the last one sent, each once and in order.      *)
IsEvent(i) == wire[i].kind = "event"

Continues ==
    phase # "down" =>
    /\ 0 <= seen /\ seen <= sent
    /\ \A i \in DOMAIN wire : IsEvent(i) => seen < wire[i].seq /\ wire[i].seq <= sent
    /\ \A i, j \in DOMAIN wire : i < j /\ IsEvent(i) /\ IsEvent(j) => wire[i].seq < wire[j].seq
    /\ \A e \in seen + 1 .. sent : \E i \in DOMAIN wire : wire[i] = Event(e)

(* The live feed starts no later than where the replay ended.              *)
NotAhead == phase \in {"replayed", "live"} => feed <= sent

DownEmpty == phase = "down" => wire = <<>>

Inductive == TypeOK /\ FramesKnown /\ Continues /\ NotAhead /\ DownEmpty

-----------------------------------------------------------------------------
(* The maximum and the minimum of two numbers. *)
LEMMA MaxOfTwo ==
    ASSUME NEW a \in Int, NEW b \in Int
    PROVE  Max({a, b}) = IF a >= b THEN a ELSE b
<1>1. \E x \in {a, b} : \A y \in {a, b} : x >= y
  OBVIOUS
<1>2. /\ Max({a, b}) \in {a, b} /\ \A y \in {a, b} : Max({a, b}) >= y
  BY <1>1, Zenon DEF Max
<1>3. QED BY <1>2

LEMMA MinOfTwo ==
    ASSUME NEW a \in Int, NEW b \in Int
    PROVE  Min({a, b}) = IF a <= b THEN a ELSE b
<1>1. \E x \in {a, b} : \A y \in {a, b} : x =< y
  OBVIOUS
<1>2. /\ Min({a, b}) \in {a, b} /\ \A y \in {a, b} : Min({a, b}) =< y
  BY <1>1, Zenon DEF Min
<1>3. QED BY <1>2

(* A bounded set of natural numbers has a maximum: were none of its upper  *)
(* bounds in it, they would go down for ever, but they are finitely many.  *)
LEMMA MaxOfBounded ==
    ASSUME NEW n \in Nat, NEW S \in SUBSET (0 .. n), S # {}
    PROVE  Max(S) \in S /\ \A y \in S : Max(S) >= y
<1> DEFINE Bounds == {k \in 0 .. n : \A y \in S : k >= y}
           Below == [k \in Bounds |-> k - 1]
<1>1. ASSUME \A k \in Bounds : k \notin S PROVE FALSE
  <2>1. n \in Bounds
    OBVIOUS
  <2>2. ASSUME NEW k \in Bounds PROVE k - 1 \in Bounds \ {n}
    <3>1. \A y \in S : y \in 0 .. n /\ k >= y /\ k # y
      BY <1>1
    <3>2. k \in 0 .. n /\ k # 0
      <4>1. PICK y \in S : TRUE
        OBVIOUS
      <4>2. QED BY <3>1, <4>1
    <3>3. \A y \in S : k - 1 >= y
      BY <3>1, <3>2
    <3>4. k - 1 \in 0 .. n /\ k - 1 # n
      BY <3>2
    <3>5. QED BY <3>3, <3>4
  <2>3. IsFiniteSet(Bounds)
    <3>1. IsFiniteSet(0 .. n)
      BY FS_Interval, 0 \in Int, n \in Int
    <3>2. QED BY <3>1, FS_Subset, Bounds \subseteq 0 .. n
  <2>4. IsFiniteSet(Bounds \ {n}) /\ Cardinality(Bounds \ {n}) < Cardinality(Bounds)
    <3> HIDE DEF Bounds
    <3>1. /\ IsFiniteSet(Bounds \ {n})
          /\ Cardinality(Bounds \ {n}) = Cardinality(Bounds) - 1
      BY <2>1, <2>3, FS_RemoveElement
    <3>2. Cardinality(Bounds) \in Nat
      BY <2>3, FS_CardinalityType
    <3>3. QED BY <3>1, <3>2
  <2>5. Below \in [Bounds -> Bounds \ {n}]
    BY <2>2
  <2>6. \E x, y \in Bounds : x # y /\ Below[x] = Below[y]
    <3> HIDE DEF Bounds, Below
    <3>1. QED BY <2>3, <2>4, <2>5, FS_PigeonHole
  <2>7. QED BY <2>6
<1>2. \E x \in S : \A y \in S : x >= y
  BY <1>1
<1>3. QED BY <1>2, Zenon DEF Max

LEMMA CatalogKnown == ASSUME TypeOK PROVE Catalog \in 0 .. published
<1>1. published \in Nat /\ applied \union {0} \in SUBSET (0 .. published)
  BY FeedAssumption DEF TypeOK
<1>2. QED BY <1>1, MaxOfBounded DEF Catalog

LEMMA PageEndTyped ==
    ASSUME TypeOK
    PROVE  /\ PageEnd \in sent .. committed /\ PageEnd - sent \in 0 .. Page
           /\ PageEnd - sent < Page => PageEnd = committed
<1>1. committed \in Nat /\ sent \in 0 .. committed /\ Page \in Nat \ {0}
  BY FeedAssumption DEF TypeOK
<1>2. PageEnd = IF committed <= sent + Page THEN committed ELSE sent + Page
  BY <1>1, MinOfTwo DEF PageEnd
<1>3. QED BY <1>1, <1>2

(* What an event frame, and any other frame, is. *)
LEMMA FrameKinds ==
    /\ \A e : Event(e).kind = "event" /\ Event(e).seq = e
    /\ \A v, p : Load(v, p).kind = "catalog" /\ Load(v, p).value = v /\ Load(v, p).at = p
    /\ Lagged.kind = "lagged" /\ Connected.kind = "connected"
  BY DEF Event, Load, Lagged, Connected

LEMMA EventFrame ==
    ASSUME NEW f \in Frames, f.kind = "event"
    PROVE  f.seq \in 1 .. MaxSeq /\ f = Event(f.seq) /\ f \in Notices
  BY FrameKinds DEF Frames, Notices, Loads, Event, Load, Lagged, Connected

LEMMA LoadFrame ==
    ASSUME NEW f \in Frames, f.kind = "catalog"
    PROVE  f \in Loads /\ f.value \in 0 .. MaxSeq /\ f.at \in 0 .. MaxSeq
  BY FrameKinds DEF Frames, Notices, Loads, Event, Load, Lagged, Connected

-----------------------------------------------------------------------------
LEMMA FramesTyped ==
    /\ \A e \in 1 .. MaxSeq : Event(e) \in Notices
    /\ Lagged \in Notices /\ Connected \in Notices
    /\ \A v, p \in 0 .. MaxSeq : Load(v, p) \in Loads
    /\ Notices \subseteq Frames /\ Loads \subseteq Frames
  BY DEF Notices, Loads, Frames

(* What a sequence with one more, with one less, or two in a row hold.     *)
LEMMA Appended ==
    ASSUME NEW S, NEW q \in Seq(S), NEW f \in S
    PROVE  /\ Append(q, f) \in Seq(S) /\ DOMAIN Append(q, f) = 1 .. Len(q) + 1
           /\ \A i \in 1 .. Len(q) : Append(q, f)[i] = q[i]
           /\ Append(q, f)[Len(q) + 1] = f
  OBVIOUS

LEMMA Dropped ==
    ASSUME NEW S, NEW q \in Seq(S), q # <<>>
    PROVE  /\ Tail(q) \in Seq(S) /\ DOMAIN Tail(q) = 1 .. Len(q) - 1
           /\ \A i \in 1 .. Len(q) - 1 : Tail(q)[i] = q[i + 1]
           /\ Head(q) = q[1] /\ q[1] \in S /\ Len(q) \in Nat \ {0}
  OBVIOUS

LEMMA Joined ==
    ASSUME NEW S, NEW q \in Seq(S), NEW r \in Seq(S)
    PROVE  /\ q \o r \in Seq(S) /\ DOMAIN (q \o r) = 1 .. Len(q) + Len(r)
           /\ \A i \in 1 .. Len(q) : (q \o r)[i] = q[i]
           /\ \A i \in 1 .. Len(r) : (q \o r)[Len(q) + i] = r[i]
  OBVIOUS

LEMMA Removed ==
    ASSUME NEW S, NEW q \in Seq(S), NEW i \in DOMAIN q
    PROVE  /\ RemoveAt(q, i) \in Seq(S)
           /\ \A j \in DOMAIN RemoveAt(q, i) : \E k \in DOMAIN q : RemoveAt(q, i)[j] = q[k]
<1>1. /\ SubSeq(q, 1, i - 1) \in Seq(S) /\ SubSeq(q, i + 1, Len(q)) \in Seq(S)
  OBVIOUS
<1>2. /\ \A j \in DOMAIN SubSeq(q, 1, i - 1) : j \in DOMAIN q /\ SubSeq(q, 1, i - 1)[j] = q[j]
      /\ \A j \in DOMAIN SubSeq(q, i + 1, Len(q)) :
            j + i \in DOMAIN q /\ SubSeq(q, i + 1, Len(q))[j] = q[j + i]
  OBVIOUS
<1> DEFINE a == SubSeq(q, 1, i - 1)  b == SubSeq(q, i + 1, Len(q))
<1>0. a \in Seq(S) /\ b \in Seq(S)
  BY <1>1
<1> HIDE DEF a, b
<1>3. /\ a \o b \in Seq(S) /\ DOMAIN (a \o b) = 1 .. Len(a) + Len(b)
      /\ \A j \in 1 .. Len(a) : (a \o b)[j] = a[j]
      /\ \A j \in 1 .. Len(b) : (a \o b)[Len(a) + j] = b[j]
  BY <1>0, Joined
<1>4. Len(a) \in Nat /\ Len(b) \in Nat /\ DOMAIN a = 1 .. Len(a) /\ DOMAIN b = 1 .. Len(b)
  BY <1>0
<1>5. \A j \in 1 .. Len(a) + Len(b) : j \in 1 .. Len(a) \/ \E k \in 1 .. Len(b) : j = Len(a) + k
  <2> SUFFICES ASSUME NEW j \in 1 .. Len(a) + Len(b), j \notin 1 .. Len(a)
               PROVE  j - Len(a) \in 1 .. Len(b) /\ j = Len(a) + (j - Len(a))
    OBVIOUS
  <2>1. QED BY <1>4
<1>6. RemoveAt(q, i) = a \o b
  BY DEF RemoveAt, a, b
<1>7. \A j \in DOMAIN (a \o b) : \E k \in DOMAIN q : (a \o b)[j] = q[k]
  <2> SUFFICES ASSUME NEW j \in 1 .. Len(a) + Len(b) PROVE \E k \in DOMAIN q : (a \o b)[j] = q[k]
    BY <1>3
  <2>1. CASE j \in 1 .. Len(a)
    BY <2>1, <1>2, <1>3, <1>4 DEF a
  <2>2. CASE \E k \in 1 .. Len(b) : j = Len(a) + k
    <3>1. PICK k \in 1 .. Len(b) : j = Len(a) + k
      BY <2>2
    <3>2. (a \o b)[j] = b[k]
      BY <1>3, <3>1
    <3>3. k \in DOMAIN b
      BY <1>4
    <3>4. k + i \in DOMAIN q /\ b[k] = q[k + i]
      BY <1>2, <3>3 DEF b
    <3>5. QED BY <3>2, <3>4
  <2>3. QED BY <2>1, <2>2, <1>5
<1>8. QED BY <1>3, <1>6, <1>7

-----------------------------------------------------------------------------
(* The daemon forgets nothing: what was known stays known. *)
LEMMA KnownLater ==
    ASSUME TypeOK, TypeOK', committed <= committed', published <= published',
           NEW f \in Frames, Known(f)
    PROVE  Known(f)'
<1>1. /\ committed \in Int /\ committed' \in Int /\ published \in Int /\ published' \in Int
  BY FeedAssumption DEF TypeOK
<1>2. f.kind = "event" => f.seq \in Int
  BY EventFrame
<1>3. f.kind = "catalog" => f.value \in Int /\ f.at \in Int
  BY LoadFrame, FeedAssumption
<1>4. QED BY <1>1, <1>2, <1>3 DEF Known

LEMMA FramesHeld ==
    ASSUME Inductive
    PROVE  /\ \A i \in DOMAIN wire : wire[i] \in Frames /\ Known(wire[i])
           /\ \A i \in DOMAIN channel : channel[i] \in Frames /\ Known(channel[i])
           /\ \A i \in DOMAIN answers : answers[i] \in Frames /\ Known(answers[i])
<1>1. \A i \in DOMAIN wire : wire[i] \in Frames
  BY DEF Inductive, TypeOK, Frames
<1>2. \A i \in DOMAIN channel : channel[i] \in Notices
  BY DEF Inductive, TypeOK
<1>3. \A i \in DOMAIN answers : answers[i] \in Loads
  BY DEF Inductive, TypeOK
<1>4. QED BY <1>1, <1>2, <1>3, FramesTyped DEF Inductive, FramesKnown

LEMMA FramesLater ==
    ASSUME Inductive, TypeOK', committed <= committed', published <= published',
           wire' \in {wire, <<>>}, channel' = channel, answers' = answers
    PROVE  FramesKnown'
<1>1. /\ \A i \in DOMAIN wire : wire[i] \in Frames /\ Known(wire[i])
      /\ \A i \in DOMAIN channel : channel[i] \in Frames /\ Known(channel[i])
      /\ \A i \in DOMAIN answers : answers[i] \in Frames /\ Known(answers[i])
  BY FramesHeld
<1>2. \A f \in Frames : Known(f) => Known(f)'
  BY KnownLater DEF Inductive
<1>3. \A i \in DOMAIN wire' : Known(wire[i])'
  BY <1>1, <1>2 DEF Known
<1>4. \A i \in DOMAIN channel' : Known(channel[i])'
  BY <1>1, <1>2 DEF Known
<1>5. \A i \in DOMAIN answers' : Known(answers[i])'
  BY <1>1, <1>2 DEF Known
<1>6. QED BY <1>3, <1>4, <1>5 DEF FramesKnown, Known

(* A frame that is no event leaves the events on the wire as they are.     *)
LEMMA WireGrows ==
    ASSUME Inductive, phase # "down", seen' = seen, sent' = sent,
           NEW f \in Frames, f.kind # "event", wire' = Append(wire, f)
    PROVE  Continues'
<1>1. /\ DOMAIN wire' = 1 .. Len(wire) + 1 /\ DOMAIN wire = 1 .. Len(wire) /\ Len(wire) \in Nat
      /\ \A i \in 1 .. Len(wire) : wire'[i] = wire[i]
      /\ wire'[Len(wire) + 1] = f
  BY Appended DEF Inductive, TypeOK, Frames
<1>2. \A i \in DOMAIN wire' : IsEvent(i)' => i \in DOMAIN wire /\ IsEvent(i) /\ wire'[i] = wire[i]
  BY <1>1 DEF IsEvent
<1>3. QED BY <1>1, <1>2 DEF Inductive, Continues

-----------------------------------------------------------------------------
LEMMA InductiveInit == Init => Inductive
  BY FeedAssumption DEF Init, Inductive, TypeOK, FramesKnown, Continues, NotAhead, DownEmpty, Phases, Frames

LEMMA KeptCommit == ASSUME Inductive, Commit PROVE Inductive'
<1>1. TypeOK'
  BY FeedAssumption DEF Inductive, TypeOK, Commit, vars, daemon, session, bridge, window, Phases, Disconnected, KeptFeed
<1>2. FramesKnown'
  BY <1>1, FramesLater, FeedAssumption DEF Inductive, TypeOK, Commit, vars, daemon, session, bridge, window, Disconnected
<1>3. Continues'
  BY FeedAssumption DEF Inductive, TypeOK, Continues, DownEmpty, IsEvent, Commit, vars, daemon, session, bridge, window, Disconnected, Cursor
<1>4. NotAhead' /\ DownEmpty'
  BY FeedAssumption DEF Inductive, TypeOK, NotAhead, DownEmpty, Commit, vars, daemon, session, bridge, window, Disconnected, KeptFeed
<1>5. QED BY <1>1, <1>2, <1>3, <1>4 DEF Inductive

LEMMA KeptPublish == ASSUME Inductive, Publish PROVE Inductive'
<1>1. TypeOK'
  BY FeedAssumption DEF Inductive, TypeOK, Publish, vars, daemon, session, bridge, window, Phases, Disconnected, KeptFeed
<1>2. FramesKnown'
  BY <1>1, FramesLater, FeedAssumption DEF Inductive, TypeOK, Publish, vars, daemon, session, bridge, window, Disconnected
<1>3. Continues'
  BY FeedAssumption DEF Inductive, TypeOK, Continues, DownEmpty, IsEvent, Publish, vars, daemon, session, bridge, window, Disconnected, Cursor
<1>4. NotAhead' /\ DownEmpty'
  BY FeedAssumption DEF Inductive, TypeOK, NotAhead, DownEmpty, Publish, vars, daemon, session, bridge, window, Disconnected, KeptFeed
<1>5. QED BY <1>1, <1>2, <1>3, <1>4 DEF Inductive

LEMMA KeptSubscribe == ASSUME Inductive, Subscribe PROVE Inductive'
<1>1. TypeOK'
  BY FeedAssumption DEF Inductive, TypeOK, Subscribe, vars, daemon, session, bridge, window, Phases, Disconnected, KeptFeed
<1>2. FramesKnown'
  BY <1>1, FramesLater, FeedAssumption DEF Inductive, TypeOK, Subscribe, vars, daemon, session, bridge, window, Disconnected
<1>3. Continues'
  BY FeedAssumption DEF Inductive, TypeOK, Continues, DownEmpty, IsEvent, Subscribe, vars, daemon, session, bridge, window, Disconnected, Cursor
<1>4. NotAhead' /\ DownEmpty'
  BY FeedAssumption DEF Inductive, TypeOK, NotAhead, DownEmpty, Subscribe, vars, daemon, session, bridge, window, Disconnected, KeptFeed
<1>5. QED BY <1>1, <1>2, <1>3, <1>4 DEF Inductive

LEMMA KeptReadFails == ASSUME Inductive, ReadFails PROVE Inductive'
<1>1. TypeOK'
  BY FeedAssumption DEF Inductive, TypeOK, ReadFails, vars, daemon, session, bridge, window, Phases, Disconnected, KeptFeed
<1>2. FramesKnown'
  BY <1>1, FramesLater, FeedAssumption DEF Inductive, TypeOK, ReadFails, vars, daemon, session, bridge, window, Disconnected
<1>3. Continues'
  BY FeedAssumption DEF Inductive, TypeOK, Continues, DownEmpty, IsEvent, ReadFails, vars, daemon, session, bridge, window, Disconnected, Cursor
<1>4. NotAhead' /\ DownEmpty'
  BY FeedAssumption DEF Inductive, TypeOK, NotAhead, DownEmpty, ReadFails, vars, daemon, session, bridge, window, Disconnected, KeptFeed
<1>5. QED BY <1>1, <1>2, <1>3, <1>4 DEF Inductive

LEMMA KeptGoLive == ASSUME Inductive, GoLive PROVE Inductive'
<1>1. TypeOK'
  BY FeedAssumption DEF Inductive, TypeOK, GoLive, vars, daemon, session, bridge, window, Phases, Disconnected, KeptFeed
<1>2. FramesKnown'
  BY <1>1, FramesLater, FeedAssumption DEF Inductive, TypeOK, GoLive, vars, daemon, session, bridge, window, Disconnected
<1>3. Continues'
  BY FeedAssumption DEF Inductive, TypeOK, Continues, DownEmpty, IsEvent, GoLive, vars, daemon, session, bridge, window, Disconnected, Cursor
<1>4. NotAhead' /\ DownEmpty'
  BY FeedAssumption DEF Inductive, TypeOK, NotAhead, DownEmpty, GoLive, vars, daemon, session, bridge, window, Disconnected, KeptFeed
<1>5. QED BY <1>1, <1>2, <1>3, <1>4 DEF Inductive

LEMMA KeptSendLoad == ASSUME Inductive, SendLoad PROVE Inductive'
<1>1. TypeOK'
  BY FeedAssumption DEF Inductive, TypeOK, SendLoad, vars, daemon, session, bridge, window, Phases, Disconnected, KeptFeed
<1>2. FramesKnown'
  BY <1>1, FramesLater, FeedAssumption DEF Inductive, TypeOK, SendLoad, vars, daemon, session, bridge, window, Disconnected
<1>3. Continues'
  BY FeedAssumption DEF Inductive, TypeOK, Continues, DownEmpty, IsEvent, SendLoad, vars, daemon, session, bridge, window, Disconnected, Cursor
<1>4. NotAhead' /\ DownEmpty'
  BY FeedAssumption DEF Inductive, TypeOK, NotAhead, DownEmpty, SendLoad, vars, daemon, session, bridge, window, Disconnected, KeptFeed
<1>5. QED BY <1>1, <1>2, <1>3, <1>4 DEF Inductive

LEMMA KeptBreak == ASSUME Inductive, Break PROVE Inductive'
<1>1. TypeOK'
  BY FeedAssumption DEF Inductive, TypeOK, Break, vars, daemon, session, bridge, window, Phases, Disconnected, KeptFeed
<1>2. FramesKnown'
  BY <1>1, FramesLater, FeedAssumption DEF Inductive, TypeOK, Break, vars, daemon, session, bridge, window, Disconnected
<1>3. Continues'
  BY FeedAssumption DEF Inductive, TypeOK, Continues, DownEmpty, IsEvent, Break, vars, daemon, session, bridge, window, Disconnected, Cursor
<1>4. NotAhead' /\ DownEmpty'
  BY FeedAssumption DEF Inductive, TypeOK, NotAhead, DownEmpty, Break, vars, daemon, session, bridge, window, Disconnected, KeptFeed
<1>5. QED BY <1>1, <1>2, <1>3, <1>4 DEF Inductive

LEMMA KeptApply == ASSUME Inductive, NEW e \in 1 .. MaxSeq, Apply(e) PROVE Inductive'
<1>1. TypeOK'
  BY FeedAssumption DEF Inductive, TypeOK, Apply, vars, daemon, session, bridge, window, Phases, Disconnected, KeptFeed
<1>2. FramesKnown'
  BY <1>1, FramesLater, FeedAssumption DEF Inductive, TypeOK, Apply, vars, daemon, session, bridge, window, Disconnected
<1>3. Continues'
  BY FeedAssumption DEF Inductive, TypeOK, Continues, DownEmpty, IsEvent, Apply, vars, daemon, session, bridge, window, Disconnected, Cursor
<1>4. NotAhead' /\ DownEmpty'
  BY FeedAssumption DEF Inductive, TypeOK, NotAhead, DownEmpty, Apply, vars, daemon, session, bridge, window, Disconnected, KeptFeed
<1>5. QED BY <1>1, <1>2, <1>3, <1>4 DEF Inductive

LEMMA KeptRestartDaemon == ASSUME Inductive, RestartDaemon PROVE Inductive'
<1>1. TypeOK'
  BY FeedAssumption DEF Inductive, TypeOK, RestartDaemon, vars, daemon, session, bridge, window, Phases, Disconnected, KeptFeed
<1>2. FramesKnown'
  BY <1>1, FramesLater, FeedAssumption DEF Inductive, TypeOK, RestartDaemon, vars, daemon, session, bridge, window, Disconnected
<1>3. Continues'
  BY FeedAssumption DEF Inductive, TypeOK, Continues, DownEmpty, IsEvent, RestartDaemon, vars, daemon, session, bridge, window, Disconnected, Cursor
<1>4. NotAhead' /\ DownEmpty'
  BY FeedAssumption DEF Inductive, TypeOK, NotAhead, DownEmpty, RestartDaemon, vars, daemon, session, bridge, window, Disconnected, KeptFeed
<1>5. QED BY <1>1, <1>2, <1>3, <1>4 DEF Inductive

LEMMA KeptFallBehind == ASSUME Inductive, FallBehind PROVE Inductive'
<1>1. TypeOK'
  <2>1. wire' = Append(wire, Lagged) /\ Lagged \in Frames /\ wire \in Seq(Frames)
    BY FramesTyped, FeedAssumption DEF FallBehind, CutNotice, Inductive, TypeOK, Frames
  <2>2. wire' \in Seq(Frames)
    BY <2>1, Appended
  <2>3. QED BY <2>2, FeedAssumption DEF Inductive, TypeOK, FallBehind, vars, daemon, session, bridge, window, Phases, Frames
<1>2. FramesKnown'
  <2>1. wire' = Append(wire, Lagged) /\ Lagged \in Frames /\ wire \in Seq(Frames)
    BY FramesTyped, FeedAssumption DEF FallBehind, CutNotice, Inductive, TypeOK, Frames
  <2>2. /\ DOMAIN wire' = 1 .. Len(wire) + 1 /\ DOMAIN wire = 1 .. Len(wire)
        /\ \A i \in 1 .. Len(wire) : wire'[i] = wire[i]
        /\ wire'[Len(wire) + 1] = Lagged
    BY <2>1, Appended
  <2>3. Known(Lagged)
    BY FrameKinds, FeedAssumption DEF Known, Inductive, TypeOK
  <2>4. UNCHANGED <<committed, published, channel, answers>>
    BY DEF FallBehind, vars, daemon, session, bridge, window
  <2>5. QED BY <2>2, <2>3, <2>4 DEF FramesKnown, Known, Inductive
<1>3. Continues'
  <2>1. Lagged \in Frames /\ Lagged.kind # "event" /\ wire' = Append(wire, Lagged)
    BY FrameKinds, FramesTyped, FeedAssumption DEF FallBehind, CutNotice, Frames, Inductive, TypeOK
  <2>2. phase # "down" /\ seen' = seen /\ sent' = sent
    BY DEF FallBehind, vars, daemon, session, bridge, window
  <2>3. QED BY <2>1, <2>2, WireGrows
<1>4. NotAhead' /\ DownEmpty'
  BY FeedAssumption DEF Inductive, TypeOK, NotAhead, DownEmpty, FallBehind, vars, daemon, session, bridge, window, Disconnected, KeptFeed
<1>5. QED BY <1>1, <1>2, <1>3, <1>4 DEF Inductive

LEMMA KeptAnswerLoad == ASSUME Inductive, AnswerLoad PROVE Inductive'
<1>1. TypeOK'
  <2>0. Catalog \in 0 .. published /\ Catalog \in 0 .. MaxSeq /\ published \in 0 .. MaxSeq
    BY CatalogKnown, FeedAssumption DEF Inductive, TypeOK
  <2>1. wire' = Append(wire, Load(Catalog, published)) /\ Load(Catalog, published) \in Frames /\ wire \in Seq(Frames)
    BY FramesTyped, FeedAssumption, <2>0 DEF AnswerLoad, CutNotice, Inductive, TypeOK, Frames
  <2>2. wire' \in Seq(Frames)
    BY <2>1, Appended
  <2>3. QED BY <2>2, FeedAssumption DEF Inductive, TypeOK, AnswerLoad, vars, daemon, session, bridge, window, Phases, Frames
<1>2. FramesKnown'
  <2>0. Catalog \in 0 .. published /\ Catalog \in 0 .. MaxSeq /\ published \in 0 .. MaxSeq
    BY CatalogKnown, FeedAssumption DEF Inductive, TypeOK
  <2>1. wire' = Append(wire, Load(Catalog, published)) /\ Load(Catalog, published) \in Frames /\ wire \in Seq(Frames)
    BY FramesTyped, FeedAssumption, <2>0 DEF AnswerLoad, CutNotice, Inductive, TypeOK, Frames
  <2>2. /\ DOMAIN wire' = 1 .. Len(wire) + 1 /\ DOMAIN wire = 1 .. Len(wire)
        /\ \A i \in 1 .. Len(wire) : wire'[i] = wire[i]
        /\ wire'[Len(wire) + 1] = Load(Catalog, published)
    BY <2>1, Appended
  <2>3. Known(Load(Catalog, published))
    BY FrameKinds, FeedAssumption, <2>0 DEF Known, Inductive, TypeOK
  <2>4. UNCHANGED <<committed, published, channel, answers>>
    BY DEF AnswerLoad, vars, daemon, session, bridge, window
  <2>5. QED BY <2>2, <2>3, <2>4 DEF FramesKnown, Known, Inductive
<1>3. Continues'
  <2>0. Catalog \in 0 .. published /\ Catalog \in 0 .. MaxSeq /\ published \in 0 .. MaxSeq
    BY CatalogKnown, FeedAssumption DEF Inductive, TypeOK
  <2>1. Load(Catalog, published) \in Frames /\ Load(Catalog, published).kind # "event" /\ wire' = Append(wire, Load(Catalog, published))
    BY FrameKinds, FramesTyped, FeedAssumption, <2>0 DEF AnswerLoad, CutNotice, Frames, Inductive, TypeOK
  <2>2. phase # "down" /\ seen' = seen /\ sent' = sent
    BY DEF AnswerLoad, vars, daemon, session, bridge, window
  <2>3. QED BY <2>1, <2>2, WireGrows
<1>4. NotAhead' /\ DownEmpty'
  BY FeedAssumption DEF Inductive, TypeOK, NotAhead, DownEmpty, AnswerLoad, vars, daemon, session, bridge, window, Disconnected, KeptFeed
<1>5. QED BY <1>1, <1>2, <1>3, <1>4 DEF Inductive

LEMMA KeptConnect == ASSUME Inductive, Connect PROVE Inductive'
<1>1. TypeOK'
  <2>1. channel' \in Seq(Notices)
    BY FramesTyped, Appended DEF Connect, Inductive, TypeOK
  <2>2. Cursor \in 0 .. committed
    BY FeedAssumption DEF Cursor, Inductive, TypeOK
  <2>3. QED BY <2>1, <2>2, FeedAssumption DEF Inductive, TypeOK, Connect, vars, daemon, session, bridge, window, Phases
<1>2. FramesKnown'
  <2>1. /\ DOMAIN channel' = 1 .. Len(channel) + 1 /\ DOMAIN channel = 1 .. Len(channel)
        /\ \A i \in 1 .. Len(channel) : channel'[i] = channel[i]
        /\ channel'[Len(channel) + 1] = Connected
    BY FramesTyped, Appended DEF Connect, Inductive, TypeOK
  <2>2. UNCHANGED <<committed, published, wire, answers>>
    BY DEF Connect, daemon
  <2>3. QED BY <2>1, <2>2, FrameKinds DEF Inductive, FramesKnown, Known
<1>3. Continues'
  BY FeedAssumption DEF Inductive, TypeOK, Continues, DownEmpty, IsEvent, Connect, vars, daemon, session, bridge, window, Disconnected, Cursor
<1>4. NotAhead' /\ DownEmpty'
  BY FeedAssumption DEF Inductive, TypeOK, NotAhead, DownEmpty, Connect, vars, daemon, session, bridge, window, Disconnected, KeptFeed
<1>5. QED BY <1>1, <1>2, <1>3, <1>4 DEF Inductive

LEMMA KeptReceiveAnswer == ASSUME Inductive, ReceiveAnswer PROVE Inductive'
<1>1. TypeOK'
  <2>1. wire # <<>> /\ wire \in Seq(Frames) /\ Head(wire).kind = "catalog"
    BY DEF ReceiveAnswer, Inductive, TypeOK, Frames
  <2>2. wire' \in Seq(Frames) /\ Head(wire) \in Loads
    BY <2>1, Dropped, LoadFrame DEF ReceiveAnswer
  <2>3. answers' \in Seq(Loads)
    BY <2>2, Appended DEF ReceiveAnswer, Inductive, TypeOK
  <2>4. QED BY <2>2, <2>3, FeedAssumption DEF Inductive, TypeOK, ReceiveAnswer, vars, daemon, session, bridge, window, Phases, Frames
<1>2. FramesKnown'
  <2>1. wire # <<>> /\ wire \in Seq(Frames) /\ Head(wire).kind = "catalog"
    BY DEF ReceiveAnswer, Inductive, TypeOK, Frames
  <2>2. /\ DOMAIN wire' = 1 .. Len(wire) - 1 /\ DOMAIN wire = 1 .. Len(wire) /\ Len(wire) \in Nat \ {0}
        /\ \A i \in 1 .. Len(wire) - 1 : wire'[i] = wire[i + 1]
        /\ Head(wire) = wire[1] /\ Head(wire) \in Loads
    BY <2>1, Dropped, LoadFrame DEF ReceiveAnswer
  <2>3. /\ DOMAIN answers' = 1 .. Len(answers) + 1 /\ DOMAIN answers = 1 .. Len(answers)
        /\ \A i \in 1 .. Len(answers) : answers'[i] = answers[i]
        /\ answers'[Len(answers) + 1] = wire[1]
    BY <2>2, Appended DEF ReceiveAnswer, Inductive, TypeOK
  <2>4. UNCHANGED <<committed, published, channel>>
    BY DEF ReceiveAnswer, daemon
  <2>5. 1 \in DOMAIN wire
    BY <2>2
  <2>6. QED BY <2>2, <2>3, <2>4, <2>5 DEF Inductive, FramesKnown, Known
<1>3. Continues'
  <2>1. wire # <<>> /\ wire \in Seq(Frames) /\ Head(wire).kind = "catalog"
    BY DEF ReceiveAnswer, Inductive, TypeOK, Frames
  <2>2. /\ DOMAIN wire' = 1 .. Len(wire) - 1 /\ DOMAIN wire = 1 .. Len(wire) /\ Len(wire) \in Nat \ {0}
        /\ \A i \in 1 .. Len(wire) - 1 : wire'[i] = wire[i + 1]
        /\ wire[1].kind = "catalog"
    BY <2>1, Dropped DEF ReceiveAnswer
  <2>3. phase # "down" /\ UNCHANGED <<phase, seen, sent>>
    BY <2>1 DEF ReceiveAnswer, session, bridge, Inductive, DownEmpty
  <2>4. \A e : wire[1] # Event(e)
    BY <2>2, FrameKinds
  <2>5. \A i \in 1 .. Len(wire) : i = 1 \/ i - 1 \in 1 .. Len(wire) - 1
    BY <2>2
  <2>6. \A e \in seen + 1 .. sent : \E i \in DOMAIN wire' : wire'[i] = Event(e)
    <3> SUFFICES ASSUME NEW e \in seen + 1 .. sent PROVE \E i \in DOMAIN wire' : wire'[i] = Event(e)
      OBVIOUS
    <3>1. PICK i \in DOMAIN wire : wire[i] = Event(e)
      BY <2>3 DEF Inductive, Continues
    <3>2. i - 1 \in 1 .. Len(wire) - 1
      BY <3>1, <2>2, <2>4, <2>5
    <3>3. wire'[i - 1] = wire[i]
      BY <3>2, <2>2
    <3>4. QED BY <3>1, <3>2, <3>3, <2>2
  <2>7. \A i \in DOMAIN wire' : i + 1 \in DOMAIN wire /\ wire'[i] = wire[i + 1] /\ (IsEvent(i)' => IsEvent(i + 1))
    BY <2>2 DEF IsEvent
  <2>8. \A i, j \in DOMAIN wire' : i < j => i + 1 < j + 1
    BY <2>2
  <2>9. 0 <= seen' /\ seen' <= sent'
    BY <2>3 DEF Inductive, Continues
  <2>10. \A i \in DOMAIN wire' : IsEvent(i)' => seen' < wire'[i].seq /\ wire'[i].seq <= sent'
    BY <2>3, <2>7 DEF Inductive, Continues
  <2>11. \A i, j \in DOMAIN wire' : i < j /\ IsEvent(i)' /\ IsEvent(j)' => wire'[i].seq < wire'[j].seq
    BY <2>3, <2>7, <2>8 DEF Inductive, Continues
  <2>12. QED BY <2>3, <2>6, <2>9, <2>10, <2>11 DEF Continues
<1>4. NotAhead' /\ DownEmpty'
  BY FeedAssumption DEF Inductive, TypeOK, NotAhead, DownEmpty, ReceiveAnswer, vars, daemon, session, bridge, window, Disconnected, KeptFeed
<1>5. QED BY <1>1, <1>2, <1>3, <1>4 DEF Inductive

LEMMA KeptReceiveLagged == ASSUME Inductive, ReceiveLagged PROVE Inductive'
<1>1. TypeOK'
  <2>1. channel' \in Seq(Notices)
    BY FramesTyped, Appended DEF ReceiveLagged, Inductive, TypeOK
  <2>2. wire' \in Seq(Frames)
    BY DEF ReceiveLagged, Disconnected, Inductive, TypeOK, Frames
  <2>3. QED BY <2>1, <2>2, FeedAssumption DEF Inductive, TypeOK, ReceiveLagged, Disconnected, vars, daemon, session, bridge, window, Phases, Frames
<1>2. FramesKnown'
  <2>1. /\ DOMAIN channel' = 1 .. Len(channel) + 1 /\ DOMAIN channel = 1 .. Len(channel)
        /\ \A i \in 1 .. Len(channel) : channel'[i] = channel[i]
        /\ channel'[Len(channel) + 1] = Lagged
    BY FramesTyped, Appended DEF ReceiveLagged, Inductive, TypeOK
  <2>2. UNCHANGED <<committed, published, answers>> /\ wire' = <<>>
    BY DEF ReceiveLagged, Disconnected, daemon
  <2>3. QED BY <2>1, <2>2, FrameKinds DEF Inductive, FramesKnown, Known
<1>3. Continues'
  BY FeedAssumption DEF Inductive, TypeOK, Continues, DownEmpty, IsEvent, ReceiveLagged, vars, daemon, session, bridge, window, Disconnected, Cursor
<1>4. NotAhead' /\ DownEmpty'
  BY FeedAssumption DEF Inductive, TypeOK, NotAhead, DownEmpty, ReceiveLagged, vars, daemon, session, bridge, window, Disconnected, KeptFeed
<1>5. QED BY <1>1, <1>2, <1>3, <1>4 DEF Inductive

LEMMA KeptTakeEvent == ASSUME Inductive, TakeEvent PROVE Inductive'
<1>1. TypeOK'
  <2>1. channel # <<>> /\ channel \in Seq(Notices) /\ Head(channel).kind = "event"
    BY DEF TakeEvent, Inductive, TypeOK
  <2>2. channel' \in Seq(Notices) /\ Head(channel) = channel[1] /\ 1 \in DOMAIN channel /\ channel[1] \in Notices
    BY <2>1, Dropped DEF TakeEvent
  <2>3. Head(channel).seq \in 1 .. MaxSeq
    BY <2>1, <2>2, EventFrame, FramesTyped
  <2>4. Head(channel).seq <= committed
    BY <2>1, <2>2 DEF Inductive, FramesKnown, Known
  <2>5. Head(channel).seq \in 1 .. committed
    BY <2>3, <2>4, FeedAssumption DEF Inductive, TypeOK
  <2>6. shown' \in 0 .. committed /\ got' \subseteq 1 .. committed
    <3>1. got \subseteq 1 .. committed /\ committed \in Nat
      BY FeedAssumption DEF Inductive, TypeOK
    <3>2. shown' = Head(channel).seq /\ got' = got \union {Head(channel).seq}
      BY DEF TakeEvent
    <3>3. ASSUME NEW e \in 1 .. committed PROVE e \in 0 .. committed /\ got \union {e} \subseteq 1 .. committed
      BY <3>1
    <3>4. QED BY <3>2, <3>3, <2>5, Zenon
  <2>7. QED BY <2>2, <2>6, FeedAssumption DEF Inductive, TypeOK, TakeEvent, vars, daemon, session, bridge, window, Phases
<1>2. FramesKnown'
  <2>1. channel # <<>> /\ channel \in Seq(Notices)
    BY DEF TakeEvent, Inductive, TypeOK
  <2>2. /\ DOMAIN channel' = 1 .. Len(channel) - 1 /\ DOMAIN channel = 1 .. Len(channel) /\ Len(channel) \in Nat \ {0}
        /\ \A i \in 1 .. Len(channel) - 1 : channel'[i] = channel[i + 1]
    BY <2>1, Dropped DEF TakeEvent
  <2>3. UNCHANGED <<committed, published, wire, answers>>
    BY DEF TakeEvent, daemon
  <2>4. QED BY <2>2, <2>3 DEF Inductive, FramesKnown, Known
<1>3. Continues'
  BY FeedAssumption DEF Inductive, TypeOK, Continues, DownEmpty, IsEvent, TakeEvent, vars, daemon, session, bridge, window, Disconnected, Cursor
<1>4. NotAhead' /\ DownEmpty'
  BY FeedAssumption DEF Inductive, TypeOK, NotAhead, DownEmpty, TakeEvent, vars, daemon, session, bridge, window, Disconnected, KeptFeed
<1>5. QED BY <1>1, <1>2, <1>3, <1>4 DEF Inductive

LEMMA KeptResync == ASSUME Inductive, Resync PROVE Inductive'
<1>1. TypeOK'
  <2>1. channel' \in Seq(Notices)
    BY Dropped DEF Resync, Inductive, TypeOK
  <2>2. queued' \in Nat
    <3>1. queued \in Nat /\ MaxBacklog \in Nat
      BY FeedAssumption DEF Inductive, TypeOK
    <3>2. Min({queued + 1, MaxBacklog}) = IF queued + 1 <= MaxBacklog THEN queued + 1 ELSE MaxBacklog
      BY <3>1, MinOfTwo
    <3>3. QED BY <3>1, <3>2 DEF Resync
  <2>3. QED BY <2>1, <2>2, FeedAssumption DEF Inductive, TypeOK, Resync, vars, daemon, session, bridge, window, Phases
<1>2. FramesKnown'
  <2>1. channel # <<>> /\ channel \in Seq(Notices)
    BY DEF Resync, Inductive, TypeOK
  <2>2. /\ DOMAIN channel' = 1 .. Len(channel) - 1 /\ DOMAIN channel = 1 .. Len(channel) /\ Len(channel) \in Nat \ {0}
        /\ \A i \in 1 .. Len(channel) - 1 : channel'[i] = channel[i + 1]
    BY <2>1, Dropped DEF Resync
  <2>3. UNCHANGED <<committed, published, wire, answers>>
    BY DEF Resync, daemon
  <2>4. QED BY <2>2, <2>3 DEF Inductive, FramesKnown, Known
<1>3. Continues'
  BY FeedAssumption DEF Inductive, TypeOK, Continues, DownEmpty, IsEvent, Resync, vars, daemon, session, bridge, window, Disconnected, Cursor
<1>4. NotAhead' /\ DownEmpty'
  BY FeedAssumption DEF Inductive, TypeOK, NotAhead, DownEmpty, Resync, vars, daemon, session, bridge, window, Disconnected, KeptFeed
<1>5. QED BY <1>1, <1>2, <1>3, <1>4 DEF Inductive

LEMMA KeptTakeAnswer == ASSUME Inductive, NEW i \in DOMAIN answers, TakeAnswer(i) PROVE Inductive'
<1>1. TypeOK'
  <2>1. answers' \in Seq(Loads)
    BY Removed DEF TakeAnswer, Inductive, TypeOK
  <2>2. answers[i] \in Loads
    BY DEF Inductive, TypeOK
  <2>3. /\ answers[i].kind = "catalog" /\ answers[i].value \in 0 .. MaxSeq /\ answers[i].at \in 0 .. MaxSeq
    BY <2>2, FrameKinds DEF Loads
  <2>4. answers[i].value <= published /\ answers[i].at <= published
    BY <2>3 DEF Inductive, FramesKnown, Known
  <2>5. loadedAt' \in 0 .. published
    BY <2>3, <2>4, MaxOfTwo, FeedAssumption DEF TakeAnswer, Inductive, TypeOK
  <2>6. shown' \in 0 .. committed
    BY <2>3, <2>4, FeedAssumption DEF TakeAnswer, Inductive, TypeOK
  <2>7. QED BY <2>1, <2>5, <2>6, FeedAssumption DEF Inductive, TypeOK, TakeAnswer, vars, daemon, session, bridge, window, Phases
<1>2. FramesKnown'
  <2>1. \A j \in DOMAIN answers' : \E k \in DOMAIN answers : answers'[j] = answers[k]
    BY Removed DEF TakeAnswer, Inductive, TypeOK
  <2>2. UNCHANGED <<committed, published, wire, channel>>
    BY DEF TakeAnswer, daemon
  <2>3. QED BY <2>1, <2>2 DEF Inductive, FramesKnown, Known
<1>3. Continues'
  BY FeedAssumption DEF Inductive, TypeOK, Continues, DownEmpty, IsEvent, TakeAnswer, vars, daemon, session, bridge, window, Disconnected, Cursor
<1>4. NotAhead' /\ DownEmpty'
  BY FeedAssumption DEF Inductive, TypeOK, NotAhead, DownEmpty, TakeAnswer, vars, daemon, session, bridge, window, Disconnected, KeptFeed
<1>5. QED BY <1>1, <1>2, <1>3, <1>4 DEF Inductive

LEMMA KeptReceiveFeed == ASSUME Inductive, ReceiveFeed PROVE Inductive'
<1>1. TypeOK'
  <2>1. feed + 1 \in 1 .. published /\ feed + 1 \in 1 .. MaxSeq
    BY FeedAssumption DEF ReceiveFeed, Inductive, TypeOK
  <2>2. wire' = wire \/ wire' = Append(wire, Event(feed + 1))
    BY DEF ReceiveFeed
  <2>3. wire \in Seq(Frames) /\ Event(feed + 1) \in Frames
    BY <2>1, FramesTyped DEF Inductive, TypeOK, Frames
  <2>4. wire' \in Seq(Frames)
    BY <2>2, <2>3, Appended
  <2>5. QED BY <2>1, <2>4, FeedAssumption DEF Inductive, TypeOK, ReceiveFeed, vars, daemon, session, bridge, window, Phases, Frames
<1>2. FramesKnown'
  <2>1. feed + 1 \in 1 .. published /\ feed + 1 \in 1 .. MaxSeq /\ feed + 1 <= committed
    BY FeedAssumption DEF ReceiveFeed, Inductive, TypeOK
  <2>2. UNCHANGED <<committed, published, channel, answers>>
    BY DEF ReceiveFeed, daemon, window
  <2>3. CASE wire' = wire
    BY <2>2, <2>3 DEF Inductive, FramesKnown, Known
  <2>4. CASE wire' = Append(wire, Event(feed + 1))
    <3>1. /\ DOMAIN wire' = 1 .. Len(wire) + 1 /\ DOMAIN wire = 1 .. Len(wire)
          /\ \A i \in 1 .. Len(wire) : wire'[i] = wire[i]
          /\ wire'[Len(wire) + 1] = Event(feed + 1)
      BY <2>1, <2>4, FramesTyped, Appended DEF Inductive, TypeOK, Frames
    <3>2. QED BY <2>1, <2>2, <3>1, FrameKinds DEF Inductive, FramesKnown, Known
  <2>5. QED BY <2>3, <2>4 DEF ReceiveFeed
<1>3. Continues'
  <2>1. feed + 1 \in 1 .. MaxSeq /\ sent \in Int /\ feed <= sent /\ phase = "live"
    BY FeedAssumption DEF ReceiveFeed, Inductive, TypeOK, NotAhead
  <2>2. UNCHANGED <<phase, seen>>
    BY DEF ReceiveFeed, bridge
  <2>3. CASE ~NotSent(feed + 1)
    BY <2>2, <2>3 DEF ReceiveFeed, Inductive, Continues, IsEvent
  <2>4. CASE NotSent(feed + 1)
    <3>1. feed + 1 = sent + 1 /\ sent' = sent + 1 /\ wire' = Append(wire, Event(sent + 1))
      BY <2>1, <2>4 DEF NotSent, ReceiveFeed, Inductive, TypeOK
    <3>2. /\ DOMAIN wire' = 1 .. Len(wire) + 1 /\ DOMAIN wire = 1 .. Len(wire) /\ Len(wire) \in Nat
          /\ \A i \in 1 .. Len(wire) : wire'[i] = wire[i]
          /\ wire'[Len(wire) + 1] = Event(sent + 1)
      BY <2>1, <3>1, FramesTyped, Appended DEF Inductive, TypeOK, Frames
    <3>3. wire'[Len(wire) + 1].seq = sent + 1
      BY <3>2, FrameKinds
    <3>4. \A i \in DOMAIN wire : IsEvent(i) => wire[i].seq \in Int
      BY EventFrame DEF Inductive, TypeOK, Frames, IsEvent
    <3>5. /\ seen \in Int /\ 0 <= seen /\ seen <= sent
          /\ \A i \in DOMAIN wire : IsEvent(i) => seen < wire[i].seq /\ wire[i].seq <= sent
          /\ \A i, j \in DOMAIN wire : i < j /\ IsEvent(i) /\ IsEvent(j) => wire[i].seq < wire[j].seq
          /\ \A e \in seen + 1 .. sent : \E i \in DOMAIN wire : wire[i] = Event(e)
      BY <2>1 DEF Inductive, TypeOK, Continues
    <3>6. \A i \in DOMAIN wire' : IsEvent(i)' => seen' < wire'[i].seq /\ wire'[i].seq <= sent'
      BY <2>1, <2>2, <3>1, <3>2, <3>3, <3>4, <3>5 DEF IsEvent
    <3>7. \A i, j \in DOMAIN wire' : i < j /\ IsEvent(i)' /\ IsEvent(j)' => wire'[i].seq < wire'[j].seq
      BY <2>1, <2>2, <3>1, <3>2, <3>3, <3>4, <3>5 DEF IsEvent
    <3>8. \A e \in seen' + 1 .. sent' : \E i \in DOMAIN wire' : wire'[i] = Event(e)
      <4> SUFFICES ASSUME NEW e \in seen + 1 .. sent + 1 PROVE \E i \in DOMAIN wire' : wire'[i] = Event(e)
        BY <2>2, <3>1
      <4>1. CASE e = sent + 1
        BY <4>1, <3>2
      <4>2. CASE e \in seen + 1 .. sent
        BY <4>2, <3>2, <3>5
      <4>3. QED BY <4>1, <4>2, <3>5, <2>1
    <3>9. QED BY <2>1, <2>2, <3>1, <3>5, <3>6, <3>7, <3>8 DEF Continues
  <2>5. QED BY <2>3, <2>4
<1>4. NotAhead' /\ DownEmpty'
  <2>1. feed \in Int /\ sent \in Int /\ feed <= sent /\ phase = "live" /\ phase' = "live"
    BY FeedAssumption DEF ReceiveFeed, Inductive, TypeOK, NotAhead
  <2>2. QED BY <2>1 DEF ReceiveFeed, NotSent, NotAhead, DownEmpty
<1>5. QED BY <1>1, <1>2, <1>3, <1>4 DEF Inductive

(* The event the bridge forwards is the one after the last it forwarded.   *)
LEMMA NextEvent ==
    ASSUME Inductive, Forward
    PROVE  /\ seen \in Nat /\ phase # "down"
           /\ Head(wire) = Event(seen + 1) /\ seen + 1 \in 1 .. MaxSeq /\ seen + 1 <= sent
<1>1. wire # <<>> /\ wire \in Seq(Frames) /\ Head(wire).kind = "event"
  BY DEF Forward, Inductive, TypeOK, Frames
<1>2. /\ DOMAIN wire = 1 .. Len(wire) /\ Len(wire) \in Nat \ {0} /\ Head(wire) = wire[1]
      /\ wire[1] \in Frames
  BY <1>1, Dropped
<1>3. phase # "down"
  BY <1>1 DEF Inductive, DownEmpty
<1>4. wire[1].seq \in 1 .. MaxSeq /\ wire[1] = Event(wire[1].seq)
  BY <1>1, <1>2, EventFrame
<1>5. /\ seen \in Nat /\ sent \in Int /\ seen < wire[1].seq /\ wire[1].seq <= sent
  BY <1>1, <1>2, <1>3 DEF Inductive, TypeOK, Continues, IsEvent
<1>6. PICK i \in DOMAIN wire : wire[i] = Event(seen + 1)
  BY <1>3, <1>4, <1>5 DEF Inductive, Continues
<1>7. wire[i].seq = seen + 1 /\ IsEvent(i)
  BY <1>6, FrameKinds DEF IsEvent
<1>8. i = 1
  <2> SUFFICES ASSUME i # 1 PROVE FALSE
    OBVIOUS
  <2>1. 1 < i /\ 1 \in DOMAIN wire
    BY <1>2
  <2>2. wire[1].seq < wire[i].seq
    BY <2>1, <1>1, <1>2, <1>3, <1>7 DEF Inductive, Continues, IsEvent
  <2>3. QED BY <2>2, <1>4, <1>5, <1>7
<1>9. wire[1].seq = seen + 1
  BY <1>7, <1>8
<1>10. QED BY <1>2, <1>3, <1>4, <1>5, <1>6, <1>8, <1>9

LEMMA KeptForward == ASSUME Inductive, Forward PROVE Inductive'
<1>1. TypeOK'
  <2>1. wire # <<>> /\ wire \in Seq(Frames) /\ channel \in Seq(Notices)
    BY DEF Forward, Inductive, TypeOK, Frames
  <2>2. wire' \in Seq(Frames)
    BY <2>1, Dropped DEF Forward
  <2>3. /\ seen \in Nat /\ seen + 1 \in 1 .. MaxSeq /\ seen + 1 <= sent /\ sent <= committed
        /\ Head(wire) = Event(seen + 1) /\ Head(wire).seq = seen + 1
    BY NextEvent, FrameKinds DEF Inductive, TypeOK
  <2>4. channel' \in Seq(Notices)
    BY <2>1, <2>3, FramesTyped, Appended DEF Forward
  <2>5. seen' = seen + 1
    BY <2>3, MaxOfTwo DEF Forward
  <2>6. seen' \in -1 .. committed
    BY <2>3, <2>5, FeedAssumption DEF Inductive, TypeOK
  <2>7. QED BY <2>2, <2>4, <2>6, FeedAssumption DEF Inductive, TypeOK, Forward, vars, daemon, session, bridge, window, Phases, Frames
<1>2. FramesKnown'
  <2>1. wire # <<>> /\ wire \in Seq(Frames) /\ channel \in Seq(Notices)
    BY DEF Forward, Inductive, TypeOK, Frames
  <2>2. /\ DOMAIN wire' = 1 .. Len(wire) - 1 /\ DOMAIN wire = 1 .. Len(wire) /\ Len(wire) \in Nat \ {0}
        /\ \A i \in 1 .. Len(wire) - 1 : wire'[i] = wire[i + 1]
        /\ Head(wire) = wire[1]
    BY <2>1, Dropped DEF Forward
  <2>3. Head(wire) \in Notices
    BY NextEvent, FramesTyped
  <2>4. /\ DOMAIN channel' = 1 .. Len(channel) + 1 /\ DOMAIN channel = 1 .. Len(channel)
        /\ \A i \in 1 .. Len(channel) : channel'[i] = channel[i]
        /\ channel'[Len(channel) + 1] = wire[1]
    BY <2>1, <2>2, <2>3, Appended DEF Forward
  <2>5. UNCHANGED <<committed, published, answers>> /\ 1 \in DOMAIN wire
    BY <2>2 DEF Forward, daemon
  <2>6. /\ \A i \in DOMAIN wire : Known(wire[i])
        /\ \A i \in DOMAIN channel : Known(channel[i])
        /\ \A i \in DOMAIN answers : Known(answers[i])
    BY DEF Inductive, FramesKnown
  <2>7. \A i \in DOMAIN wire' : i + 1 \in DOMAIN wire /\ wire'[i] = wire[i + 1]
    BY <2>2
  <2>8. \A i \in DOMAIN channel' : channel'[i] = wire[1] \/ (i \in DOMAIN channel /\ channel'[i] = channel[i])
    <3> TAKE i \in DOMAIN channel'
    <3>1. Len(channel) \in Nat
      BY <2>1
    <3>2. i = Len(channel) + 1 \/ i \in 1 .. Len(channel)
      BY <2>4, <3>1
    <3>3. CASE i = Len(channel) + 1
      BY <2>4, <3>3
    <3>4. CASE i \in 1 .. Len(channel)
      BY <2>4, <3>4
    <3>5. QED BY <3>2, <3>3, <3>4
  <2>9. \A i \in DOMAIN wire' : Known(wire[i])'
    <3> TAKE i \in DOMAIN wire'
    <3>1. Known(wire[i + 1]) /\ wire'[i] = wire[i + 1]
      BY <2>6, <2>7
    <3>2. QED BY <2>5, <3>1 DEF Known
  <2>10. \A i \in DOMAIN channel' : Known(channel[i])'
    BY <2>5, <2>6, <2>8 DEF Known
  <2>11. \A i \in DOMAIN answers' : Known(answers[i])'
    BY <2>5, <2>6 DEF Known
  <2>12. QED BY <2>9, <2>10, <2>11 DEF FramesKnown
<1>3. Continues'
  <2>1. wire # <<>> /\ wire \in Seq(Frames)
    BY DEF Forward, Inductive, TypeOK, Frames
  <2>2. /\ DOMAIN wire' = 1 .. Len(wire) - 1 /\ DOMAIN wire = 1 .. Len(wire) /\ Len(wire) \in Nat \ {0}
        /\ \A i \in 1 .. Len(wire) - 1 : wire'[i] = wire[i + 1]
        /\ Head(wire) = wire[1]
    BY <2>1, Dropped DEF Forward
  <2>3. /\ seen \in Nat /\ phase # "down" /\ UNCHANGED <<phase, sent>> /\ sent \in Int /\ seen + 1 <= sent
        /\ wire[1] = Event(seen + 1) /\ wire[1].seq = seen + 1 /\ IsEvent(1)
    BY <2>2, NextEvent, FrameKinds DEF Forward, session, Inductive, TypeOK, IsEvent
  <2>4. seen' = seen + 1
    BY <2>2, <2>3, MaxOfTwo DEF Forward
  <2>5. /\ \A i \in DOMAIN wire : IsEvent(i) => seen < wire[i].seq /\ wire[i].seq <= sent
        /\ \A i, j \in DOMAIN wire : i < j /\ IsEvent(i) /\ IsEvent(j) => wire[i].seq < wire[j].seq
        /\ \A e \in seen + 1 .. sent : \E i \in DOMAIN wire : wire[i] = Event(e)
    BY <2>3 DEF Inductive, Continues
  <2>6. \A i \in DOMAIN wire' : i + 1 \in DOMAIN wire /\ 1 < i + 1 /\ wire'[i] = wire[i + 1]
                                /\ (IsEvent(i)' => IsEvent(i + 1))
    BY <2>2 DEF IsEvent
  <2>7. \A i, j \in DOMAIN wire' : i < j => i + 1 < j + 1
    BY <2>2
  <2>8. \A i \in DOMAIN wire' : IsEvent(i)' => seen' < wire'[i].seq /\ wire'[i].seq <= sent'
    <3> SUFFICES ASSUME NEW i \in DOMAIN wire', IsEvent(i)'
                 PROVE  seen' < wire'[i].seq /\ wire'[i].seq <= sent'
      OBVIOUS
    <3>1. 1 \in DOMAIN wire
      BY <2>2
    <3>2. i + 1 \in DOMAIN wire /\ 1 < i + 1 /\ IsEvent(i + 1) /\ wire'[i] = wire[i + 1]
      BY <2>6
    <3>3. wire[1].seq < wire[i + 1].seq /\ wire[i + 1].seq <= sent
      BY <3>1, <3>2, <2>3, <2>5
    <3>4. QED BY <3>2, <3>3, <2>3, <2>4
  <2>9. \A i, j \in DOMAIN wire' : i < j /\ IsEvent(i)' /\ IsEvent(j)' => wire'[i].seq < wire'[j].seq
    BY <2>5, <2>6, <2>7
  <2>10. \A e \in seen' + 1 .. sent' : \E i \in DOMAIN wire' : wire'[i] = Event(e)
    <3> SUFFICES ASSUME NEW e \in seen + 2 .. sent PROVE \E i \in DOMAIN wire' : wire'[i] = Event(e)
      BY <2>3, <2>4
    <3>1. e \in seen + 1 .. sent /\ e # seen + 1
      BY <2>3
    <3>2. PICK i \in DOMAIN wire : wire[i] = Event(e)
      BY <3>1, <2>5
    <3>3. i # 1
      BY <3>1, <3>2, <2>3, FrameKinds
    <3>4. i - 1 \in 1 .. Len(wire) - 1 /\ i = (i - 1) + 1
      BY <3>3, <2>2
    <3>5. wire'[i - 1] = wire[i]
      BY <3>4, <2>2
    <3>6. QED BY <3>2, <3>4, <3>5, <2>2
  <2>11. QED BY <2>3, <2>4, <2>8, <2>9, <2>10 DEF Continues
<1>4. NotAhead' /\ DownEmpty'
  BY FeedAssumption DEF Inductive, TypeOK, NotAhead, DownEmpty, Forward, vars, daemon, session, bridge, window, Disconnected, KeptFeed
<1>5. QED BY <1>1, <1>2, <1>3, <1>4 DEF Inductive

(* What a page of the table puts on the wire. *)
LEMMA PageFrames == ASSUME TypeOK PROVE [i \in 1 .. PageEnd - sent |-> Event(sent + i)] \in Seq(Frames)
<1>1. /\ sent \in Nat /\ PageEnd \in sent .. committed /\ committed \in 0 .. MaxSeq /\ PageEnd - sent \in Nat
  BY PageEndTyped, FeedAssumption DEF TypeOK
<1>2. \A i \in 1 .. PageEnd - sent : sent + i \in 1 .. MaxSeq
  BY <1>1, FeedAssumption
<1>3. \A i \in 1 .. PageEnd - sent : Event(sent + i) \in Frames
  BY <1>2, FramesTyped
<1>4. QED BY <1>1, <1>3

LEMMA PageSent ==
    ASSUME Inductive, ReadPage
    PROVE  /\ DOMAIN wire \subseteq DOMAIN wire' /\ DOMAIN wire' \subseteq Nat
           /\ \A i \in DOMAIN wire : wire'[i] = wire[i]
           /\ \A i \in 1 .. PageEnd - sent : /\ Len(wire) + i \in DOMAIN wire'
                                             /\ wire'[Len(wire) + i] = Event(sent + i)
           /\ \A i \in DOMAIN wire' :
                 \/ i \in DOMAIN wire
                 \/ /\ i \notin DOMAIN wire /\ i > Len(wire) /\ i - Len(wire) \in 1 .. PageEnd - sent
                    /\ wire'[i] = Event(sent + (i - Len(wire)))
                 \/ wire'[i] = Lagged
           /\ \A i \in DOMAIN wire' : (i \in DOMAIN wire /\ wire'[i] = wire[i])
                 \/ wire'[i] = Lagged \/ \E e \in sent + 1 .. PageEnd : wire'[i] = Event(e)
<1> DEFINE count == PageEnd - sent  page == [i \in 1 .. count |-> Event(sent + i)]
           with == wire \o page
<1>1. count \in Nat /\ sent \in Nat /\ PageEnd \in Nat
  BY PageEndTyped, FeedAssumption DEF Inductive, TypeOK
<1>2. page \in Seq(Frames) /\ Len(page) = count /\ \A i \in 1 .. count : page[i] = Event(sent + i)
  BY <1>1, PageFrames DEF Inductive
<1>3. wire \in Seq(Frames) /\ DOMAIN wire = 1 .. Len(wire) /\ Len(wire) \in Nat
  BY DEF Inductive, TypeOK, Frames
<1>4. wire' = with \/ wire' = with \o <<Lagged>>
  BY DEF ReadPage
<1> HIDE DEF count, page
<1>5. /\ with \in Seq(Frames) /\ DOMAIN with = 1 .. Len(wire) + count /\ Len(with) = Len(wire) + count
      /\ \A i \in 1 .. Len(wire) : with[i] = wire[i]
      /\ \A i \in 1 .. count : with[Len(wire) + i] = Event(sent + i)
  <2>1. /\ wire \o page \in Seq(Frames) /\ DOMAIN (wire \o page) = 1 .. Len(wire) + Len(page)
        /\ \A i \in 1 .. Len(wire) : (wire \o page)[i] = wire[i]
        /\ \A i \in 1 .. Len(page) : (wire \o page)[Len(wire) + i] = page[i]
    <3>1. wire \in Seq(Frames) /\ page \in Seq(Frames)
      BY <1>2, <1>3
    <3>2. QED BY ONLY <3>1, Joined
  <2>2. Len(wire \o page) = Len(wire) + Len(page)
    BY <1>2, <1>3
  <2>3. QED BY <1>2, <2>1, <2>2
<1> HIDE DEF with
<1>6. <<Lagged>> \in Seq(Frames) /\ Len(<<Lagged>>) = 1 /\ <<Lagged>>[1] = Lagged
  BY FramesTyped
<1>7. /\ DOMAIN (with \o <<Lagged>>) = 1 .. Len(with) + 1
      /\ \A i \in 1 .. Len(with) : (with \o <<Lagged>>)[i] = with[i]
      /\ (with \o <<Lagged>>)[Len(with) + 1] = Lagged
  BY <1>5, <1>6
<1>8. /\ DOMAIN with \subseteq DOMAIN wire' /\ DOMAIN wire' \subseteq 1 .. Len(wire) + count + 1
      /\ \A i \in DOMAIN with : wire'[i] = with[i]
      /\ \A i \in DOMAIN wire' : i \in DOMAIN with \/ wire'[i] = Lagged
  BY <1>1, <1>3, <1>4, <1>5, <1>7
<1>9. \A i \in DOMAIN with : i \in 1 .. Len(wire) \/ (i > Len(wire) /\ i - Len(wire) \in 1 .. count)
  BY <1>1, <1>3, <1>5
<1>10. \A i \in 1 .. count : sent + i \in sent + 1 .. PageEnd /\ Len(wire) + i \in DOMAIN with
  BY <1>1, <1>3, <1>5 DEF count
<1>11. \A i \in DOMAIN wire' :
          \/ i \in DOMAIN wire
          \/ /\ i \notin DOMAIN wire /\ i > Len(wire) /\ i - Len(wire) \in 1 .. count
             /\ wire'[i] = Event(sent + (i - Len(wire)))
          \/ wire'[i] = Lagged
  <2> SUFFICES ASSUME NEW i \in DOMAIN with, i \notin 1 .. Len(wire)
               PROVE  /\ i > Len(wire) /\ i - Len(wire) \in 1 .. count
                      /\ with[i] = Event(sent + (i - Len(wire)))
    BY <1>3, <1>8
  <2>1. i > Len(wire) /\ i - Len(wire) \in 1 .. count /\ i = Len(wire) + (i - Len(wire))
    BY <1>3, <1>5, <1>9
  <2>2. QED BY <2>1, <1>5
<1>12. \A i \in DOMAIN wire' : (i \in DOMAIN wire /\ wire'[i] = wire[i])
          \/ wire'[i] = Lagged \/ \E e \in sent + 1 .. PageEnd : wire'[i] = Event(e)
  <2>1. \A i \in 1 .. count : \E e \in sent + 1 .. PageEnd : Event(sent + i) = Event(e)
    BY <1>10
  <2>2. \A i \in DOMAIN wire : wire'[i] = wire[i]
    BY <1>1, <1>3, <1>5, <1>8
  <2>3. QED BY <2>1, <2>2, <1>11
<1>13. /\ DOMAIN wire \subseteq DOMAIN wire' /\ DOMAIN wire' \subseteq Nat
       /\ \A i \in DOMAIN wire : wire'[i] = wire[i]
  BY <1>1, <1>3, <1>5, <1>8
<1>14. \A i \in 1 .. count : /\ Len(wire) + i \in DOMAIN wire'
                             /\ wire'[Len(wire) + i] = Event(sent + i)
  BY <1>5, <1>8, <1>10
<1>15. QED BY <1>11, <1>12, <1>13, <1>14 DEF count

LEMMA KeptReadPage == ASSUME Inductive, ReadPage PROVE Inductive'
<1>1. TypeOK'
  <2> DEFINE count == PageEnd - sent  page == [i \in 1 .. count |-> Event(sent + i)]
  <2>1. /\ sent \in Nat /\ PageEnd \in sent .. committed /\ count \in Nat /\ committed \in 0 .. MaxSeq
        /\ replayed + count \in Nat
    BY PageEndTyped, FeedAssumption DEF Inductive, TypeOK
  <2>2. page \in Seq(Frames)
    BY PageFrames DEF Inductive
  <2>3. <<Lagged>> \in Seq(Frames) /\ wire \in Seq(Frames)
    BY FramesTyped DEF Inductive, TypeOK, Frames
  <2>4. wire \o page \in Seq(Frames) /\ (wire \o page) \o <<Lagged>> \in Seq(Frames)
    <3> HIDE DEF page
    <3>1. QED BY <2>2, <2>3
  <2>5. wire' \in Seq(Frames) /\ sent' \in 0 .. committed /\ replayed' \in Nat /\ phase' \in Phases
    <3>1. /\ wire' = wire \o page \/ wire' = wire \o page \o <<Lagged>>
          /\ sent' = PageEnd /\ replayed' = replayed + count /\ phase' \in {"cut", "replay", "replayed"}
      BY DEF ReadPage
    <3> HIDE DEF page, count
    <3>2. wire' \in Seq(Frames)
      BY <2>4, <3>1
    <3>3. QED BY <2>1, <3>1, <3>2 DEF Phases
  <2>6. QED BY <2>5, FeedAssumption DEF Inductive, TypeOK, ReadPage, vars, daemon, session, bridge, window, Phases, Frames
<1>2. FramesKnown'
  <2>1. \A i \in DOMAIN wire' : (i \in DOMAIN wire /\ wire'[i] = wire[i])
                                 \/ wire'[i] = Lagged \/ \E e \in sent + 1 .. PageEnd : wire'[i] = Event(e)
    BY PageSent
  <2>2. \A e \in sent + 1 .. PageEnd : e <= committed
    BY PageEndTyped, FeedAssumption DEF Inductive, TypeOK
  <2>3. UNCHANGED <<committed, published, channel, answers>>
    BY DEF ReadPage, daemon, window
  <2>4. \A i \in DOMAIN wire' : Known(wire'[i])
    BY <2>1, <2>2, FrameKinds DEF Inductive, FramesKnown, Known
  <2>5. QED BY <2>3, <2>4 DEF Inductive, FramesKnown, Known
<1>3. Continues'
  <2>1. /\ sent' = PageEnd /\ seen' = seen /\ phase # "down"
        /\ sent \in Int /\ seen \in Int /\ PageEnd \in Int /\ sent <= PageEnd
    BY PageEndTyped, FeedAssumption DEF ReadPage, bridge, Inductive, TypeOK
  <2>2. /\ 0 <= seen /\ seen <= sent
        /\ \A i \in DOMAIN wire : IsEvent(i) => seen < wire[i].seq /\ wire[i].seq <= sent
        /\ \A i, j \in DOMAIN wire : i < j /\ IsEvent(i) /\ IsEvent(j) => wire[i].seq < wire[j].seq
        /\ \A e \in seen + 1 .. sent : \E i \in DOMAIN wire : wire[i] = Event(e)
    BY <2>1 DEF Inductive, Continues
  <2>3. \A i \in DOMAIN wire : IsEvent(i) => wire[i].seq \in Int
    BY EventFrame, FramesHeld DEF IsEvent
  <2>4. /\ DOMAIN wire \subseteq DOMAIN wire' /\ DOMAIN wire' \subseteq Nat
        /\ \A i \in DOMAIN wire : wire'[i] = wire[i] /\ (IsEvent(i)' <=> IsEvent(i))
    BY PageSent DEF IsEvent
  <2>5. \A i \in DOMAIN wire' : IsEvent(i)' =>
            \/ i \in DOMAIN wire
            \/ i \notin DOMAIN wire /\ i > Len(wire) /\ i - Len(wire) \in 1 .. PageEnd - sent
               /\ wire'[i].seq = sent + (i - Len(wire))
    BY PageSent, FrameKinds DEF IsEvent
  <2>6. Len(wire) \in Nat /\ DOMAIN wire = 1 .. Len(wire)
    BY DEF Inductive, TypeOK
  <2>7. \A i \in DOMAIN wire' : IsEvent(i)' => seen' < wire'[i].seq /\ wire'[i].seq <= sent'
    <3> SUFFICES ASSUME NEW i \in DOMAIN wire', IsEvent(i)' PROVE seen < wire'[i].seq /\ wire'[i].seq <= PageEnd
      BY <2>1
    <3>1. CASE i \in DOMAIN wire
      BY <3>1, <2>1, <2>2, <2>3, <2>4
    <3>2. CASE i \notin DOMAIN wire
      BY <3>2, <2>1, <2>2, <2>5, <2>6
    <3>3. QED BY <3>1, <3>2
  <2>8. \A i, j \in DOMAIN wire' : i < j /\ IsEvent(i)' /\ IsEvent(j)' => wire'[i].seq < wire'[j].seq
    <3> SUFFICES ASSUME NEW i \in DOMAIN wire', NEW j \in DOMAIN wire', i < j, IsEvent(i)', IsEvent(j)'
                 PROVE  wire'[i].seq < wire'[j].seq
      OBVIOUS
    <3>1. CASE j \in DOMAIN wire
      <4>1. i \in DOMAIN wire
        <5>1. j <= Len(wire)
          BY <3>1, <2>6
        <5>2. i \in DOMAIN wire \/ i > Len(wire)
          BY <2>5
        <5>3. i \in Nat /\ j \in Nat
          BY <2>4
        <5>4. QED BY <5>1, <5>2, <5>3, <2>6
      <4>2. QED BY <3>1, <4>1, <2>2, <2>4
    <3>2. CASE j \notin DOMAIN wire /\ i \in DOMAIN wire
      <4>1. wire'[i] = wire[i] /\ wire[i].seq <= sent /\ wire[i].seq \in Int
        BY <3>2, <2>2, <2>3, <2>4
      <4>2. QED BY <3>2, <4>1, <2>1, <2>5, <2>6
    <3>3. CASE j \notin DOMAIN wire /\ i \notin DOMAIN wire
      BY <3>3, <2>1, <2>4, <2>5, <2>6
    <3>4. QED BY <3>1, <3>2, <3>3
  <2>9. \A e \in seen' + 1 .. sent' : \E i \in DOMAIN wire' : wire'[i] = Event(e)
    <3> SUFFICES ASSUME NEW e \in seen + 1 .. PageEnd PROVE \E i \in DOMAIN wire' : wire'[i] = Event(e)
      BY <2>1
    <3>1. CASE e <= sent
      BY <3>1, <2>1, <2>2, <2>4
    <3>2. CASE e > sent
      <4>1. e - sent \in 1 .. PageEnd - sent /\ e = sent + (e - sent)
        BY <3>2, <2>1
      <4>2. Len(wire) + (e - sent) \in DOMAIN wire' /\ wire'[Len(wire) + (e - sent)] = Event(sent + (e - sent))
        BY <4>1, PageSent
      <4>3. QED BY <4>1, <4>2
    <3>3. QED BY <3>1, <3>2, <2>1
  <2>10. QED BY <2>1, <2>2, <2>7, <2>8, <2>9 DEF Continues
<1>4. NotAhead' /\ DownEmpty'
  <2>1. /\ phase' \in {"cut", "replay", "replayed"} /\ feed' = feed
        /\ phase' = "replayed" => PageEnd - sent # Page /\ sent' = PageEnd
    BY DEF ReadPage
  <2>2. feed <= committed /\ (PageEnd - sent # Page => PageEnd = committed)
    BY PageEndTyped, FeedAssumption DEF Inductive, TypeOK
  <2>3. QED BY <2>1, <2>2 DEF NotAhead, DownEmpty
<1>5. QED BY <1>1, <1>2, <1>3, <1>4 DEF Inductive

-----------------------------------------------------------------------------
LEMMA InductiveStep == Inductive /\ [Next]_vars => Inductive'
<1> SUFFICES ASSUME Inductive, [Next]_vars PROVE Inductive'
  OBVIOUS
<1>1. CASE Next
  BY <1>1, KeptCommit, KeptPublish, KeptApply, KeptSubscribe, KeptReadPage, KeptReadFails, KeptGoLive,
     KeptReceiveFeed, KeptFallBehind, KeptAnswerLoad, KeptConnect, KeptSendLoad, KeptForward,
     KeptReceiveAnswer, KeptReceiveLagged, KeptTakeEvent, KeptResync, KeptTakeAnswer, KeptBreak,
     KeptRestartDaemon DEF Next, Deliver
<1>2. CASE UNCHANGED vars
  BY <1>2 DEF vars, daemon, session, bridge, window, Inductive, TypeOK, FramesKnown, Known,
              Continues, IsEvent, NotAhead, DownEmpty
<1>3. QED BY <1>1, <1>2

(* The invariant: what a connection's wire holds continues what the bridge *)
(* forwarded, and the live feed starts within it.                          *)
THEOREM FeedInvariant == Spec => []Inductive
<1>1. QED BY InductiveInit, InductiveStep, PTL DEF Spec

(* Every variable keeps its type; nothing shown or answered is ahead of    *)
(* what the daemon has.                                                    *)
THEOREM TypeInvariant == Spec => []TypeOK
<1>1. Inductive => TypeOK
  BY DEF Inductive
<1>2. QED BY <1>1, FeedInvariant, PTL

NextOnly ==
    /\ \A e \in 1 .. MaxSeq : channel' = Append(channel, Event(e)) => e = seen + 1
    /\ seen # -1 => seen' \in {-1, seen, seen + 1}

(* A step that adds to the window's channel, and one that does not.        *)
LEMMA ForwardNext == ASSUME Inductive, Forward PROVE NextOnly
<1>1. /\ channel \in Seq(Notices) /\ channel' = Append(channel, Event(seen + 1))
      /\ seen \in Nat /\ seen' = Max({seen, seen + 1})
  BY NextEvent, FrameKinds DEF Forward, Inductive, TypeOK
<1>2. seen' = seen + 1
  BY <1>1, MaxOfTwo
<1>3. \A e : Append(channel, Event(seen + 1)) = Append(channel, Event(e)) => e = seen + 1
  <2> SUFFICES ASSUME NEW e, Append(channel, Event(seen + 1)) = Append(channel, Event(e)) PROVE e = seen + 1
    OBVIOUS
  <2>1. Event(seen + 1) = Event(e)
    BY <1>1
  <2>2. QED BY <2>1, FrameKinds
<1>4. QED BY <1>1, <1>2, <1>3 DEF NextOnly

LEMMA NoticeNext ==
    ASSUME Inductive, NEW f \in {Lagged, Connected}, channel' = Append(channel, f),
           seen # -1 => seen' \in {-1, seen}
    PROVE  NextOnly
<1>1. channel \in Seq(Notices)
  BY DEF Inductive, TypeOK
<1>2. \A e : f # Event(e)
  BY FrameKinds
<1>3. \A e : Append(channel, f) # Append(channel, Event(e))
  BY <1>1, <1>2
<1>4. QED BY <1>3 DEF NextOnly

LEMMA NothingNext ==
    ASSUME Inductive, channel' = channel \/ (channel # <<>> /\ channel' = Tail(channel)), seen' = seen
    PROVE  NextOnly
<1>1. channel \in Seq(Notices)
  BY DEF Inductive, TypeOK
<1>2. \A e : Len(Append(channel, Event(e))) = Len(channel) + 1
  BY <1>1
<1>3. Len(channel) \in Nat /\ Len(channel') <= Len(channel)
  BY <1>1
<1>4. \A e : channel' # Append(channel, Event(e))
  BY <1>2, <1>3
<1>5. QED BY <1>4 DEF NextOnly

LEMMA StepNext == Inductive /\ [Next]_vars => NextOnly
<1> SUFFICES ASSUME Inductive, [Next]_vars PROVE NextOnly
  OBVIOUS
<1>1. CASE Forward
  BY <1>1, ForwardNext
<1>2. CASE Connect
  <2>1. channel' = Append(channel, Connected) /\ (seen # -1 => seen' = seen)
    BY <1>2 DEF Connect, Cursor
  <2>2. QED BY <2>1, NoticeNext
<1>3. CASE ReceiveLagged
  <2>1. channel' = Append(channel, Lagged) /\ seen' = -1
    BY <1>3 DEF ReceiveLagged
  <2>2. QED BY <2>1, NoticeNext
<1>4. CASE TakeEvent \/ Resync
  <2>1. channel # <<>> /\ channel' = Tail(channel) /\ seen' = seen
    BY <1>4 DEF TakeEvent, Resync, bridge
  <2>2. QED BY <2>1, NothingNext
<1>5. CASE \/ Commit \/ Publish \/ \E e \in 1 .. MaxSeq : Apply(e)
  BY <1>5, NothingNext DEF Commit, Publish, Apply, bridge, window
<1>6. CASE Subscribe \/ ReadPage \/ ReadFails \/ GoLive \/ ReceiveFeed \/ FallBehind \/ AnswerLoad
  BY <1>6, NothingNext DEF Subscribe, ReadPage, ReadFails, GoLive, ReceiveFeed, FallBehind, AnswerLoad, bridge, window
<1>7. CASE SendLoad \/ ReceiveAnswer \/ \E i \in DOMAIN answers : TakeAnswer(i)
  BY <1>7, NothingNext DEF SendLoad, ReceiveAnswer, TakeAnswer, bridge, window
<1>8. CASE Break \/ RestartDaemon \/ UNCHANGED vars
  BY <1>8, NothingNext DEF Break, RestartDaemon, vars, bridge, window
<1>9. QED BY <1>1, <1>2, <1>3, <1>4, <1>5, <1>6, <1>7, <1>8 DEF Next, Deliver

(* The bridge forwards each event after the one before it, whatever the    *)
(* sizes of buffer, pages and replays, and however often a connection      *)
(* breaks or the daemon restarts.                                          *)
THEOREM NoGapForwarded == Spec => NoGap
<1>1. Inductive /\ [Next]_vars => [NextOnly]_vars
  BY StepNext
<1>2. [][NextOnly]_vars => NoGap
  BY PTL DEF NoGap, NextOnly
<1>3. QED BY <1>1, <1>2, FeedInvariant, PTL DEF Spec
=============================================================================

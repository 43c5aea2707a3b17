---------------------- MODULE CatalogProjectionProofs ----------------------
(***************************************************************************)
(* For any number of conversations, projects, writers and values: the view *)
(* ends up as a restart would load it, and what is deleted stays deleted.  *)
(***************************************************************************)
EXTENDS CatalogProjection, TLAPS

LEMMA EventFacts ==
    ASSUME NEW event \in Event
    PROVE  /\ event.kind \in {"created", "deleted", "set"}
           /\ event.kind = "set" => event.field \in Fields /\ event.value \in Values
BY DEF Event

LEMMA NoEntryType == NoEntry \in Entry
BY CatalogAssumption DEF NoEntry, Entry

(* What one event does to the entry it is about. *)
LEMMA AppliedFacts ==
    ASSUME NEW entry \in Entry, NEW event \in Event, NEW seq \in Nat
    PROVE  LET new == Applied(entry, event, seq) IN
           /\ new \in Entry
           /\ event.kind = "created" => new = [entry EXCEPT !.status = "live"]
           /\ event.kind = "deleted" => new.status = "gone"
           /\ event.kind = "set" => new.status = entry.status
           /\ event.kind = "set" /\ entry.status # "live" => new = entry
           /\ event.kind = "set" /\ entry.status = "live" =>
                  \A f \in Guarded :
                      IF event.field = f /\ entry.seqs[f] <= seq
                        THEN new.fields[f] = event.value /\ new.seqs[f] = seq
                        ELSE new.fields[f] = entry.fields[f] /\ new.seqs[f] = entry.seqs[f]
<1> DEFINE new == Applied(entry, event, seq)
<1>1. CASE event.kind = "created"
  BY <1>1 DEF Applied, Entry
<1>2. CASE event.kind = "deleted"
  BY <1>2 DEF Applied, Entry
<1>3. CASE event.kind = "set"
  <2>1. event.field \in Fields /\ event.value \in Values
    BY <1>3, EventFacts
  <2>2. CASE entry.status # "live"
    BY <1>3, <2>2 DEF Applied, Entry
  <2>3. CASE entry.status = "live"
    <3>1. new = SetField(entry, event.field, event.value, seq)
      BY <1>3, <2>3 DEF Applied
    <3>2. new \in Entry /\ new.status = entry.status
      <4>1. /\ [entry.fields EXCEPT ![event.field] = event.value] \in [Fields -> Values]
            /\ [entry.seqs EXCEPT ![event.field] = seq] \in [Guarded -> Nat]
        BY <2>1 DEF Entry
      <4> QED
        BY <2>1, <3>1, <4>1 DEF SetField, Entry
    <3>3. ASSUME NEW f \in Guarded
          PROVE  IF event.field = f /\ entry.seqs[f] <= seq
                   THEN new.fields[f] = event.value /\ new.seqs[f] = seq
                   ELSE new.fields[f] = entry.fields[f] /\ new.seqs[f] = entry.seqs[f]
      BY <2>1, <3>1 DEF SetField, Latest, Entry, Fields
    <3> QED
      BY <1>3, <2>3, <3>2, <3>3
  <2> QED
    BY <2>2, <2>3
<1> QED
  BY <1>1, <1>2, <1>3, EventFacts

LEMMA ApplyAllFacts ==
    ASSUME NEW view \in [Entities -> Entry], NEW events, NEW seq \in Nat,
           \A e \in DOMAIN events : events[e] \in Event
    PROVE  /\ ApplyAll(view, events, seq) \in [Entities -> Entry]
           /\ \A e \in Entities :
                  ApplyAll(view, events, seq)[e] =
                      IF e \in DOMAIN events THEN Applied(view[e], events[e], seq) ELSE view[e]
BY AppliedFacts DEF ApplyAll

(* Every command records events about entries it may change. *)
LEMMA CommandRecords ==
    ASSUME TypeOK, NEW w \in Writers, Command(w)
    PROVE  \E events :
               /\ Record(w, events)
               /\ DOMAIN events \subseteq Entities
               /\ \A e \in DOMAIN events :
                      /\ events[e] \in Event
                      /\ events[e].kind = "created" => Fresh(e)
                      /\ events[e].kind # "created" => Exists(e)
<1> DEFINE Fits(events) == /\ Record(w, events)
                           /\ DOMAIN events \subseteq Entities
                           /\ \A e \in DOMAIN events :
                                  /\ events[e] \in Event
                                  /\ events[e].kind = "created" => Fresh(e)
                                  /\ events[e].kind # "created" => Exists(e)
<1> SUFFICES \E events : Fits(events)
  OBVIOUS
<1>1. ASSUME NEW c \in Conversations, CreateConversation(w, c)
      PROVE  \E events : Fits(events)
  <2>1. CASE Record(w, Only(c, [kind |-> "created"]))
    <3>1. Fits(Only(c, [kind |-> "created"]))
      BY <1>1, <2>1 DEF CreateConversation, Only, Event, Entities
    <3> QED
      BY <3>1
  <2>2. ASSUME NEW p \in Projects, NEW v \in Values, Exists(p),
               Record(w, Remembering(c, [kind |-> "created"], p, v))
        PROVE  \E events : Fits(events)
    <3>1. c # p /\ c \in Entities /\ p \in Entities
      BY CatalogAssumption DEF Entities
    <3>2. Fits(Remembering(c, [kind |-> "created"], p, v))
      BY <1>1, <2>2, <3>1 DEF CreateConversation, Remembering, Set, Event, Fields, Guarded
    <3> QED
      BY <3>2
  <2> QED
    BY <1>1, <2>1, <2>2 DEF CreateConversation
<1>2. ASSUME NEW c \in Conversations, NEW v \in Values, SetSetup(w, c, v)
      PROVE  \E events : Fits(events)
  <2>1. CASE Record(w, Only(c, Set("setup", v)))
    <3>1. Fits(Only(c, Set("setup", v)))
      BY <1>2, <2>1 DEF SetSetup, Only, Set, Event, Entities, Fields, Guarded
    <3> QED
      BY <3>1
  <2>2. ASSUME NEW p \in Projects, NEW u \in Values, Exists(p),
               Record(w, Remembering(c, Set("setup", v), p, u))
        PROVE  \E events : Fits(events)
    <3>1. c # p /\ c \in Entities /\ p \in Entities
      BY CatalogAssumption DEF Entities
    <3>2. Fits(Remembering(c, Set("setup", v), p, u))
      BY <1>2, <2>2, <3>1 DEF SetSetup, Remembering, Set, Event, Fields, Guarded
    <3> QED
      BY <3>2
  <2> QED
    BY <1>2, <2>1, <2>2 DEF SetSetup
<1>3. ASSUME NEW e \in Entities, NEW f \in Fields, NEW v \in Values,
             Exists(e), Record(w, Only(e, Set(f, v)))
      PROVE  \E events : Fits(events)
  <2>1. Fits(Only(e, Set(f, v)))
    BY <1>3 DEF Only, Set, Event
  <2> QED
    BY <2>1
<1>4. ASSUME NEW e \in Entities, Exists(e), Record(w, Only(e, [kind |-> "deleted"]))
      PROVE  \E events : Fits(events)
  <2>1. Fits(Only(e, [kind |-> "deleted"]))
    BY <1>4 DEF Only, Event
  <2> QED
    BY <2>1
<1>5. ASSUME NEW p \in Projects, CreateProject(w, p)
      PROVE  \E events : Fits(events)
  <2>1. Fits(Only(p, [kind |-> "created"]))
    BY <1>5 DEF CreateProject, Only, Event, Entities
  <2> QED
    BY <2>1
<1>6. Conversations \subseteq Entities /\ Projects \subseteq Entities
  BY DEF Entities
<1>7. {"title", "pinned", "setup", "lifecycle", "project", "fallback", "quota_wait"} \subseteq Fields
  BY DEF Fields, Guarded, Unguarded
<1> HIDE DEF Fits
<1>8. ASSUME NEW c \in Conversations, NEW v \in Values,
             \/ RenameConversation(w, c, v) \/ SetPinned(w, c, v) \/ SetLifecycle(w, c, v)
             \/ SetFallback(w, c, v) \/ SetConversationWait(w, c, v)
      PROVE  \E events : Fits(events)
  BY <1>3, <1>6, <1>7, <1>8
  DEF RenameConversation, SetPinned, SetLifecycle, SetFallback, SetConversationWait
<1>9. ASSUME NEW c \in Conversations, ForgetConversation(w, c)
      PROVE  \E events : Fits(events)
  BY <1>4, <1>6, <1>9 DEF ForgetConversation
<1>10. ASSUME NEW p \in Projects, ForgetProject(w, p)
       PROVE  \E events : Fits(events)
  BY <1>4, <1>6, <1>10 DEF ForgetProject
<1>11. ASSUME NEW p \in Projects, NEW v \in Values, UpdateProject(w, p, v)
       PROVE  \E events : Fits(events)
  BY <1>3, <1>6, <1>7, <1>11 DEF UpdateProject
<1> QED
  BY <1>1, <1>2, <1>5, <1>8, <1>9, <1>10, <1>11 DEF Command

-----------------------------------------------------------------------------
(* Types. *)

LEMMA TypeInit == Init => TypeOK
BY NoEntryType DEF Init, TypeOK, NoBatch

LEMMA TypeNext ==
    ASSUME TypeOK, [Next]_vars
    PROVE  TypeOK'
<1>1. ASSUME NEW w \in Writers, Command(w) PROVE TypeOK'
  <2>1. PICK events : /\ Record(w, events)
                      /\ DOMAIN events \subseteq Entities
                      /\ \A e \in DOMAIN events : events[e] \in Event
    BY <1>1, CommandRecords
  <2> QED
    BY <2>1 DEF Record, TypeOK
<1>2. ASSUME NEW w \in Writers, Commit(w) PROVE TypeOK'
  <2>1. saved' \in [Entities -> Entry]
    BY <1>2, ApplyAllFacts DEF Commit, TypeOK
  <2> QED
    BY <1>2, <2>1 DEF Commit, TypeOK
<1>3. ASSUME NEW w \in Writers, AppendFails(w) PROVE TypeOK'
  BY <1>3 DEF AppendFails, Return, NoBatch, TypeOK
<1>4. ASSUME NEW w \in Writers, Apply(w) PROVE TypeOK'
  <2>1. live' \in [Entities -> Entry]
    BY <1>4, ApplyAllFacts DEF Apply, TypeOK
  <2> QED
    BY <1>4, <2>1 DEF Apply, Return, NoBatch, TypeOK
<1>5. CASE Restart
  BY <1>5 DEF Restart, NoBatch, TypeOK
<1>6. CASE UNCHANGED vars
  BY <1>6 DEF vars, TypeOK
<1> QED
  BY <1>1, <1>2, <1>3, <1>4, <1>5, <1>6 DEF Next

(* Every variable of the catalog keeps its type. *)
THEOREM TypeInvariant == Spec => []TypeOK
BY TypeInit, TypeNext, PTL DEF Spec

-----------------------------------------------------------------------------
(* The inductive invariant. *)

LEMMA InductiveInit == Init => Inductive
BY DEF Init, Inductive, CreationsAlone, StatusPending, SeqsIssued, ValuesPending,
       Carries, Creates, NoEntry, PendingSet, Pending

LEMMA NoEntryFacts ==
    /\ NoEntry.status = "none"
    /\ \A f \in Guarded : NoEntry.seqs[f] = 0 /\ NoEntry.fields[f] = Initial
    /\ LET new == [NoEntry EXCEPT !.status = "live"] IN
       /\ new.status = "live" /\ new.fields = NoEntry.fields /\ new.seqs = NoEntry.seqs
BY DEF NoEntry, Fields

LEMMA InductiveCommand ==
    ASSUME TypeOK, Inductive, NEW w \in Writers, Command(w)
    PROVE  Inductive'
<1>1. PICK events : /\ Record(w, events)
                    /\ DOMAIN events \subseteq Entities
                    /\ \A e \in DOMAIN events :
                           /\ events[e] \in Event
                           /\ events[e].kind = "created" => Fresh(e)
                           /\ events[e].kind # "created" => Exists(e)
  BY CommandRecords
<1>2. /\ pc' = [pc EXCEPT ![w] = "appending"] /\ pc[w] = "idle"
      /\ batch' = [batch EXCEPT ![w] = events]
      /\ UNCHANGED <<live, saved, lastSeq, at>>
  BY <1>1 DEF Record
<1>3. /\ pc'[w] = "appending" /\ batch'[w] = events
      /\ \A v \in Writers \ {w} : pc'[v] = pc[v] /\ batch'[v] = batch[v]
      /\ at' = at
  BY <1>2 DEF TypeOK
<1>4. \A v \in Writers, e \in Entities :
         /\ Pending(v, e)' <=> Pending(v, e)
         /\ Pending(v, e) => v # w /\ batch'[v] = batch[v]
  BY <1>2, <1>3 DEF Pending
<1>5. CreationsAlone'
  <2> SUFFICES ASSUME NEW v \in Writers, NEW e \in Entities
               PROVE  /\ Creates(v, e)' =>
                             /\ live[e] = NoEntry
                             /\ \A u \in Writers : Carries(u, e)' => u = v
                             /\ pc'[v] = "appending" => saved[e] = NoEntry
                             /\ pc'[v] = "appended" => saved[e] = [NoEntry EXCEPT !.status = "live"]
                      /\ Carries(v, e)' /\ ~Creates(v, e)' => live[e].status # "none"
    BY <1>2 DEF CreationsAlone
  <2>1. CASE v = w
    BY <1>1, <1>2, <1>3, <2>1 DEF Inductive, StatusPending, Creates, Carries, Fresh, Exists
  <2>2. CASE v # w /\ ~Carries(w, e)'
    BY <1>2, <1>3, <2>2 DEF Inductive, CreationsAlone, Creates, Carries
  <2>3. CASE v # w /\ Carries(w, e)'
    <3>1. ~Creates(v, e)
      BY <1>1, <1>2, <1>3, <2>3, NoEntryFacts
      DEF Inductive, CreationsAlone, Creates, Carries, Fresh, Exists
    <3> QED
      BY <1>2, <1>3, <2>3, <3>1 DEF Inductive, CreationsAlone, Creates, Carries
  <2> QED
    BY <2>1, <2>2, <2>3
<1>6. StatusPending'
  BY <1>2, <1>3, <1>4 DEF Inductive, StatusPending, Pending, Creates, Carries
<1>7. SeqsIssued'
  BY <1>2 DEF Inductive, SeqsIssued
<1>8. ValuesPending'
  BY <1>2, <1>4 DEF Inductive, ValuesPending, Brings, PendingSet
<1> QED
  BY <1>5, <1>6, <1>7, <1>8 DEF Inductive

LEMMA InductiveAppendFails ==
    ASSUME TypeOK, Inductive, NEW w \in Writers, AppendFails(w)
    PROVE  Inductive'
<1>1. /\ pc'[w] = "idle" /\ pc[w] = "appending" /\ DOMAIN batch'[w] = {}
      /\ at' = [at EXCEPT ![w] = 0]
      /\ UNCHANGED <<live, saved, lastSeq>>
      /\ \A v \in Writers \ {w} : pc'[v] = pc[v] /\ batch'[v] = batch[v] /\ at'[v] = at[v]
  BY DEF AppendFails, Return, NoBatch, TypeOK
<1>2. \A v \in Writers, e \in Entities :
         /\ Carries(v, e)' <=> Carries(v, e) /\ v # w
         /\ Pending(v, e)' <=> Pending(v, e)
         /\ Pending(v, e) => v # w
  BY <1>1 DEF Carries, Pending
<1>3. CreationsAlone'
  BY <1>1, <1>2 DEF Inductive, CreationsAlone, Creates
<1>4. StatusPending'
  BY <1>1, <1>2 DEF Inductive, StatusPending, Creates
<1>5. SeqsIssued'
  BY <1>1 DEF Inductive, SeqsIssued, TypeOK
<1>6. ValuesPending'
  BY <1>1, <1>2 DEF Inductive, ValuesPending, Brings, PendingSet
<1> QED
  BY <1>3, <1>4, <1>5, <1>6 DEF Inductive

LEMMA InductiveRestart ==
    ASSUME TypeOK, Inductive, Restart
    PROVE  Inductive'
<1>1. live' = saved /\ saved' = saved /\ lastSeq' = lastSeq
  BY DEF Restart
<1>2. \A w \in Writers : pc'[w] = "idle" /\ at'[w] = 0
  BY DEF Restart
<1>3. \A w \in Writers, e \in Entities : ~Carries(w, e)' /\ ~Pending(w, e)'
  BY <1>2 DEF Carries, Pending
<1>4. CreationsAlone'
  BY <1>3 DEF CreationsAlone, Creates
<1>5. StatusPending'
  BY <1>1, <1>3 DEF Inductive, StatusPending
<1>6. SeqsIssued'
  BY <1>1, <1>2 DEF Inductive, SeqsIssued, TypeOK
<1>7. ValuesPending'
  <2>1. \A e \in Entities, f \in Guarded : live'[e].seqs[f] <= saved'[e].seqs[f]
    BY <1>1 DEF TypeOK, Entry
  <2> QED
    BY <1>1, <1>3, <2>1 DEF ValuesPending, PendingSet
<1> QED
  BY <1>4, <1>5, <1>6, <1>7 DEF Inductive

LEMMA InductiveCommit ==
    ASSUME TypeOK, Inductive, NEW w \in Writers, Commit(w)
    PROVE  Inductive'
<1> DEFINE n == lastSeq + 1
           Mine(e) == e \in DOMAIN batch[w]
<1>1. /\ pc[w] = "appending" /\ pc'[w] = "appended" /\ at'[w] = n
      /\ lastSeq' = n /\ n \in Nat
      /\ \A v \in Writers \ {w} : pc'[v] = pc[v] /\ at'[v] = at[v]
      /\ live' = live /\ batch' = batch
  BY DEF Commit, TypeOK
<1>2. \A e \in Entities :
         saved'[e] = IF Mine(e) THEN Applied(saved[e], batch[w][e], n) ELSE saved[e]
  BY <1>1, ApplyAllFacts DEF Commit, TypeOK
<1>3. \A v \in Writers, e \in Entities :
         /\ Carries(v, e)' <=> Carries(v, e)
         /\ Creates(v, e)' <=> Creates(v, e)
         /\ Pending(v, e)' <=> Pending(v, e) \/ (v = w /\ Mine(e))
         /\ Mine(e) => Carries(w, e)
         /\ Mine(e) => ~Pending(w, e)
  BY <1>1 DEF Carries, Pending, Creates
<1>4. saved \in [Entities -> Entry] /\ live \in [Entities -> Entry]
  BY DEF TypeOK
<1>5. \A e \in Entities : Mine(e) => batch[w][e] \in Event
  BY DEF TypeOK
<1>6. \A e \in Entities : Mine(e) =>
         LET event == batch[w][e] IN
         /\ event.kind \in {"created", "deleted", "set"}
         /\ event.kind = "created" => saved'[e] = [saved[e] EXCEPT !.status = "live"]
         /\ event.kind = "deleted" => saved'[e].status = "gone"
         /\ event.kind = "set" => saved'[e].status = saved[e].status
         /\ event.kind = "set" /\ saved[e].status # "live" => saved'[e] = saved[e]
         /\ event.kind = "set" /\ saved[e].status = "live" =>
                \A f \in Guarded :
                    IF event.field = f /\ saved[e].seqs[f] <= n
                      THEN saved'[e].fields[f] = event.value /\ saved'[e].seqs[f] = n
                      ELSE saved'[e].fields[f] = saved[e].fields[f] /\ saved'[e].seqs[f] = saved[e].seqs[f]
  <2> TAKE e \in Entities
  <2> HAVE Mine(e)
  <2>1. saved[e] \in Entry /\ batch[w][e] \in Event /\ n \in Nat
    BY <1>1, <1>4, <1>5
  <2>2. saved'[e] = Applied(saved[e], batch[w][e], n)
    BY <1>2
  <2> HIDE DEF n, Mine
  <2> QED
    BY <2>1, <2>2, AppliedFacts, EventFacts
<1> HIDE DEF n, Mine
<1>7. \A e \in Entities : saved[e].status \in {"none", "live", "gone"} /\ live[e].status \in {"none", "live", "gone"}
  BY <1>4 DEF Entry
<1>8. CreationsAlone'
  <2> SUFFICES ASSUME NEW v \in Writers, NEW e \in Entities
               PROVE  /\ Creates(v, e) =>
                             /\ live[e] = NoEntry
                             /\ \A u \in Writers : Carries(u, e) => u = v
                             /\ pc'[v] = "appending" => saved'[e] = NoEntry
                             /\ pc'[v] = "appended" => saved'[e] = [NoEntry EXCEPT !.status = "live"]
                      /\ Carries(v, e) /\ ~Creates(v, e) => live[e].status # "none"
    BY <1>1, <1>3 DEF CreationsAlone
  <2>1. CASE v = w /\ Mine(e)
    BY <1>1, <1>3, <1>6, <2>1 DEF Inductive, CreationsAlone, Creates
  <2>2. CASE v # w /\ Mine(e)
    BY <1>1, <1>3, <2>2 DEF Inductive, CreationsAlone, Creates
  <2>3. CASE ~Mine(e)
    <3>1. Carries(v, e) => v # w
      BY <1>1, <2>3 DEF Carries, Mine
    <3> QED
      BY <1>1, <1>2, <1>3, <2>3, <3>1 DEF Inductive, CreationsAlone, Creates
  <2> QED
    BY <2>1, <2>2, <2>3
<1>9. StatusPending'
  <2> SUFFICES ASSUME NEW e \in Entities
               PROVE  /\ saved'[e].status = "none" => saved'[e] = NoEntry
                      /\ live[e].status = "none" =>
                             /\ live[e] = NoEntry
                             /\ saved'[e].status # "none" => \E v \in Writers : Pending(v, e)' /\ Creates(v, e)'
                      /\ live[e].status # "none" => saved'[e].status # "none"
                      /\ live[e].status = "live" /\ saved'[e].status = "gone" =>
                             \E v \in Writers : Pending(v, e)' /\ batch[v][e].kind = "deleted"
                      /\ live[e].status = "gone" => saved'[e].status = "gone"
                      /\ \A v \in Writers : Pending(v, e)' /\ batch[v][e].kind = "deleted" => saved'[e].status = "gone"
    BY <1>1 DEF StatusPending
  <2>1. CASE ~Mine(e)
    BY <1>2, <1>3, <2>1 DEF Inductive, StatusPending
  <2>2. CASE Mine(e) /\ batch[w][e].kind = "created"
    <3>1. Creates(w, e) /\ Pending(w, e)' /\ live[e] = NoEntry
      BY <1>3, <2>2 DEF Inductive, CreationsAlone, Creates
    <3>2. saved'[e].status = "live"
      <4>1. saved[e] \in Entry /\ saved'[e] = [saved[e] EXCEPT !.status = "live"]
        BY <1>4, <1>6, <2>2
      <4> QED
        BY <4>1 DEF Entry
    <3>3. \A v \in Writers : Pending(v, e)' => v = w
      BY <1>3, <3>1 DEF Inductive, CreationsAlone, Pending, Carries
    <3> QED
      BY <1>3, <2>2, <3>1, <3>2, <3>3, NoEntryFacts
  <2>3. CASE Mine(e) /\ batch[w][e].kind = "deleted"
    <3>1. live[e].status # "none" /\ saved'[e].status = "gone" /\ Pending(w, e)'
      BY <1>3, <1>6, <2>3 DEF Inductive, CreationsAlone, Creates
    <3> QED
      BY <2>3, <3>1
  <2>4. CASE Mine(e) /\ batch[w][e].kind = "set"
    <3>1. live[e].status # "none" /\ saved'[e].status = saved[e].status
      BY <1>3, <1>6, <2>4 DEF Inductive, CreationsAlone, Creates
    <3> QED
      BY <1>3, <2>4, <3>1 DEF Inductive, StatusPending
  <2> QED
    BY <1>6, <2>1, <2>2, <2>3, <2>4
<1>10. SeqsIssued'
  <2>1. ASSUME NEW e \in Entities, NEW f \in Guarded PROVE saved'[e].seqs[f] <= n
    <3>1. saved[e].seqs[f] \in Nat /\ saved[e].seqs[f] <= lastSeq /\ lastSeq \in Nat /\ n = lastSeq + 1
      BY <1>4 DEF Inductive, SeqsIssued, TypeOK, Entry, n
    <3>2. CASE ~Mine(e)
      BY <1>2, <3>1, <3>2
    <3>3. CASE Mine(e) /\ batch[w][e].kind = "created"
      <4>1. saved'[e] = [saved[e] EXCEPT !.status = "live"]
        BY <1>6, <3>3
      <4> QED
        BY <1>4, <3>1, <4>1 DEF Entry
    <3>4. CASE Mine(e) /\ batch[w][e].kind = "deleted"
      <4>1. saved'[e] = [saved[e] EXCEPT !.status = "gone"]
        BY <1>2, <3>4 DEF Applied
      <4> QED
        BY <1>4, <3>1, <4>1 DEF Entry
    <3>5. CASE Mine(e) /\ batch[w][e].kind = "set"
      <4>1. CASE saved[e].status # "live"
        <5>1. saved'[e] = saved[e]
          BY <1>6, <3>5, <4>1
        <5> QED
          BY <3>1, <5>1
      <4>2. CASE saved[e].status = "live"
        <5>1. IF batch[w][e].field = f /\ saved[e].seqs[f] <= n
                THEN saved'[e].seqs[f] = n
                ELSE saved'[e].seqs[f] = saved[e].seqs[f]
          BY <1>6, <3>5, <4>2
        <5>2. CASE saved'[e].seqs[f] = n
          BY <1>1, <5>2
        <5>3. CASE saved'[e].seqs[f] = saved[e].seqs[f]
          BY <3>1, <5>3
        <5> QED
          BY <5>1, <5>2, <5>3
      <4> QED
        BY <4>1, <4>2
    <3> QED
      BY <1>6, <3>2, <3>3, <3>4, <3>5
  <2>2. \A v \in Writers : at'[v] <= n
    BY <1>1 DEF Inductive, SeqsIssued, TypeOK, n
  <2> QED
    BY <1>1, <2>1, <2>2 DEF SeqsIssued
<1>11. ValuesPending'
  <2> SUFFICES ASSUME NEW e \in Entities, NEW f \in Guarded,
                      saved'[e].status = "live", live[e].status = "live"
               PROVE  /\ live[e].seqs[f] <= saved'[e].seqs[f]
                      /\ \/ live[e].fields[f] = saved'[e].fields[f] /\ live[e].seqs[f] = saved'[e].seqs[f]
                         \/ \E v \in Writers : Brings(v, e, f)'
                      /\ \A v \in Writers :
                             PendingSet(v, e, f)' =>
                                 /\ at'[v] <= saved'[e].seqs[f]
                                 /\ at'[v] = saved'[e].seqs[f] => batch[v][e].value = saved'[e].fields[f]
    BY <1>1 DEF ValuesPending
  <2>1. \A v \in Writers : PendingSet(v, e, f)' <=>
           \/ PendingSet(v, e, f)
           \/ v = w /\ Mine(e) /\ batch[w][e].kind = "set" /\ batch[w][e].field = f
    BY <1>1, <1>3 DEF PendingSet
  <2>2. \A v \in Writers : PendingSet(v, e, f) => v # w
    BY <1>1 DEF PendingSet, Pending
  <2>3. /\ saved[e].seqs[f] \in Nat /\ live[e].seqs[f] \in Nat /\ lastSeq \in Nat /\ n = lastSeq + 1
        /\ saved[e].seqs[f] <= lastSeq
        /\ \A v \in Writers : at[v] \in Nat /\ at[v] <= lastSeq
    BY <1>4 DEF Inductive, SeqsIssued, TypeOK, Entry, n
  <2>4. Mine(e) => batch[w][e].kind = "set"
    BY <1>3, <1>6, NoEntryFacts DEF Inductive, CreationsAlone, Creates
  <2>5. saved[e].status = "live"
    BY <1>2, <1>6, <2>4
  <2>6. CASE Mine(e) /\ batch[w][e].field = f
    <3>1. saved'[e].seqs[f] = n /\ saved'[e].fields[f] = batch[w][e].value
      <4>1. saved[e].seqs[f] <= n
        BY <2>3
      <4> QED
        BY <1>6, <2>4, <2>5, <2>6, <4>1
    <3>2. Brings(w, e, f)'
      BY <1>1, <2>1, <2>4, <2>6, <3>1 DEF Brings
    <3>3. live[e].seqs[f] <= saved'[e].seqs[f]
      BY <2>3, <2>5, <3>1 DEF Inductive, ValuesPending
    <3>4. ASSUME NEW v \in Writers, PendingSet(v, e, f)'
          PROVE  /\ at'[v] <= saved'[e].seqs[f]
                 /\ at'[v] = saved'[e].seqs[f] => batch[v][e].value = saved'[e].fields[f]
      BY <1>1, <2>3, <3>1, <3>4
    <3> QED
      BY <3>2, <3>3, <3>4
  <2>7. CASE ~(Mine(e) /\ batch[w][e].field = f)
    <3>1. saved'[e].seqs[f] = saved[e].seqs[f] /\ saved'[e].fields[f] = saved[e].fields[f]
      BY <1>2, <1>6, <2>4, <2>5, <2>7
    <3>2. \A v \in Writers : PendingSet(v, e, f)' <=> PendingSet(v, e, f)
      BY <2>1, <2>7
    <3>3. \A v \in Writers : Brings(v, e, f) => Brings(v, e, f)'
      BY <1>1, <2>2, <3>1, <3>2 DEF Brings
    <3> QED
      BY <1>1, <2>2, <2>5, <3>1, <3>2, <3>3 DEF Inductive, ValuesPending
  <2> QED
    BY <2>6, <2>7
<1> QED
  BY <1>8, <1>9, <1>10, <1>11 DEF Inductive

LEMMA InductiveApply ==
    ASSUME TypeOK, Inductive, NEW w \in Writers, Apply(w)
    PROVE  Inductive'
<1> DEFINE Mine(e) == e \in DOMAIN batch[w]
<1>1. /\ pc[w] = "appended" /\ pc'[w] = "idle" /\ DOMAIN batch'[w] = {}
      /\ at' = [at EXCEPT ![w] = 0]
      /\ \A v \in Writers \ {w} : pc'[v] = pc[v] /\ batch'[v] = batch[v] /\ at'[v] = at[v]
      /\ saved' = saved /\ lastSeq' = lastSeq
  BY DEF Apply, Return, NoBatch, TypeOK
<1>2. \A e \in Entities :
         live'[e] = IF Mine(e) THEN Applied(live[e], batch[w][e], at[w]) ELSE live[e]
  BY ApplyAllFacts DEF Apply, TypeOK
<1>3. \A v \in Writers, e \in Entities :
         /\ Carries(v, e)' <=> Carries(v, e) /\ v # w
         /\ Pending(v, e)' <=> Pending(v, e) /\ v # w
         /\ Mine(e) => Pending(w, e) /\ Carries(w, e)
  BY <1>1 DEF Carries, Pending
<1>4. saved \in [Entities -> Entry] /\ live \in [Entities -> Entry]
  BY DEF TypeOK
<1>5. \A e \in Entities : Mine(e) => batch[w][e] \in Event
  BY DEF TypeOK
<1>6. at[w] \in Nat
  BY DEF TypeOK
<1>7. \A e \in Entities : Mine(e) =>
         LET event == batch[w][e] IN
         /\ event.kind \in {"created", "deleted", "set"}
         /\ event.kind = "created" => live'[e] = [live[e] EXCEPT !.status = "live"]
         /\ event.kind = "deleted" => live'[e].status = "gone"
         /\ event.kind = "set" => live'[e].status = live[e].status
         /\ event.kind = "set" /\ live[e].status # "live" => live'[e] = live[e]
         /\ event.kind = "set" /\ live[e].status = "live" =>
                \A f \in Guarded :
                    IF event.field = f /\ live[e].seqs[f] <= at[w]
                      THEN live'[e].fields[f] = event.value /\ live'[e].seqs[f] = at[w]
                      ELSE live'[e].fields[f] = live[e].fields[f] /\ live'[e].seqs[f] = live[e].seqs[f]
  <2> TAKE e \in Entities
  <2> HAVE Mine(e)
  <2>1. live[e] \in Entry /\ batch[w][e] \in Event
    BY <1>4, <1>5
  <2>2. live'[e] = Applied(live[e], batch[w][e], at[w])
    BY <1>2
  <2> HIDE DEF Mine
  <2> QED
    BY <1>6, <2>1, <2>2, AppliedFacts, EventFacts
<1> HIDE DEF Mine
<1>8. \A e \in Entities : Mine(e) /\ batch[w][e].kind = "created" =>
         /\ live[e] = NoEntry /\ saved[e] = [NoEntry EXCEPT !.status = "live"]
         /\ live'[e] = saved[e] /\ live'[e].status = "live"
         /\ \A v \in Writers : Carries(v, e) => v = w
  <2> SUFFICES ASSUME NEW e \in Entities, Mine(e), batch[w][e].kind = "created"
               PROVE  /\ live[e] = NoEntry /\ saved[e] = [NoEntry EXCEPT !.status = "live"]
                      /\ live'[e] = saved[e] /\ live'[e].status = "live"
                      /\ \A v \in Writers : Carries(v, e) => v = w
    OBVIOUS
  <2>1. Creates(w, e)
    BY <1>3 DEF Creates
  <2>2. /\ live[e] = NoEntry /\ saved[e] = [NoEntry EXCEPT !.status = "live"]
        /\ \A v \in Writers : Carries(v, e) => v = w
    BY <1>1, <2>1 DEF Inductive, CreationsAlone
  <2>3. live'[e] = [live[e] EXCEPT !.status = "live"]
    BY <1>7
  <2> QED
    BY <2>2, <2>3, NoEntryFacts
<1>9. \A e \in Entities : Mine(e) /\ batch[w][e].kind # "created" => live[e].status # "none"
  BY <1>3 DEF Inductive, CreationsAlone, Creates
<1>10. CreationsAlone'
  <2> SUFFICES ASSUME NEW v \in Writers, NEW e \in Entities
               PROVE  /\ Creates(v, e)' =>
                             /\ live'[e] = NoEntry
                             /\ \A u \in Writers : Carries(u, e)' => u = v
                             /\ pc'[v] = "appending" => saved[e] = NoEntry
                             /\ pc'[v] = "appended" => saved[e] = [NoEntry EXCEPT !.status = "live"]
                      /\ Carries(v, e)' /\ ~Creates(v, e)' => live'[e].status # "none"
    BY <1>1 DEF CreationsAlone
  <2>1. Carries(v, e)' => v # w /\ Carries(v, e) /\ (Creates(v, e)' <=> Creates(v, e))
    BY <1>1, <1>3 DEF Creates
  <2>2. CASE ~Mine(e)
    BY <1>1, <1>2, <1>3, <2>1, <2>2 DEF Inductive, CreationsAlone, Creates
  <2>3. CASE Mine(e) /\ batch[w][e].kind = "created"
    BY <1>8, <2>1, <2>3 DEF Creates
  <2>4. CASE Mine(e) /\ batch[w][e].kind # "created"
    <3>1. live'[e].status # "none"
      BY <1>7, <1>9, <2>4
    <3>2. ~Creates(v, e)'
      BY <1>3, <2>1, <2>4 DEF Inductive, CreationsAlone, Creates
    <3> QED
      BY <3>1, <3>2
  <2> QED
    BY <2>2, <2>3, <2>4
<1>11. StatusPending'
  <2> SUFFICES ASSUME NEW e \in Entities
               PROVE  /\ saved[e].status = "none" => saved[e] = NoEntry
                      /\ live'[e].status = "none" =>
                             /\ live'[e] = NoEntry
                             /\ saved[e].status # "none" => \E v \in Writers : Pending(v, e)' /\ Creates(v, e)'
                      /\ live'[e].status # "none" => saved[e].status # "none"
                      /\ live'[e].status = "live" /\ saved[e].status = "gone" =>
                             \E v \in Writers : Pending(v, e)' /\ batch'[v][e].kind = "deleted"
                      /\ live'[e].status = "gone" => saved[e].status = "gone"
                      /\ \A v \in Writers : Pending(v, e)' /\ batch'[v][e].kind = "deleted" => saved[e].status = "gone"
    BY <1>1 DEF StatusPending
  <2>1. /\ saved[e].status = "none" => saved[e] = NoEntry
        /\ \A v \in Writers : Pending(v, e)' /\ batch'[v][e].kind = "deleted" => saved[e].status = "gone"
    BY <1>1, <1>3 DEF Inductive, StatusPending
  <2>2. \A v \in Writers : v # w /\ Pending(v, e) =>
            Pending(v, e)' /\ batch'[v] = batch[v] /\ (Creates(v, e)' <=> Creates(v, e))
    BY <1>1, <1>3 DEF Creates, Carries
  <2>3. CASE ~Mine(e)
    <3>1. live'[e] = live[e] /\ \A v \in Writers : Pending(v, e) => v # w
      BY <1>1, <1>2, <2>3 DEF Pending, Mine
    <3> QED
      BY <2>1, <2>2, <3>1 DEF Inductive, StatusPending
  <2>4. CASE Mine(e) /\ batch[w][e].kind = "created"
    <3>1. live'[e].status = "live" /\ saved[e].status = "live"
      BY <1>8, <2>4
    <3> QED
      BY <2>1, <3>1
  <2>5. CASE Mine(e) /\ batch[w][e].kind = "deleted"
    <3>1. live'[e].status = "gone" /\ saved[e].status = "gone"
      BY <1>3, <1>7, <2>5 DEF Inductive, StatusPending
    <3> QED
      BY <2>1, <3>1
  <2>6. CASE Mine(e) /\ batch[w][e].kind = "set"
    <3>1. live'[e].status = live[e].status /\ live[e].status # "none"
      BY <1>7, <1>9, <2>6
    <3>2. ASSUME live[e].status = "live", saved[e].status = "gone"
          PROVE  \E v \in Writers : Pending(v, e)' /\ batch'[v][e].kind = "deleted"
      BY <2>2, <2>6, <3>2 DEF Inductive, StatusPending
    <3> QED
      BY <2>1, <3>1, <3>2 DEF Inductive, StatusPending
  <2> QED
    BY <1>7, <2>3, <2>4, <2>5, <2>6
<1>12. SeqsIssued'
  BY <1>1 DEF Inductive, SeqsIssued, TypeOK
<1>13. ValuesPending'
  <2> SUFFICES ASSUME NEW e \in Entities, NEW f \in Guarded,
                      saved[e].status = "live", live'[e].status = "live"
               PROVE  /\ live'[e].seqs[f] <= saved[e].seqs[f]
                      /\ \/ live'[e].fields[f] = saved[e].fields[f] /\ live'[e].seqs[f] = saved[e].seqs[f]
                         \/ \E v \in Writers : Brings(v, e, f)'
                      /\ \A v \in Writers :
                             PendingSet(v, e, f)' =>
                                 /\ at'[v] <= saved[e].seqs[f]
                                 /\ at'[v] = saved[e].seqs[f] => batch'[v][e].value = saved[e].fields[f]
    BY <1>1 DEF ValuesPending
  <2>1. \A v \in Writers : /\ PendingSet(v, e, f)' <=> PendingSet(v, e, f) /\ v # w
                           /\ Brings(v, e, f)' <=> Brings(v, e, f) /\ v # w
    BY <1>1, <1>3 DEF PendingSet, Brings
  <2>2. /\ saved[e].seqs[f] \in Nat /\ live[e].seqs[f] \in Nat
    BY <1>4 DEF Entry
  <2>3. CASE Mine(e) /\ batch[w][e].kind = "created"
    <3>1. \A v \in Writers : ~PendingSet(v, e, f)'
      BY <1>3, <1>8, <2>1, <2>3 DEF PendingSet, Pending, Carries
    <3>2. live'[e] = saved[e]
      BY <1>8, <2>3
    <3> QED
      BY <2>2, <3>1, <3>2
  <2>4. CASE ~(Mine(e) /\ batch[w][e].kind = "created")
    <3>1. live[e].status = "live"
      BY <1>2, <1>7, <2>4
    <3>2. /\ live[e].seqs[f] <= saved[e].seqs[f]
          /\ \/ live[e].fields[f] = saved[e].fields[f] /\ live[e].seqs[f] = saved[e].seqs[f]
             \/ \E v \in Writers : Brings(v, e, f)
          /\ \A v \in Writers :
                 PendingSet(v, e, f) =>
                     /\ at[v] <= saved[e].seqs[f]
                     /\ at[v] = saved[e].seqs[f] => batch[v][e].value = saved[e].fields[f]
      BY <3>1 DEF Inductive, ValuesPending
    <3>3. \A v \in Writers :
             PendingSet(v, e, f)' =>
                 /\ at'[v] <= saved[e].seqs[f]
                 /\ at'[v] = saved[e].seqs[f] => batch'[v][e].value = saved[e].fields[f]
      BY <1>1, <2>1, <3>2
    <3>4. CASE ~PendingSet(w, e, f)
      <4>1. live'[e].fields[f] = live[e].fields[f] /\ live'[e].seqs[f] = live[e].seqs[f]
        <5>1. CASE ~Mine(e)
          BY <1>2, <5>1
        <5>2. CASE Mine(e)
          <6>1. batch[w][e].kind = "set" /\ batch[w][e].field # f
            BY <1>3, <1>7, <2>4, <3>4, <5>2 DEF PendingSet
          <6> QED
            BY <1>7, <3>1, <5>2, <6>1
        <5> QED
          BY <5>1, <5>2
      <4>2. \A v \in Writers : Brings(v, e, f) => v # w
        BY <3>4 DEF Brings
      <4> QED
        BY <2>1, <3>2, <3>3, <4>1, <4>2
    <3>5. CASE PendingSet(w, e, f)
      <4>1. /\ Mine(e) /\ batch[w][e].kind = "set" /\ batch[w][e].field = f
            /\ at[w] <= saved[e].seqs[f]
            /\ at[w] = saved[e].seqs[f] => batch[w][e].value = saved[e].fields[f]
        BY <3>2, <3>5 DEF PendingSet, Pending, Mine
      <4>2. IF live[e].seqs[f] <= at[w]
              THEN live'[e].fields[f] = batch[w][e].value /\ live'[e].seqs[f] = at[w]
              ELSE live'[e].fields[f] = live[e].fields[f] /\ live'[e].seqs[f] = live[e].seqs[f]
        BY <1>7, <3>1, <4>1
      <4>3. CASE at[w] = saved[e].seqs[f]
        <5>1. live'[e].fields[f] = saved[e].fields[f] /\ live'[e].seqs[f] = saved[e].seqs[f]
          BY <3>2, <4>1, <4>2, <4>3
        <5> QED
          BY <2>2, <3>3, <5>1
      <4>4. CASE at[w] # saved[e].seqs[f]
        <5>1. live'[e].seqs[f] <= saved[e].seqs[f]
          BY <3>2, <4>1, <4>2
        <5>2. \A v \in Writers : Brings(v, e, f) => Brings(v, e, f)'
          BY <2>1, <4>4 DEF Brings
        <5>3. CASE \E v \in Writers : Brings(v, e, f)
          BY <3>3, <5>1, <5>2, <5>3
        <5>4. CASE live[e].fields[f] = saved[e].fields[f] /\ live[e].seqs[f] = saved[e].seqs[f]
          <6>1. ~(live[e].seqs[f] <= at[w])
            BY <1>6, <2>2, <4>1, <4>4, <5>4
          <6> QED
            BY <3>3, <4>2, <5>1, <5>4, <6>1
        <5> QED
          BY <3>2, <5>3, <5>4
      <4> QED
        BY <4>3, <4>4
    <3> QED
      BY <3>4, <3>5
  <2> QED
    BY <2>3, <2>4
<1> QED
  BY <1>10, <1>11, <1>12, <1>13 DEF Inductive

LEMMA InductiveStutter ==
    ASSUME Inductive, UNCHANGED vars
    PROVE  Inductive'
<1>1. \A w \in Writers, e \in Entities :
         /\ Carries(w, e)' <=> Carries(w, e)
         /\ Pending(w, e)' <=> Pending(w, e)
         /\ Creates(w, e)' <=> Creates(w, e)
  BY DEF vars, Carries, Pending, Creates
<1>2. CreationsAlone' /\ StatusPending' /\ SeqsIssued'
  BY <1>1 DEF vars, Inductive, CreationsAlone, StatusPending, SeqsIssued
<1>3. ValuesPending'
  BY <1>1 DEF vars, Inductive, ValuesPending, PendingSet, Brings
<1> QED
  BY <1>2, <1>3 DEF Inductive

LEMMA InductiveNext ==
    ASSUME TypeOK, Inductive, [Next]_vars
    PROVE  Inductive'
BY InductiveCommand, InductiveCommit, InductiveAppendFails, InductiveApply, InductiveRestart,
   InductiveStutter DEF Next

LEMMA InductiveImplies ==
    ASSUME TypeOK, Inductive
    PROVE  LiveMatchesLog
<1> SUFFICES ASSUME Quiet, NEW e \in Entities PROVE SameAsLog(e)
  BY DEF LiveMatchesLog
<1>1. \A w \in Writers : ~Pending(w, e)
  BY DEF Quiet, Pending
<1>2. live[e].status \in {"none", "live", "gone"} /\ saved[e].status \in {"none", "live", "gone"}
  BY DEF TypeOK, Entry
<1>3. Exists(e) <=> saved[e].status = "live"
  BY <1>1, <1>2 DEF Exists, Inductive, StatusPending
<1>4. ASSUME Exists(e), NEW f \in Guarded PROVE live[e].fields[f] = saved[e].fields[f]
  BY <1>1, <1>3, <1>4 DEF Exists, Inductive, ValuesPending, Brings, PendingSet
<1> QED
  BY <1>3, <1>4 DEF SameAsLog

(***************************************************************************)
(* The guarded fields of the view are those of the log whenever no change  *)
(* is between its commit and its application.                              *)
(***************************************************************************)
THEOREM ViewMatchesLog == Spec => []LiveMatchesLog
<1>1. Init => TypeOK /\ Inductive
  BY TypeInit, InductiveInit
<1>2. TypeOK /\ Inductive /\ [Next]_vars => (TypeOK /\ Inductive)'
  BY TypeNext, InductiveNext
<1>3. TypeOK /\ Inductive => LiveMatchesLog
  BY InductiveImplies
<1> QED
  BY <1>1, <1>2, <1>3, PTL DEF Spec

(* The strengthening itself, for the run that checks it. *)
THEOREM CatalogInvariant == Spec => []Inductive
<1>1. Init => TypeOK /\ Inductive
  BY TypeInit, InductiveInit
<1>2. TypeOK /\ Inductive /\ [Next]_vars => (TypeOK /\ Inductive)'
  BY TypeNext, InductiveNext
<1> QED
  BY <1>1, <1>2, PTL DEF Spec

(* A deleted conversation or project stays deleted: no late change and no restart revives it. *)
THEOREM DeletedStaysDeleted == Spec => NeverComesBack
<1> DEFINE Stays == \A e \in Entities :
                        live[e].status = "gone" \/ saved[e].status = "gone" => ~(~Exists(e) /\ Exists(e)')
<1>1. Init => TypeOK /\ Inductive
  BY TypeInit, InductiveInit
<1>2. TypeOK /\ Inductive /\ [Next]_vars => (TypeOK /\ Inductive)'
  BY TypeNext, InductiveNext
<1>3. TypeOK /\ Inductive /\ [Next]_vars => Stays
  <2> SUFFICES ASSUME TypeOK, Inductive, [Next]_vars, NEW e \in Entities,
                      live[e].status = "gone" \/ saved[e].status = "gone",
                      ~Exists(e)
               PROVE  ~Exists(e)'
    OBVIOUS
  <2>1. live[e].status \in {"none", "live", "gone"} /\ saved[e].status = "gone"
    BY DEF TypeOK, Entry, Inductive, StatusPending
  <2>2. ASSUME live' = live PROVE ~Exists(e)'
    BY <2>2 DEF Exists
  <2>3. ASSUME NEW w \in Writers, Command(w) PROVE live' = live
    BY <2>3, CommandRecords DEF Record
  <2>4. ASSUME NEW w \in Writers, Apply(w) PROVE ~Exists(e)'
    <3>1. live'[e] = IF e \in DOMAIN batch[w] THEN Applied(live[e], batch[w][e], at[w]) ELSE live[e]
      BY <2>4, ApplyAllFacts DEF Apply, TypeOK
    <3>2. CASE e \notin DOMAIN batch[w]
      BY <3>1, <3>2 DEF Exists
    <3>3. CASE e \in DOMAIN batch[w]
      <4>1. batch[w][e] \in Event /\ at[w] \in Nat /\ live[e] \in Entry
        BY <3>3 DEF TypeOK
      <4>2. batch[w][e].kind # "created"
        <5> SUFFICES ASSUME batch[w][e].kind = "created" PROVE FALSE
          OBVIOUS
        <5>1. Creates(w, e) /\ pc[w] = "appended"
          BY <2>4, <3>3 DEF Creates, Carries, Apply
        <5>2. saved[e] = [NoEntry EXCEPT !.status = "live"]
          BY <5>1 DEF Inductive, CreationsAlone
        <5> QED
          BY <2>1, <5>2, NoEntryFacts
      <4>3. live'[e].status # "live"
        BY <3>1, <3>3, <4>1, <4>2, AppliedFacts, EventFacts DEF Exists
      <4> QED
        BY <4>3 DEF Exists
    <3> QED
      BY <3>2, <3>3
  <2>5. CASE Restart
    BY <2>1, <2>5 DEF Restart, Exists
  <2> QED
    BY <2>2, <2>3, <2>4, <2>5 DEF Next, Commit, AppendFails, vars
<1> QED
  BY <1>1, <1>2, <1>3, PTL DEF Spec, NeverComesBack
=============================================================================

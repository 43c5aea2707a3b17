--------------------------- MODULE SessionsProofs ---------------------------
(***************************************************************************)
(* What the sessions keep, for every value of the constants.  The settings *)
(* (sessions.rs, routing/availability.rs): no model is forgotten, and none *)
(* gets worker tasks by a change from an old page.  A conversation and its *)
(* driver (manager/conversation.rs): every message is in one place and is  *)
(* given to a CLI once, every follow-up that waits for a judgement gets    *)
(* one, and nothing is left waiting with nobody to send it.                *)
(***************************************************************************)
EXTENDS SettingsWrites, ConversationDriver, TLAPS, FiniteSetTheorems

-----------------------------------------------------------------------------
(* The settings. *)

LEMMA RebasedType ==
    ASSUME NEW s \in Settings, NEW i \in Settings
    PROVE  Rebased(s, i) \in Settings
BY DEF Rebased, Settings

LEMMA NotedType ==
    ASSUME NEW s \in Settings, NEW list \in SUBSET Models
    PROVE  Noted(s, list) \in Settings
BY DEF Noted, Settings

LEMMA TypeInit == SettingsInit => SettingsTypeOK
BY DEF SettingsInit, SettingsTypeOK, Defaults, Settings, Version

LEMMA ReturnType ==
    ASSUME SettingsTypeOK, NEW t \in Tasks, Return(t)
    PROVE  /\ pc' \in [Tasks -> {"idle", "waiting", "appending", "appended"}]
           /\ next' \in [Tasks -> Settings] /\ at' \in [Tasks -> Nat]
           /\ asked' \in [Clients -> Settings]
<1>1. Defaults \in Settings
  BY DEF Defaults, Settings
<1> QED
  BY <1>1 DEF SettingsTypeOK, Return

LEMMA TypeNext ==
    ASSUME SettingsTypeOK, [SettingsNext]_settingsVars
    PROVE  SettingsTypeOK'
<1>1. ASSUME NEW c \in Clients, Refresh(c) PROVE SettingsTypeOK'
  BY <1>1 DEF Refresh, SettingsTypeOK, Version
<1>2. ASSUME NEW c \in Clients, SendSettings(c) PROVE SettingsTypeOK'
  <2>1. ASSUME NEW m \in Models
        PROVE  /\ [page[c] EXCEPT !.barred = @ \union {m}] \in Settings
               /\ [page[c] EXCEPT !.barred = @ \ {m}] \in Settings
    <3>1. page[c] \in Settings
      BY DEF SettingsTypeOK
    <3> QED
      BY <3>1 DEF Settings
  <2>2. asked' \in [Clients -> Settings]
    BY <1>2, <2>1 DEF SendSettings, SettingsTypeOK
  <2> QED
    BY <1>2, <2>2 DEF SendSettings, SettingsTypeOK, Tasks
<1>3. ASSUME NEW c \in Clients, UpdateSettings(c) PROVE SettingsTypeOK'
  <2>1. Rebased(live.value, asked[c]) \in Settings
    BY RebasedType DEF SettingsTypeOK, Version
  <2> QED
    BY <1>3, <2>1 DEF UpdateSettings, Write, SettingsTypeOK, Tasks
<1>4. ASSUME NEW t \in Listers, NEW p \in Providers, NoteModels(t, p) PROVE SettingsTypeOK'
  <2>1. PICK list \in SUBSET {m \in Models : ProviderOf[m] = p} : Write(t, Noted(live.value, list))
    BY <1>4 DEF NoteModels
  <2>2. Noted(live.value, list) \in Settings
    BY NotedType DEF SettingsTypeOK, Version
  <2> QED
    BY <1>4, <2>1, <2>2 DEF NoteModels, Write, SettingsTypeOK, Tasks
<1>5. ASSUME NEW t \in Tasks, Commit(t) PROVE SettingsTypeOK'
  BY <1>5 DEF Commit, SettingsTypeOK, Version
<1>6. ASSUME NEW t \in Tasks, AppendFails(t) PROVE SettingsTypeOK'
  BY <1>6, ReturnType DEF AppendFails, SettingsTypeOK
<1>7. ASSUME NEW t \in Tasks, Apply(t) PROVE SettingsTypeOK'
  BY <1>7, ReturnType DEF Apply, SettingsTypeOK, Version
<1>8. CASE SettingsRestart
  <2>1. Defaults \in Settings
    BY DEF Defaults, Settings
  <2> QED
    BY <1>8, <2>1 DEF SettingsRestart, SettingsTypeOK
<1>9. CASE UNCHANGED settingsVars
  BY <1>9 DEF settingsVars, SettingsTypeOK
<1> QED
  BY <1>1, <1>2, <1>3, <1>4, <1>5, <1>6, <1>7, <1>8, <1>9 DEF SettingsNext

-----------------------------------------------------------------------------
(* What the newest settings are replaced by. *)

LEMMA RebasedKeeps ==
    ASSUME NEW s \in Settings, NEW i \in Settings
    PROVE  /\ Rebased(s, i).known = i.known \union s.known
           /\ \A m \in s.known \intersect s.barred :
                  m \notin Rebased(s, i).barred => m \in i.known
BY DEF Rebased, Settings

LEMMA NotedKeeps ==
    ASSUME NEW s \in Settings, NEW p \in Providers, NEW list \in SUBSET {m \in Models : ProviderOf[m] = p}
    PROVE  /\ Noted(s, list).known = s.known \union list
           /\ s.barred \subseteq Noted(s, list).barred
           /\ \A m \in list \ s.known :
                  (\E k \in s.known : ProviderOf[k] = ProviderOf[m]) => m \in Noted(s, list).barred
BY DEF Noted, Settings

LEMMA HoldersAlone ==
    ASSUME SettingsTypeOK, OneWriter, NEW t \in Tasks, Holds(t)
    PROVE  \A s \in Tasks \ {t} : pc[s] \in {"idle", "waiting"}
BY DEF SettingsTypeOK, OneWriter, Holds

LEMMA SettingsInductiveInit == SettingsInit => SettingsInductive
BY DEF SettingsInit, SettingsInductive, OneWriter, FromNewest, PagesBehind, Holds, Defaults

LEMMA SettingsInductiveNext ==
    ASSUME SettingsTypeOK, SettingsInductive, [SettingsNext]_settingsVars
    PROVE  SettingsInductive'
<1> USE DEF SettingsInductive
<1>1. ASSUME NEW c \in Clients, Refresh(c) PROVE SettingsInductive'
  BY <1>1 DEF Refresh, SettingsTypeOK, OneWriter, FromNewest, PagesBehind, Holds
<1>2. ASSUME NEW c \in Clients, SendSettings(c) PROVE SettingsInductive'
  <2>1. /\ pc[c] = "idle" /\ pc' = [pc EXCEPT ![c] = "waiting"]
        /\ UNCHANGED <<live, saved, page, next, at>>
        /\ \A t \in Clients \ {c} : asked'[t] = asked[t]
    BY <1>2 DEF SendSettings, SettingsTypeOK
  <2>2. asked'[c].known = page[c].known
    BY <1>2 DEF SendSettings, SettingsTypeOK, Settings
  <2>3. \A t \in Tasks : (pc'[t] = pc[t] /\ t # c) \/ (t = c /\ pc'[t] = "waiting" /\ pc[t] = "idle")
    BY <2>1 DEF SettingsTypeOK
  <2>4. OneWriter'
    BY <2>3 DEF OneWriter, Holds
  <2>5. FromNewest'
    BY <2>1, <2>3 DEF FromNewest
  <2>6. PagesBehind'
    BY <2>1, <2>2 DEF PagesBehind
  <2> QED
    BY <2>4, <2>5, <2>6
<1>3. ASSUME NEW c \in Clients, UpdateSettings(c) PROVE SettingsInductive'
  <2>1. c \in Tasks /\ LockFree /\ live = saved
    BY <1>3 DEF UpdateSettings, Tasks, LockFree, Holds, FromNewest
  <2>2. /\ pc' = [pc EXCEPT ![c] = "appending"]
        /\ next'[c] = Rebased(saved.value, asked[c])
        /\ UNCHANGED <<live, saved, page, asked, at>>
    BY <1>3, <2>1 DEF UpdateSettings, Write, SettingsTypeOK
  <2>3. \A t \in Tasks : pc'[t] = IF t = c THEN "appending" ELSE pc[t]
    BY <2>1, <2>2 DEF SettingsTypeOK
  <2>4. OneWriter'
    BY <2>1, <2>3 DEF OneWriter, LockFree, Holds
  <2>5. FromNewest'
    BY <2>1, <2>2, <2>3, SettingsAssumption DEF FromNewest, LockFree, Holds
  <2>6. PagesBehind'
    BY <2>2 DEF PagesBehind
  <2> QED
    BY <2>4, <2>5, <2>6
<1>4. ASSUME NEW t \in Listers, NEW p \in Providers, NoteModels(t, p) PROVE SettingsInductive'
  <2>1. t \in Tasks /\ LockFree /\ live = saved
    BY <1>4 DEF NoteModels, Tasks, LockFree, Holds, FromNewest
  <2>2. PICK list \in SUBSET {m \in Models : ProviderOf[m] = p} : Write(t, Noted(live.value, list))
    BY <1>4 DEF NoteModels
  <2>3. /\ pc' = [pc EXCEPT ![t] = "appending"]
        /\ next'[t] = Noted(saved.value, list)
        /\ UNCHANGED <<live, saved, page, asked, at>>
    BY <1>4, <2>1, <2>2 DEF NoteModels, Write, SettingsTypeOK
  <2>4. \A s \in Tasks : pc'[s] = IF s = t THEN "appending" ELSE pc[s]
    BY <2>1, <2>3 DEF SettingsTypeOK
  <2>5. OneWriter'
    BY <2>1, <2>4 DEF OneWriter, LockFree, Holds
  <2>6. FromNewest'
    BY <2>1, <2>3, <2>4, SettingsAssumption DEF FromNewest, LockFree, Holds
  <2>7. PagesBehind'
    BY <2>3 DEF PagesBehind
  <2> QED
    BY <2>5, <2>6, <2>7
<1>5. ASSUME NEW t \in Tasks, Commit(t) PROVE SettingsInductive'
  <2>1. /\ pc[t] = "appending" /\ Holds(t) /\ next' = next
        /\ saved' = [seq |-> saved.seq + 1, value |-> next[t]]
        /\ at'[t] = saved.seq + 1
        /\ UNCHANGED <<live, page, asked>>
    BY <1>5 DEF Commit, SettingsTypeOK, Holds
  <2>2. \A s \in Tasks : pc'[s] = IF s = t THEN "appended" ELSE pc[s]
    BY <1>5 DEF Commit, SettingsTypeOK
  <2>3. \A s \in Tasks \ {t} : pc[s] \in {"idle", "waiting"}
    BY <2>1, HoldersAlone
  <2>4. saved.value.known \subseteq next[t].known
    <3>1. CASE t \in Clients
      BY <2>1, <3>1, RebasedKeeps DEF FromNewest, SettingsTypeOK, Version
    <3>2. CASE t \in Listers
      <4>0. PICK p \in Providers : \E list \in SUBSET {m \in Models : ProviderOf[m] = p} :
               next[t] = Noted(saved.value, list)
        BY <2>1, <3>2 DEF FromNewest
      <4>1. PICK list \in SUBSET {m \in Models : ProviderOf[m] = p} :
               next[t] = Noted(saved.value, list)
        BY <4>0
      <4>2. saved.value \in Settings
        BY DEF SettingsTypeOK, Version
      <4> QED
        BY <4>1, <4>2, NotedKeeps
    <3> QED
      BY <3>1, <3>2 DEF Tasks
  <2>5. OneWriter'
    BY <2>2, <2>3 DEF OneWriter, Holds
  <2>6. FromNewest'
    <3>1. live.seq <= saved.seq + 1
      BY DEF FromNewest, SettingsTypeOK, Version
    <3> QED
      BY <2>1, <2>2, <2>3, <2>4, <3>1 DEF FromNewest
  <2>7. PagesBehind'
    BY <2>1, <2>4 DEF PagesBehind
  <2> QED
    BY <2>5, <2>6, <2>7
<1>6. ASSUME NEW t \in Tasks, AppendFails(t) PROVE SettingsInductive'
  <2>1. /\ pc[t] = "appending" /\ Holds(t)
        /\ UNCHANGED <<live, saved, page>>
    BY <1>6 DEF AppendFails, Holds
  <2>2. \A s \in Tasks : pc'[s] = IF s = t THEN "idle" ELSE pc[s]
    BY <1>6 DEF AppendFails, Return, SettingsTypeOK
  <2>3. \A s \in Tasks \ {t} : pc[s] \in {"idle", "waiting"}
    BY <2>1, HoldersAlone
  <2>4. OneWriter'
    BY <2>2, <2>3 DEF OneWriter, Holds
  <2>5. live = saved
    BY <2>1, <2>3 DEF FromNewest
  <2>6. FromNewest'
    BY <2>1, <2>2, <2>3, <2>5 DEF FromNewest
  <2>7. PagesBehind'
    BY <1>6, <2>1 DEF PagesBehind, AppendFails, Return, Defaults
  <2> QED
    BY <2>4, <2>6, <2>7
<1>7. ASSUME NEW t \in Tasks, Apply(t) PROVE SettingsInductive'
  <2>1. pc[t] = "appended" /\ Holds(t) /\ UNCHANGED <<saved, page>>
    BY <1>7 DEF Apply, Holds
  <2>2. \A s \in Tasks : pc'[s] = IF s = t THEN "idle" ELSE pc[s]
    BY <1>7 DEF Apply, Return, SettingsTypeOK
  <2>3. \A s \in Tasks \ {t} : pc[s] \in {"idle", "waiting"}
    BY <2>1, HoldersAlone
  <2>4. OneWriter'
    BY <2>2, <2>3 DEF OneWriter, Holds
  <2>5. live' = saved
    <3>1. at[t] = saved.seq /\ next[t] = saved.value /\ live.seq <= saved.seq
      BY <2>1 DEF FromNewest
    <3>2. live' = [seq |-> saved.seq, value |-> saved.value]
      BY <1>7, <3>1 DEF Apply
    <3> QED
      BY <3>2 DEF SettingsTypeOK, Version
  <2>6. FromNewest'
    <3>1. saved.seq <= saved.seq
      BY DEF SettingsTypeOK, Version
    <3> QED
      BY <2>1, <2>2, <2>3, <2>5, <3>1 DEF FromNewest
  <2>7. PagesBehind'
    BY <1>7, <2>1 DEF PagesBehind, Apply, Return, Defaults
  <2> QED
    BY <2>4, <2>6, <2>7
<1>8. CASE SettingsRestart
  <2>1. /\ live' = saved /\ UNCHANGED <<saved, page>>
        /\ \A t \in Tasks : pc'[t] = "idle"
        /\ \A c \in Clients : asked'[c].known = {}
    BY <1>8 DEF SettingsRestart, Defaults
  <2>2. saved.seq <= saved.seq
    BY DEF SettingsTypeOK, Version
  <2>3. OneWriter' /\ FromNewest' /\ PagesBehind'
    BY <2>1, <2>2 DEF OneWriter, FromNewest, PagesBehind, Holds
  <2> QED
    BY <2>3
<1>9. CASE UNCHANGED settingsVars
  BY <1>9 DEF settingsVars, OneWriter, FromNewest, PagesBehind, Holds
<1> QED
  BY <1>1, <1>2, <1>3, <1>4, <1>5, <1>6, <1>7, <1>8, <1>9 DEF SettingsNext

(* Only a commit changes the stored settings. *)
LEMMA StoredByCommit ==
    ASSUME [SettingsNext]_settingsVars
    PROVE  saved' = saved \/ \E t \in Tasks : Commit(t)
BY DEF SettingsNext, settingsVars, Refresh, SendSettings, UpdateSettings, NoteModels, AppendFails,
       Apply, SettingsRestart

(***************************************************************************)
(* What one commit does to the settings: the three action properties.      *)
(***************************************************************************)
Kept      == saved.value.known \subseteq saved'.value.known
Knowingly == \A m \in saved.value.known \intersect saved.value.barred :
                 m \notin saved'.value.barred =>
                     \E c \in Clients : pc[c] = "appending" /\ m \in asked[c].known
Barred    == \A m \in saved'.value.known \ saved.value.known :
                 (\E k \in saved.value.known : ProviderOf[k] = ProviderOf[m]) => m \in saved'.value.barred

LEMMA CommitKeeps ==
    ASSUME SettingsTypeOK, SettingsInductive, [SettingsNext]_settingsVars
    PROVE  Kept /\ Knowingly /\ Barred
<1>1. CASE saved' = saved
  BY <1>1 DEF Kept, Knowingly, Barred
<1>2. ASSUME NEW t \in Tasks, Commit(t) PROVE Kept /\ Knowingly /\ Barred
  <2>1. /\ pc[t] = "appending" /\ saved'.value = next[t] /\ saved.value \in Settings
        /\ t \in Clients => asked[t] \in Settings
    BY <1>2 DEF Commit, SettingsTypeOK, Version
  <2>2. CASE t \in Clients
    <3>1. /\ saved.value.known \subseteq saved'.value.known
          /\ saved'.value.known \subseteq asked[t].known \union saved.value.known
          /\ \A m \in saved.value.known \intersect saved.value.barred :
                 m \notin saved'.value.barred => m \in asked[t].known
      BY <2>1, <2>2, RebasedKeeps DEF SettingsInductive, FromNewest
    <3>2. asked[t].known \subseteq saved.value.known
      BY <2>2 DEF SettingsInductive, PagesBehind
    <3> QED
      BY <2>1, <2>2, <3>1, <3>2 DEF Kept, Knowingly, Barred
  <2>3. CASE t \in Listers
    <3>0. PICK p \in Providers : \E list \in SUBSET {m \in Models : ProviderOf[m] = p} :
             next[t] = Noted(saved.value, list)
      BY <2>1, <2>3 DEF SettingsInductive, FromNewest
    <3>1. PICK list \in SUBSET {m \in Models : ProviderOf[m] = p} :
             next[t] = Noted(saved.value, list)
      BY <3>0
    <3>2. /\ next[t].known = saved.value.known \union list
          /\ saved.value.barred \subseteq next[t].barred
          /\ \A m \in list \ saved.value.known :
                 (\E k \in saved.value.known : ProviderOf[k] = ProviderOf[m]) => m \in next[t].barred
      BY <2>1, <3>1, NotedKeeps
    <3> QED
      BY <2>1, <3>2 DEF Kept, Knowingly, Barred
  <2> QED
    BY <2>2, <2>3 DEF Tasks
<1> QED
  BY <1>1, <1>2, StoredByCommit

(* Types, one writer at a time, and every write made from the newest settings. *)
THEOREM SettingsInvariant == SettingsSpec => [](SettingsTypeOK /\ SettingsInductive)
<1>1. SettingsInit => SettingsTypeOK /\ SettingsInductive
  BY TypeInit, SettingsInductiveInit
<1>2. SettingsTypeOK /\ SettingsInductive /\ [SettingsNext]_settingsVars
         => (SettingsTypeOK /\ SettingsInductive)'
  BY TypeNext, SettingsInductiveNext
<1> QED
  BY <1>1, <1>2, PTL DEF SettingsSpec

(* No model recorded as known is ever forgotten. *)
THEOREM KnownModelsKept == SettingsSpec => KnownKept
<1>1. SettingsTypeOK /\ SettingsInductive /\ [SettingsNext]_settingsVars => Kept
  BY CommitKeeps
<1>2. Kept <=> (saved.value.known \subseteq saved'.value.known)
  BY DEF Kept
<1> QED
  BY <1>1, <1>2, SettingsInvariant, PTL DEF SettingsSpec, KnownKept

(* A known model's rule ends only by a page that knew the model. *)
THEOREM RulesEndKnowingly == SettingsSpec => RuleEndsKnowingly
<1>1. SettingsTypeOK /\ SettingsInductive /\ [SettingsNext]_settingsVars =>
         \A m \in saved.value.known \intersect saved.value.barred :
             m \notin saved'.value.barred =>
                 \E c \in Clients : pc[c] = "appending" /\ m \in asked[c].known
  BY CommitKeeps DEF Knowingly
<1> QED
  BY <1>1, SettingsInvariant, PTL DEF SettingsSpec, RuleEndsKnowingly

(* A model listed later than its agent's first list starts with the rule. *)
THEOREM LaterModelsBarred == SettingsSpec => NewModelsStartBarred
<1>1. SettingsTypeOK /\ SettingsInductive /\ [SettingsNext]_settingsVars =>
         \A m \in saved'.value.known \ saved.value.known :
             (\E k \in saved.value.known : ProviderOf[k] = ProviderOf[m]) => m \in saved'.value.barred
  BY CommitKeeps DEF Barred
<1> QED
  BY <1>1, SettingsInvariant, PTL DEF SettingsSpec, NewModelsStartBarred

-----------------------------------------------------------------------------
(* The conversation.  Sequences first: what is in them. *)

NoneTwice(q) == \A i, j \in DOMAIN q : q[i] = q[j] => i = j

LEMMA NothingIn == In(<<>>) = {} /\ NoneTwice(<<>>) /\ \A S : <<>> \in Seq(S)
BY DEF In, NoneTwice

LEMMA PickIn ==
    ASSUME NEW S, NEW q \in Seq(S), NEW I \in SUBSET DOMAIN q
    PROVE  /\ Pick(q, I) \in Seq(S)
           /\ In(Pick(q, I)) = {q[i] : i \in I}
           /\ NoneTwice(q) => NoneTwice(Pick(q, I))
           /\ I # {} => Pick(q, I) # <<>>
<1> DEFINE c == Cardinality(I)
           Upto(i) == {j \in I : j <= i}
           rank == [i \in I |-> Cardinality(Upto(i))]
           Nth(n) == CHOOSE i \in I : Cardinality(Upto(i)) = n
<1>1. IsFiniteSet(I) /\ c \in Nat /\ I \subseteq Nat
  <2>1. DOMAIN q = 1 .. Len(q) /\ Len(q) \in Nat
    OBVIOUS
  <2>2. IsFiniteSet(DOMAIN q)
    BY <2>1, FS_Interval
  <2>3. IsFiniteSet(I)
    BY <2>2, FS_Subset
  <2> QED
    BY <2>1, <2>3, FS_CardinalityType
<1>2. ASSUME NEW i \in I
      PROVE  IsFiniteSet(Upto(i)) /\ Cardinality(Upto(i)) \in 1 .. c
  <2>1. IsFiniteSet(Upto(i)) /\ Cardinality(Upto(i)) <= c
    BY <1>1, FS_Subset
  <2>2. i \in Upto(i)
    BY <1>1
  <2>3. Cardinality(Upto(i)) \in Nat /\ Cardinality(Upto(i)) # 0
    BY <2>1, <2>2, FS_CardinalityType, FS_EmptySet
  <2> QED
    BY <2>1, <2>3, <1>1
<1>3. ASSUME NEW i \in I, NEW j \in I, i < j
      PROVE  Cardinality(Upto(i)) # Cardinality(Upto(j))
  <2>1. Upto(i) \subseteq Upto(j) /\ j \in Upto(j) /\ j \notin Upto(i)
    BY <1>1, <1>3
  <2> QED
    BY <2>1, <1>2, FS_Subset
<1>4. rank \in Injection(I, 1 .. c)
  <2>1. rank \in [I -> 1 .. c]
    BY <1>2
  <2>2. ASSUME NEW i \in I, NEW j \in I, rank[i] = rank[j] PROVE i = j
    <3>1. i \in Nat /\ j \in Nat /\ Cardinality(Upto(i)) = Cardinality(Upto(j))
      BY <2>2, <1>1
    <3>2. ~(i < j) /\ ~(j < i)
      BY <3>1, <1>3
    <3> QED
      BY <3>1, <3>2
  <2> HIDE DEF rank
  <2> QED
    BY <2>1, <2>2 DEF Injection, IsInjective
<1>5. rank \in Surjection(I, 1 .. c)
  <2>1. IsFiniteSet(1 .. c) /\ Cardinality(1 .. c) = c
    BY <1>1, FS_Interval
  <2> QED
    BY <2>1, <1>4, FS_Injection
<1>6. ASSUME NEW n \in 1 .. c PROVE Nth(n) \in I /\ Cardinality(Upto(Nth(n))) = n
  <2>1. \E i \in I : rank[i] = n
    BY <1>5 DEF Surjection
  <2> QED
    BY <2>1
<1>7. ASSUME NEW i \in I PROVE Nth(Cardinality(Upto(i))) = i
  <2>1. Cardinality(Upto(i)) \in 1 .. c
    BY <1>2
  <2>2. Nth(Cardinality(Upto(i))) \in I /\ Cardinality(Upto(Nth(Cardinality(Upto(i))))) = Cardinality(Upto(i))
    BY <2>1, <1>6
  <2> QED
    BY <2>2, <1>1, <1>3
<1>8. Pick(q, I) = [n \in 1 .. c |-> q[Nth(n)]]
  BY DEF Pick
<1> HIDE DEF Nth, Upto, c, rank
<1>9. DOMAIN Pick(q, I) = 1 .. c /\ \A n \in 1 .. c : Pick(q, I)[n] = q[Nth(n)]
  BY <1>8
<1>10. Pick(q, I) \in Seq(S)
  <2>1. \A n \in 1 .. c : q[Nth(n)] \in S
    BY <1>6
  <2> QED
    BY <2>1, <1>1, <1>8
<1>11. In(Pick(q, I)) = {q[i] : i \in I}
  <2>1. ASSUME NEW n \in 1 .. c PROVE Pick(q, I)[n] \in {q[i] : i \in I}
    BY <1>6, <1>9
  <2>2. ASSUME NEW i \in I PROVE \E n \in 1 .. c : Pick(q, I)[n] = q[i]
    BY <1>2, <1>7, <1>9
  <2> QED
    BY <2>1, <2>2, <1>9 DEF In
<1>12. NoneTwice(q) => NoneTwice(Pick(q, I))
  <2> SUFFICES ASSUME NoneTwice(q), NEW a \in 1 .. c, NEW b \in 1 .. c, q[Nth(a)] = q[Nth(b)]
               PROVE  a = b
    BY <1>9 DEF NoneTwice
  <2>1. Nth(a) = Nth(b)
    BY <1>6 DEF NoneTwice
  <2> QED
    BY <2>1, <1>6
<1>13. I # {} => Pick(q, I) # <<>>
  <2>1. ASSUME NEW i \in I, Pick(q, I) = <<>> PROVE FALSE
    <3>1. In(Pick(q, I)) = {}
      BY <2>1 DEF In
    <3> QED
      BY <3>1, <1>11
  <2> QED
    BY <2>1
<1> QED
  BY <1>10, <1>11, <1>12, <1>13

LEMMA WithoutIn ==
    ASSUME NEW S, NEW q \in Seq(S), NEW m
    PROVE  /\ Without(q, m) \in Seq(S) /\ In(Without(q, m)) = In(q) \ {m}
           /\ NoneTwice(q) => NoneTwice(Without(q, m))
<1> DEFINE I == {i \in DOMAIN q : q[i] # m}
<1>1. Without(q, m) = Pick(q, I)
  BY DEF Without
<1>2. {q[i] : i \in I} = In(q) \ {m}
  BY DEF In
<1> HIDE DEF I
<1>3. I \in SUBSET DOMAIN q
  BY DEF I
<1> QED
  BY <1>1, <1>2, <1>3, PickIn

LEMMA AppendIn ==
    ASSUME NEW S, NEW q \in Seq(S), NEW e \in S
    PROVE  /\ Append(q, e) \in Seq(S) /\ In(Append(q, e)) = In(q) \union {e}
           /\ NoneTwice(q) /\ e \notin In(q) => NoneTwice(Append(q, e))
           /\ Append(q, e) # <<>>
<1>1. /\ DOMAIN Append(q, e) = 1 .. Len(q) + 1 /\ DOMAIN q = 1 .. Len(q) /\ Len(q) \in Nat
      /\ \A i \in 1 .. Len(q) + 1 : Append(q, e)[i] = IF i = Len(q) + 1 THEN e ELSE q[i]
  OBVIOUS
<1>2. In(Append(q, e)) = In(q) \union {e}
  <2>1. ASSUME NEW i \in 1 .. Len(q) + 1 PROVE Append(q, e)[i] \in In(q) \union {e}
    BY <1>1 DEF In
  <2>2. ASSUME NEW i \in DOMAIN q PROVE \E j \in 1 .. Len(q) + 1 : Append(q, e)[j] = q[i]
    BY <1>1
  <2>3. Append(q, e)[Len(q) + 1] = e /\ Len(q) + 1 \in 1 .. Len(q) + 1
    BY <1>1
  <2> QED
    BY <1>1, <2>1, <2>2, <2>3 DEF In
<1>3. NoneTwice(q) /\ e \notin In(q) => NoneTwice(Append(q, e))
  BY <1>1 DEF NoneTwice, In
<1>4. Append(q, e) \in Seq(S)
  OBVIOUS
<1>5. Append(q, e) # <<>>
  BY <1>2, NothingIn
<1> QED
  BY <1>2, <1>3, <1>4, <1>5

LEMMA ConcatIn ==
    ASSUME NEW S, NEW q \in Seq(S), NEW r \in Seq(S)
    PROVE  q \o r \in Seq(S) /\ In(q \o r) = In(q) \union In(r)
<1>1. /\ DOMAIN (q \o r) = 1 .. Len(q) + Len(r) /\ DOMAIN q = 1 .. Len(q) /\ DOMAIN r = 1 .. Len(r)
      /\ Len(q) \in Nat /\ Len(r) \in Nat /\ q \o r \in Seq(S)
      /\ \A i \in 1 .. Len(q) + Len(r) : (q \o r)[i] = IF i <= Len(q) THEN q[i] ELSE r[i - Len(q)]
  <2>1. Len(q \o r) = Len(q) + Len(r) /\ q \o r \in Seq(S)
    OBVIOUS
  <2>2. DOMAIN (q \o r) = 1 .. Len(q \o r) /\ DOMAIN q = 1 .. Len(q) /\ DOMAIN r = 1 .. Len(r)
          /\ Len(q) \in Nat /\ Len(r) \in Nat
    BY <2>1
  <2>3. ASSUME NEW i \in 1 .. Len(q) + Len(r)
        PROVE  (q \o r)[i] = IF i <= Len(q) THEN q[i] ELSE r[i - Len(q)]
    BY <2>2
  <2> QED
    BY <2>1, <2>2, <2>3
<1>2. ASSUME NEW i \in DOMAIN (q \o r) PROVE (q \o r)[i] \in In(q) \union In(r)
  BY <1>1 DEF In
<1>3. ASSUME NEW i \in DOMAIN q PROVE q[i] \in In(q \o r)
  BY <1>1 DEF In
<1>4. ASSUME NEW i \in DOMAIN r PROVE r[i] \in In(q \o r)
  <2>1. Len(q) + i \in DOMAIN (q \o r) /\ (q \o r)[Len(q) + i] = r[i]
    BY <1>1
  <2> QED
    BY <2>1 DEF In
<1> QED
  BY <1>2, <1>3, <1>4 DEF In

LEMMA EndsIn ==
    ASSUME NEW S, NEW q \in Seq(S), q # <<>>
    PROVE  /\ Head(q) \in S /\ Head(q) \in In(q) /\ q[Len(q)] \in S /\ q[Len(q)] \in In(q)
           /\ Tail(q) \in Seq(S) /\ In(q) \subseteq {Head(q)} \union In(Tail(q))
           /\ In(Tail(q)) \subseteq In(q)
<1>1. /\ DOMAIN q = 1 .. Len(q) /\ Len(q) \in Nat \ {0} /\ Head(q) = q[1]
      /\ Tail(q) \in Seq(S) /\ Len(Tail(q)) = Len(q) - 1 /\ DOMAIN Tail(q) = 1 .. Len(q) - 1
      /\ \A i \in 1 .. Len(q) - 1 : Tail(q)[i] = q[i + 1]
  OBVIOUS
<1>2. ASSUME NEW i \in DOMAIN q, i # 1 PROVE q[i] \in In(Tail(q))
  <2>1. i - 1 \in DOMAIN Tail(q) /\ Tail(q)[i - 1] = q[i]
    BY <1>1, <1>2
  <2> QED
    BY <2>1 DEF In
<1>3. In(Tail(q)) \subseteq In(q)
  BY <1>1 DEF In
<1>4. 1 \in DOMAIN q /\ Len(q) \in DOMAIN q
  BY <1>1
<1>5. Head(q) \in In(q) /\ q[Len(q)] \in In(q)
  BY <1>1, <1>4 DEF In
<1>6. In(q) \subseteq {Head(q)} \union In(Tail(q))
  BY <1>1, <1>2 DEF In
<1>7. Head(q) \in S /\ q[Len(q)] \in S
  BY <1>1, <1>4
<1> QED
  BY <1>1, <1>3, <1>5, <1>6, <1>7

LEMMA InSet == ASSUME NEW S, NEW q \in Seq(S) PROVE In(q) \subseteq S /\ (q # <<>> => In(q) # {})
BY EndsIn DEF In

(* A sequence without repetitions is as long as there are elements in it. *)
LEMMA NoneTwiceLength ==
    ASSUME NEW S, NEW q \in Seq(S), NoneTwice(q)
    PROVE  Len(q) = Cardinality(In(q))
<1>1. Len(q) \in Nat /\ DOMAIN q = 1 .. Len(q) /\ q \in [1 .. Len(q) -> In(q)]
  BY DEF In
<1>2. \A a, b \in 1 .. Len(q) : q[a] = q[b] => a = b
  BY <1>1 DEF NoneTwice
<1>3. \A t \in In(q) : \E s \in 1 .. Len(q) : q[s] = t
  BY <1>1 DEF In
<1>4. q \in Bijection(1 .. Len(q), In(q))
  <2>1. q \in Injection(1 .. Len(q), In(q))
    BY <1>1, <1>2 DEF Injection, IsInjective
  <2>2. q \in Surjection(1 .. Len(q), In(q))
    BY <1>1, <1>3 DEF Surjection
  <2> QED
    BY <2>1, <2>2 DEF Bijection
<1> QED
  BY <1>1, <1>4, FS_CountingElements DEF ExistsBijection

-----------------------------------------------------------------------------
(* The types. *)

Maybe(S)   == S \union {None}
Settling   == {"read", "weigh", "write", "unasked"}
Owning     == {"busy?", "place", "append", "join", "push"}
OfMessage  == Owning \union {"ask", "take", "note", "routed"}
Steps      == OfMessage \union Settling \union
                {"off", "turn", "queue", "ready", "peek", "start", "send", "fail", "envelope",
                 "reported", "pause", "stop"}
Rets       == {"off", "kick", "start", "queue", "envelope"}
CliStates  == {"none", "idle", "running", "gone"}
CliEvents  == {"completed", "stopped", "exited"}

BoardType == [queue : Seq(Msgs), paused : BOOLEAN, deciding : SUBSET Msgs, log : Seq(Msgs),
              state : [Msgs -> States], into : [Msgs -> Maybe(Msgs)], tasks : SUBSET Msgs]
ConvType  == [cli : Maybe(Clis), busy : BOOLEAN, inbox : Seq(Envelopes), announcing : SUBSET Msgs,
              pending : Seq(Msgs), request : Maybe(Msgs),
              outcomes : [Msgs -> {"none", "stopped", "failed"}],
              asking : SUBSET (Msgs \X Msgs), asked : SUBSET Msgs]
HistType  == [sent : SUBSET Msgs, given : [Msgs -> Nat], told : SUBSET Msgs, deleted : SUBSET Msgs,
              lost : SUBSET Msgs, mishaps : SUBSET Mishaps]
SnapType  == [state : [Msgs -> States], tasks : SUBSET Msgs, ready : BOOLEAN]
LocalType == [at : Steps, ret : Rets, m : Maybe(Msgs), users : Seq(Msgs), envs : Seq(Envelopes),
              snap : SnapType, work : Maybe(Msgs), busy : BOOLEAN, steer : BOOLEAN,
              cli : Maybe(Clis), asked : SUBSET Msgs, sent : BOOLEAN]

(* The driver is on its way to the CLI with a turn. *)
Claimed(l) == \/ l.at \in {"start", "send", "fail"}
              \/ l.at \in {"read", "weigh", "write"} /\ l.ret = "start"

(* What a task's locals hold where it stands. *)
Fits(l) ==
    /\ l.at = "off" => l = Off
    /\ l.at \in OfMessage => l.m \in Msgs
    /\ l.at \in {"ask", "reported", "envelope"} \/ l.ret = "envelope" => l.work \in Msgs
    /\ l.at \in {"send", "stop"} => l.cli \in Clis
    /\ l.users # <<>> => Claimed(l)
    /\ l.asked # {} => l.at = "unasked"
    /\ l.at \in {"unasked", "note"} => l.ret \in {"off", "kick"}
    /\ l.ret = "kick" => l.at \in Settling \union {"note"}
Local(l) == l \in LocalType /\ Fits(l)

TypedBoard == board \in BoardType
TypedConv  == conv \in ConvType
TypedClis  == clis \in [Clis -> [state : CliStates, events : Seq(CliEvents)]]
TypedProc  == proc \in [Procs -> LocalType] /\ \A p \in Procs : Fits(proc[p])
TypedHist  == hist \in HistType
TypedRest  == kind \in Kinds /\ lock \in Drivers \union {None} /\ kicks \in 0 .. MaxKicks
Typed == TypedBoard /\ TypedConv /\ TypedClis /\ TypedProc /\ TypedHist /\ TypedRest

LEMMA OffLocal == Local(Off)
BY NothingIn DEF Local, Off, LocalType, NoSnap, SnapType, Fits, Steps, Rets, States, Maybe, OfMessage,
                 Owning, Settling, Claimed, Envelopes

LEMMA Becomes ==
    ASSUME TypedProc, NEW p \in Procs, NEW l, Local(l), Be(p, l)
    PROVE  TypedProc' /\ proc'[p] = l /\ \A q \in Procs \ {p} : proc'[q] = proc[q]
BY DEF TypedProc, Be, Local

LEMMA Locals == ASSUME TypedProc, NEW p \in Procs PROVE Local(proc[p])
BY DEF TypedProc, Local

LEMMA SettleLocal ==
    ASSUME NEW l, Local(l), NEW r \in {"off", "kick", "start", "queue"},
           l.users # <<>> => r = "start", l.asked = {}
    PROVE  Local(Settle(l, r))
BY DEF Local, Fits, Settle, LocalType, Claimed, Steps, Rets, OfMessage, Owning, Settling

LEMMA UnaskLocal ==
    ASSUME NEW judges \in SUBSET Msgs, NEW r \in {"off", "kick"}
    PROVE  Local(Unask(judges, r))
<1>1. CASE judges = {}
  BY <1>1, OffLocal, SettleLocal DEF Unask, Off
<1>2. CASE judges # {}
  BY <1>2, OffLocal DEF Unask, Local, Fits, LocalType, Claimed, Steps, Rets, OfMessage, Owning, Settling, Off
<1> QED
  BY <1>1, <1>2

LEMMA EndsTyped ==
    ASSUME NEW S, NEW q \in Seq(S)
    PROVE  /\ FirstOf(q) \in Maybe(S) /\ LastOf(q) \in Maybe(S)
           /\ q # <<>> => FirstOf(q) \in S /\ FirstOf(q) = Head(q) /\ LastOf(q) \in S
BY EndsIn DEF FirstOf, LastOf, Maybe

LEMMA WorkingTyped == ASSUME TypedBoard PROVE Working(board) \in Maybe(Msgs)
<1>1. board.log \in Seq(Msgs)
  BY DEF TypedBoard, BoardType
<1> QED
  BY <1>1, EndsTyped DEF Working, Maybe

LEMMA AppendedTyped ==
    ASSUME NEW b \in BoardType, NEW m \in Msgs
    PROVE  /\ Appended(b, m) \in BoardType
           /\ Appended(b, m).queue = b.queue /\ Appended(b, m).deciding = b.deciding
<1>1. Append(b.log, m) \in Seq(Msgs)
  BY AppendIn DEF BoardType
<1> QED
  BY <1>1 DEF Appended, BoardType, States

LEMMA TakenTyped ==
    ASSUME NEW b \in BoardType, NEW m
    PROVE  /\ Taken(b, m) \in BoardType
           /\ Taken(b, m).queue = Without(b.queue, m) /\ Taken(b, m).deciding = b.deciding \ {m}
<1>1. Without(b.queue, m) \in Seq(Msgs)
  BY WithoutIn DEF BoardType
<1> QED
  BY <1>1 DEF Taken, BoardType

LEMMA KickedTyped ==
    ASSUME NEW n \in Nat, kicks \in 0 .. MaxKicks
    PROVE  Kicked(n) \in 0 .. MaxKicks /\ (n > 0 => Kicked(n) > 0)
BY DriverAssumption DEF Kicked

LEMMA GaveTyped ==
    ASSUME NEW h \in HistType, NEW users
    PROVE  /\ Gave(h, users) \in HistType
           /\ \A m \in Msgs : Gave(h, users).given[m] = h.given[m] + IF m \in In(users) THEN 1 ELSE 0
           /\ \A f \in {"sent", "told", "deleted", "lost", "mishaps"} : Gave(h, users)[f] = h[f]
BY DEF Gave, HistType

LEMMA HappenedTyped ==
    ASSUME TypedHist, NEW what \in Mishaps
    PROVE  Happened(what) \in HistType
BY DEF Happened, TypedHist, HistType

LEMMA ClaimTyped ==
    ASSUME Typed, NEW d \in Drivers, NEW users \in Seq(Msgs), NEW envs \in Seq(Envelopes),
           NEW rest \in Seq(Envelopes), users # <<>> \/ envs # <<>>, Claim(d, users, envs, rest),
           proc[d].asked = {}
    PROVE  /\ TypedConv' /\ TypedProc' /\ conv'.pending = <<>> /\ conv'.inbox = rest /\ conv'.busy
           /\ conv'.cli = conv.cli
           /\ proc'[d].at = "read" /\ proc'[d].ret = "start" /\ proc'[d].users = users /\ proc'[d].m = None
           /\ proc'[d].asked = {}
           /\ \A q \in Procs \ {d} : proc'[q] = proc[q]
<1> DEFINE request == IF users # <<>> THEN LastOf(users) ELSE Head(envs).of
           judged == IF \E env \in In(envs) : env.item # None
                     THEN {pair \in conv.asking : pair[2] = request} ELSE {}
           l == [Settle(proc[d], "start") EXCEPT !.users = users, !.envs = envs, !.m = None]
<1>1. request \in Msgs
  <2>1. CASE users # <<>>
    BY <2>1, EndsTyped
  <2>2. CASE users = <<>>
    <3>1. Head(envs) \in Envelopes
      BY <2>2, EndsIn
    <3> QED
      BY <2>2, <3>1 DEF Envelopes
  <2> QED
    BY <2>1, <2>2
<1>2. conv' = [conv EXCEPT !.busy = TRUE, !.pending = <<>>, !.inbox = rest, !.request = request,
                           !.outcomes[request] = "none", !.asking = @ \ judged,
                           !.asked = @ \union {pair[1] : pair \in judged}]
  BY DEF Claim
<1>3. judged \subseteq Msgs \X Msgs /\ conv \in ConvType
  BY DEF Typed, TypedConv, ConvType
<1>4. {pair[1] : pair \in judged} \subseteq Msgs
  BY <1>3
<1> HIDE DEF request, judged
<1>5. TypedConv' /\ conv'.pending = <<>> /\ conv'.inbox = rest /\ conv'.busy /\ conv'.cli = conv.cli
  BY <1>1, <1>2, <1>3, <1>4, NothingIn DEF TypedConv, ConvType, Maybe
<1>6. d \in Procs /\ proc[d] \in LocalType
  BY DEF Procs, Typed, TypedProc
<1>7. Be(d, l)
  BY DEF Claim
<1>8. Local(l) /\ l.at = "read" /\ l.ret = "start" /\ l.users = users /\ l.m = None /\ l.asked = {}
  <2>1. /\ l \in LocalType /\ l.at = "read" /\ l.ret = "start" /\ l.users = users /\ l.m = None
        /\ l.asked = {}
    BY <1>6 DEF Settle, LocalType, Steps, Rets, Settling, Maybe
  <2> HIDE DEF l
  <2> QED
    BY <2>1 DEF Local, Fits, Claimed, OfMessage, Owning, Settling
<1> HIDE DEF l
<1> QED
  BY <1>5, <1>6, <1>7, <1>8, Becomes DEF Typed

LEMMA TypedDriverTurn ==
    ASSUME Typed, NEW d \in Drivers, DriverTurn(d)
    PROVE  Typed'
<1> DEFINE of == FirstOf(conv.inbox).of
           I == {i \in DOMAIN conv.inbox : conv.inbox[i].of = of}
           J == {i \in DOMAIN conv.inbox : conv.inbox[i].of # of}
           envs == Pick(conv.inbox, I)
           rest == Pick(conv.inbox, J)
<1>1. conv.inbox \in Seq(Envelopes) /\ conv.pending \in Seq(Msgs)
  BY DEF Typed, TypedConv, ConvType
<1>2. envs \in Seq(Envelopes) /\ rest \in Seq(Envelopes)
  BY <1>1, PickIn
<1>3. conv.inbox # <<>> => envs # <<>>
  <2> SUFFICES ASSUME conv.inbox # <<>> PROVE envs # <<>>
    OBVIOUS
  <2>1. 1 \in DOMAIN conv.inbox /\ Head(conv.inbox) = conv.inbox[1]
    BY <1>1
  <2>2. 1 \in I
    BY <2>1 DEF FirstOf
  <2> HIDE DEF I
  <2>3. I \in SUBSET DOMAIN conv.inbox
    BY DEF I
  <2> QED
    BY <1>1, <2>2, <2>3, PickIn
<1>4. d \in Procs /\ Local(proc[d]) /\ proc[d].at \in {"off", "turn"}
  BY Locals DEF Procs, Typed, DriverTurn, DriverBegins, At
<1>5. proc[d].asked = {} /\ proc[d].users = <<>>
  BY <1>4 DEF Local, Fits, Claimed
<1>6. TypedBoard' /\ TypedClis' /\ TypedHist' /\ kind' \in Kinds /\ kicks' \in 0 .. MaxKicks
  BY <1>4, DriverAssumption DEF DriverTurn, DriverBegins, Typed, TypedBoard, TypedClis, TypedHist, TypedRest
<1>7. CASE conv.busy /\ Be(d, Off) /\ UNCHANGED <<conv, lock>>
  BY <1>4, <1>6, <1>7, Becomes, OffLocal DEF Typed, TypedConv, TypedRest
<1>8. CASE conv.pending # <<>> /\ Claim(d, conv.pending, <<>>, conv.inbox) /\ UNCHANGED lock
  BY <1>1, <1>5, <1>6, <1>8, ClaimTyped, NothingIn DEF Typed, TypedRest
<1>9. CASE conv.inbox # <<>> /\ Claim(d, <<>>, envs, rest) /\ UNCHANGED lock
  <2> HIDE DEF envs, rest
  <2> QED
    BY <1>2, <1>3, <1>5, <1>6, <1>9, ClaimTyped, NothingIn DEF Typed, TypedRest
<1>10. CASE lock' = d /\ Goto(d, "peek") /\ UNCHANGED conv
  <2> DEFINE l == [proc[d] EXCEPT !.at = "peek"]
  <2>1. Local(l)
    BY <1>4, <1>5 DEF Local, Fits, LocalType, Claimed, Steps, OfMessage, Owning, Settling, Off
  <2>2. Be(d, l)
    BY <1>10 DEF Goto
  <2> HIDE DEF l
  <2> QED
    BY <1>4, <1>6, <1>10, <2>1, <2>2, Becomes DEF Typed, TypedConv, TypedRest
<1>11. CASE Be(d, Settle(proc[d], IF proc[d].sent THEN "off" ELSE "queue")) /\ UNCHANGED <<conv, lock>>
  <2>1. Local(Settle(proc[d], IF proc[d].sent THEN "off" ELSE "queue"))
    BY <1>4, <1>5, SettleLocal
  <2> QED
    BY <1>4, <1>6, <1>11, <2>1, Becomes DEF Typed, TypedConv, TypedRest
<1> HIDE DEF envs, rest
<1> QED
  BY <1>7, <1>8, <1>9, <1>10, <1>11 DEF DriverTurn, envs, rest, of, I, J

LEMMA TypedSettles ==
    ASSUME Typed, NEW p \in Procs, SettleRead(p) \/ SettleWeigh(p) \/ SettleWrite(p) \/ SettleQueued(p)
    PROVE  Typed'
<1>1. Local(proc[p]) /\ board \in BoardType /\ conv \in ConvType
  BY Locals DEF Typed, TypedBoard, TypedConv
<1> USE DEF LocalType, Steps, Rets, OfMessage, Owning, Settling
<1>2. CASE SettleRead(p)
  <2> DEFINE snap == [state |-> board.state, tasks |-> board.tasks,
                      ready |-> /\ kind = "session" /\ board.log # <<>> /\ ~ board.paused
                                /\ FirstOf(board.queue) \notin (board.deciding \union {None})]
             l == [proc[p] EXCEPT !.at = IF board.log = <<>> THEN "write" ELSE "weigh", !.snap = snap]
  <2>1. snap \in SnapType
    BY <1>1 DEF BoardType, SnapType
  <2>2. Be(p, l) /\ proc[p].at = "read"
    BY <1>2 DEF SettleRead, At
  <2> HIDE DEF snap
  <2>3. Local(l)
    BY <1>1, <2>1, <2>2 DEF Local, Fits, Claimed
  <2> HIDE DEF l
  <2> QED
    BY <1>2, <2>2, <2>3, Becomes DEF SettleRead, Typed, TypedBoard, TypedConv, TypedClis, TypedHist, TypedRest
<1>3. CASE SettleWeigh(p)
  <2>1. proc[p].at = "weigh" /\ proc[p].snap \in SnapType
    BY <1>1, <1>3 DEF SettleWeigh, At, Local
  <2>2. PICK now \in [Msgs -> States], goes \in BOOLEAN :
            Be(p, [proc[p] EXCEPT !.at = "write", !.snap = [state |-> now, tasks |-> {}, ready |-> goes]])
    <3> DEFINE s == proc[p].snap
               outcome == conv.outcomes
               works(r) == \/ conv.busy /\ conv.request = r
                           \/ r \in Carried /\ outcome[r] = "none"
                           \/ r \in s.tasks
               stands(r) == IF s.state[r] = "none" THEN "none"
                            ELSE IF works(r) THEN "working"
                            ELSE IF outcome[r] # "none" THEN outcome[r]
                            ELSE IF s.state[r] \in {"stopped", "failed"} THEN s.state[r]
                            ELSE "done"
               st == [r \in Msgs |-> stands(r)]
               ready == s.ready /\ Carried = {} /\ ~ (conv.busy /\ conv.request # None)
    <3>1. ASSUME NEW r \in Msgs PROVE stands(r) \in States
      <4>1. outcome[r] \in {"none", "stopped", "failed"}
        BY <1>1 DEF ConvType
      <4> HIDE DEF works
      <4> QED
        BY <4>1 DEF States
    <3>2. Be(p, [proc[p] EXCEPT !.at = "write", !.snap = [state |-> st, tasks |-> {}, ready |-> ready]])
      BY <1>3 DEF SettleWeigh
    <3>3. ready \in BOOLEAN
      BY <1>1, <2>1 DEF SnapType
    <3> HIDE DEF stands, ready
    <3>4. st \in [Msgs -> States]
      BY <3>1
    <3> HIDE DEF st
    <3> QED
      BY <3>2, <3>3, <3>4
  <2> DEFINE snap == [state |-> now, tasks |-> {}, ready |-> goes]
             l == [proc[p] EXCEPT !.at = "write", !.snap = snap]
  <2>3. snap \in SnapType
    BY <2>2 DEF SnapType
  <2> HIDE DEF snap
  <2>4. Local(l)
    BY <1>1, <2>1, <2>3 DEF Local, Fits, Claimed
  <2>5. Be(p, l)
    BY <2>2 DEF snap
  <2> HIDE DEF l
  <2> QED
    BY <1>3, <2>4, <2>5, Becomes DEF SettleWeigh, Typed, TypedBoard, TypedConv, TypedClis, TypedHist, TypedRest
<1>4. CASE SettleWrite(p)
  <2>1. proc[p].at = "write" /\ proc[p].snap.state \in [Msgs -> States]
    BY <1>1, <1>4 DEF SettleWrite, At, Local, SnapType
  <2>2. board' = [board EXCEPT !.state = [r \in Msgs |-> IF proc[p].snap.state[r] = "none" THEN board.state[r]
                                                         ELSE proc[p].snap.state[r]]]
    BY <1>4 DEF SettleWrite
  <2>3. board' \in BoardType
    BY <1>1, <2>1, <2>2 DEF BoardType
  <2>4. PICK n \in Nat : kicks' = Kicked(n)
    <3> DEFINE one == IF proc[p].snap.ready /\ Working(board') = None THEN 1 ELSE 0
               two == IF proc[p].ret = "kick" THEN 1 ELSE 0
    <3>1. kicks' = Kicked(one + two)
      BY <1>4 DEF SettleWrite
    <3>2. one + two \in Nat
      OBVIOUS
    <3> QED
      BY <3>1, <3>2
  <2>5. CASE proc[p].ret \in {"off", "kick"}
    <3>1. Be(p, Off)
      BY <1>4, <2>5 DEF SettleWrite
    <3> QED
      BY <1>4, <2>3, <2>4, <3>1, OffLocal, Becomes, KickedTyped DEF SettleWrite, Typed, TypedBoard,
             TypedConv, TypedClis, TypedHist, TypedRest
  <2>6. CASE proc[p].ret \notin {"off", "kick"}
    <3> DEFINE l == [proc[p] EXCEPT !.at = proc[p].ret, !.ret = "off", !.snap = NoSnap]
    <3>1. Be(p, l)
      BY <1>4, <2>6 DEF SettleWrite
    <3>2. NoSnap \in SnapType /\ proc[p].ret \in {"start", "queue", "envelope"}
      BY <1>1, <2>6 DEF NoSnap, SnapType, States, Local
    <3>3. Local(l)
      BY <1>1, <2>1, <3>2 DEF Local, Fits, Claimed
    <3> HIDE DEF l
    <3> QED
      BY <1>4, <2>3, <2>4, <3>1, <3>3, Becomes, KickedTyped DEF SettleWrite, Typed, TypedBoard,
             TypedConv, TypedClis, TypedHist, TypedRest
  <2> QED
    BY <2>5, <2>6
<1>5. CASE SettleQueued(p)
  <2> DEFINE l == [Settle(proc[p], proc[p].ret) EXCEPT !.asked = {}]
  <2>1. Be(p, l) /\ proc[p].at = "unasked"
    BY <1>5 DEF SettleQueued, At
  <2>2. Local(l)
    BY <1>1, <2>1 DEF Local, Fits, Claimed, Settle
  <2>3. board' \in BoardType
    BY <1>1, <1>5 DEF SettleQueued, BoardType
  <2> HIDE DEF l
  <2> QED
    BY <1>5, <2>1, <2>2, <2>3, Becomes DEF SettleQueued, Typed, TypedBoard, TypedConv, TypedClis,
           TypedHist, TypedRest
<1> QED
  BY <1>2, <1>3, <1>4, <1>5

LEMMA TypedQueue ==
    ASSUME Typed, NEW d \in Drivers, QueueMayGo(d) \/ QueueReady(d) \/ QueuePeek(d) \/ QueueTake(d)
    PROVE  Typed'
<1>1. d \in Procs /\ Local(proc[d]) /\ board \in BoardType
  BY Locals DEF Typed, TypedBoard, Procs
<1>2. proc[d].at \in {"queue", "ready", "peek", "take"} /\ proc[d].users = <<>> /\ proc[d].asked = {}
  BY <1>1 DEF Local, Fits, Claimed, QueueMayGo, QueueReady, QueuePeek, QueueTake, At
<1>3. ASSUME NEW s \in {"ready", "peek"} PROVE Local([proc[d] EXCEPT !.at = s])
  BY <1>1, <1>2 DEF Local, Fits, LocalType, Claimed, Steps, OfMessage, Owning, Settling
<1>4. proc[d].at = "take" => Local([proc[d] EXCEPT !.at = "append"])
  BY <1>1, <1>2 DEF Local, Fits, LocalType, Claimed, Steps, OfMessage, Owning, Settling
<1>5. ASSUME GivesUp(d) PROVE TypedProc'
  BY <1>1, <1>2, <1>5, OffLocal, SettleLocal, Becomes DEF GivesUp, Typed
<1>6. TypedConv' /\ TypedClis' /\ TypedHist' /\ TypedRest'
  BY <1>1 DEF QueueMayGo, QueueReady, QueuePeek, QueueTake, Typed, TypedConv, TypedClis, TypedHist, TypedRest
<1>7. CASE QueueMayGo(d)
  BY <1>1, <1>3, <1>6, <1>7, OffLocal, Becomes DEF QueueMayGo, Goto, Typed, TypedBoard
<1>8. CASE QueueReady(d)
  BY <1>1, <1>3, <1>6, <1>8, OffLocal, Becomes DEF QueueReady, Goto, Typed, TypedBoard
<1>9. CASE QueuePeek(d)
  <2>1. CASE GivesUp(d)
    BY <1>5, <1>6, <1>9, <2>1 DEF QueuePeek, Typed, TypedBoard
  <2>2. CASE board.queue # <<>> /\ Be(d, [proc[d] EXCEPT !.at = "take", !.m = Head(board.queue)])
    <3> DEFINE l == [proc[d] EXCEPT !.at = "take", !.m = Head(board.queue)]
    <3>1. Head(board.queue) \in Msgs
      BY <1>1, <2>2, EndsIn DEF BoardType
    <3>2. Local(l)
      BY <1>1, <1>2, <3>1 DEF Local, Fits, LocalType, Claimed, Steps, OfMessage, Owning, Settling, Maybe
    <3>3. Be(d, l)
      BY <2>2
    <3> HIDE DEF l
    <3> QED
      BY <1>1, <1>6, <1>9, <3>2, <3>3, Becomes DEF QueuePeek, Typed, TypedBoard
  <2> QED
    BY <1>9, <2>1, <2>2 DEF QueuePeek
<1>10. CASE QueueTake(d)
  <2>1. CASE GivesUp(d) /\ UNCHANGED board
    BY <1>5, <1>6, <2>1 DEF Typed, TypedBoard
  <2>2. CASE board' = Taken(board, proc[d].m) /\ Goto(d, "append")
    BY <1>1, <1>4, <1>6, <1>10, <2>2, TakenTyped, Becomes DEF QueueTake, At, Goto, Typed, TypedBoard
  <2> QED
    BY <1>10, <2>1, <2>2 DEF QueueTake
<1> QED
  BY <1>7, <1>8, <1>9, <1>10

LEMMA TypedQueueAppend ==
    ASSUME Typed, NEW d \in Drivers, QueueAppend(d) \/ QueueAppendFails(d)
    PROVE  Typed'
<1>1. d \in Procs /\ Local(proc[d]) /\ board \in BoardType /\ conv \in ConvType
  BY Locals DEF Typed, TypedBoard, TypedConv, Procs
<1>2. proc[d].at = "append" /\ proc[d].users = <<>> /\ proc[d].asked = {} /\ proc[d].m \in Msgs
  BY <1>1 DEF Local, Fits, Claimed, QueueAppend, QueueAppendFails, At, OfMessage, Owning
<1>3. CASE QueueAppend(d)
  <2>1. board' \in BoardType /\ TypedClis' /\ TypedHist' /\ TypedRest'
    BY <1>1, <1>2, <1>3, AppendedTyped DEF QueueAppend, Typed, TypedClis, TypedHist, TypedRest
  <2>2. CASE kind = "chat"
    <3>1. Claim(d, <<proc[d].m>>, <<>>, <<>>)
      BY <1>3, <2>2 DEF QueueAppend
    <3>2. <<proc[d].m>> \in Seq(Msgs) /\ <<proc[d].m>> # <<>>
      BY <1>2
    <3> QED
      BY <1>2, <2>1, <3>1, <3>2, NothingIn, ClaimTyped DEF Typed, TypedBoard
  <2>3. CASE kind # "chat"
    <3> DEFINE l == [proc[d] EXCEPT !.at = "turn", !.m = None, !.sent = TRUE]
    <3>1. Be(d, l) /\ conv' = [conv EXCEPT !.pending = Append(@, proc[d].m)]
      BY <1>3, <2>3 DEF QueueAppend
    <3>2. conv' \in ConvType
      BY <1>1, <1>2, <3>1, AppendIn DEF ConvType
    <3>3. Local(l)
      BY <1>1, <1>2 DEF Local, Fits, LocalType, Claimed, Steps, OfMessage, Owning, Settling, Maybe
    <3> HIDE DEF l
    <3> QED
      BY <1>1, <2>1, <3>1, <3>2, <3>3, Becomes DEF Typed, TypedBoard, TypedConv
  <2> QED
    BY <2>2, <2>3
<1>4. CASE QueueAppendFails(d)
  <2>1. TypedProc'
    BY <1>1, <1>2, <1>4, OffLocal, SettleLocal, Becomes DEF QueueAppendFails, GivesUp, Typed
  <2>2. hist' \in HistType
    <3>1. Happened("nostore") \in HistType
      BY HappenedTyped DEF Typed, Mishaps
    <3> QED
      BY <1>2, <1>4, <3>1 DEF QueueAppendFails, HistType
  <2> QED
    BY <1>4, <2>1, <2>2 DEF QueueAppendFails, Typed, TypedBoard, TypedConv, TypedClis, TypedHist, TypedRest
<1> QED
  BY <1>3, <1>4

LEMMA TypedCliTurn ==
    ASSUME Typed, NEW d \in Drivers, EnsureCli(d) \/ CliFailsToStart(d) \/ SendTurn(d) \/ FailTurn(d)
    PROVE  Typed'
<1>1. /\ d \in Procs /\ Local(proc[d]) /\ conv \in ConvType /\ hist \in HistType
      /\ clis \in [Clis -> [state : CliStates, events : Seq(CliEvents)]]
  BY Locals DEF Typed, TypedConv, TypedHist, TypedClis, Procs
<1>2. proc[d].at \in {"start", "send", "fail"} /\ proc[d].asked = {}
  BY <1>1 DEF Local, Fits, EnsureCli, CliFailsToStart, SendTurn, FailTurn, At
<1>3. Local([proc[d] EXCEPT !.at = "fail"])
  BY <1>1, <1>2 DEF Local, Fits, LocalType, Claimed, Steps, OfMessage, Owning, Settling
<1>4. ASSUME NEW c \in Clis PROVE Local([proc[d] EXCEPT !.at = "send", !.cli = c])
  BY <1>1, <1>2 DEF Local, Fits, LocalType, Claimed, Steps, OfMessage, Owning, Settling, Maybe
<1>5. TypedBoard' /\ TypedRest'
  BY DEF EnsureCli, CliFailsToStart, SendTurn, FailTurn, Typed, TypedBoard, TypedRest
<1>6. CASE EnsureCli(d)
  <2>1. CASE conv.cli # None /\ Be(d, [proc[d] EXCEPT !.at = "send", !.cli = conv.cli])
               /\ UNCHANGED <<conv, clis>>
    <3>1. conv.cli \in Clis
      BY <1>1, <2>1 DEF ConvType, Maybe
    <3> QED
      BY <1>1, <1>4, <1>5, <1>6, <2>1, <3>1, Becomes DEF EnsureCli, Typed, TypedConv, TypedClis, TypedHist
  <2>2. CASE ~(conv.cli # None /\ Be(d, [proc[d] EXCEPT !.at = "send", !.cli = conv.cli])
               /\ UNCHANGED <<conv, clis>>)
    <3> DEFINE unused == {c \in Clis : clis[c].state = "none"}
               k == CHOOSE x \in unused : TRUE
    <3>1. /\ unused # {} /\ clis' = [clis EXCEPT ![k].state = "idle"]
          /\ conv' = [conv EXCEPT !.cli = k] /\ Be(d, [proc[d] EXCEPT !.at = "send", !.cli = k])
      BY <1>6, <2>2 DEF EnsureCli
    <3>2. k \in Clis
      BY <3>1
    <3> HIDE DEF k, unused
    <3>3. TypedConv'
      BY <1>1, <3>1, <3>2 DEF TypedConv, ConvType, Maybe
    <3>4. TypedClis'
      BY <1>1, <3>1, <3>2 DEF TypedClis, CliStates
    <3> QED
      BY <1>1, <1>4, <1>5, <1>6, <3>1, <3>2, <3>3, <3>4, Becomes DEF EnsureCli, Typed, TypedHist
  <2> QED
    BY <2>1, <2>2
<1>7. CASE CliFailsToStart(d)
  <2>1. TypedHist'
    BY <1>7, HappenedTyped DEF CliFailsToStart, Typed, TypedHist, Mishaps
  <2> QED
    BY <1>1, <1>3, <1>5, <1>7, <2>1, Becomes DEF CliFailsToStart, Goto, Typed, TypedConv, TypedClis
<1>8. CASE SendTurn(d)
  <2>1. proc[d].at = "send" /\ proc[d].cli \in Clis
    BY <1>1, <1>8 DEF SendTurn, At, Local, Fits
  <2>2. CASE clis[proc[d].cli].state = "gone"
    BY <1>1, <1>3, <1>5, <1>8, <2>2, Becomes DEF SendTurn, Goto, Typed, TypedConv, TypedClis, TypedHist
  <2>3. CASE clis[proc[d].cli].state # "gone"
    <3> DEFINE items == {env.item : env \in In(proc[d].envs)} \ {None}
    <3>1. /\ clis' = [clis EXCEPT ![proc[d].cli].state = "running"]
          /\ hist' = [Gave(hist, proc[d].users) EXCEPT !.told = @ \union items] /\ Be(d, Off)
      BY <1>8, <2>3 DEF SendTurn
    <3>2. items \subseteq Msgs
      <4>1. In(proc[d].envs) \subseteq Envelopes
        BY <1>1, InSet DEF Local, LocalType
      <4> QED
        BY <4>1 DEF Envelopes
    <3> HIDE DEF items
    <3>3. TypedHist'
      BY <1>1, <3>1, <3>2, GaveTyped DEF TypedHist, HistType
    <3>4. TypedClis'
      BY <1>1, <2>1, <3>1 DEF TypedClis, CliStates
    <3> QED
      BY <1>1, <1>5, <1>8, <3>1, <3>3, <3>4, OffLocal, Becomes DEF SendTurn, Typed, TypedConv
  <2> QED
    BY <2>2, <2>3
<1>9. CASE FailTurn(d)
  <2>1. proc[d].users \o conv.pending \in Seq(Msgs) /\ proc[d].envs \o conv.inbox \in Seq(Envelopes)
    BY <1>1, ConcatIn DEF Local, LocalType, ConvType
  <2>2. TypedConv'
    BY <1>1, <1>9, <2>1 DEF FailTurn, TypedConv, ConvType, Maybe
  <2>3. Local(Unask(conv.asked, "off")) /\ Be(d, Unask(conv.asked, "off"))
    BY <1>1, <1>9, UnaskLocal DEF FailTurn, ConvType
  <2> QED
    BY <1>1, <1>5, <1>9, <2>2, <2>3, Becomes DEF FailTurn, Typed, TypedClis, TypedHist
<1> QED
  BY <1>6, <1>7, <1>8, <1>9

(* Records of a step made from Off. *)
LEMMA FromOff ==
    ASSUME NEW s \in Steps, NEW m \in Maybe(Msgs), NEW w \in Maybe(Msgs), NEW steer \in BOOLEAN,
           s # "off", s # "unasked", s # "note", s # "send", s # "stop",
           s \in OfMessage => m \in Msgs,
           s \in {"ask", "reported", "envelope"} => w \in Msgs
    PROVE  /\ Local([Off EXCEPT !.at = s, !.m = m, !.steer = steer, !.work = w])
           /\ Local([Off EXCEPT !.at = s, !.m = m, !.work = w])
           /\ s \notin {"ask", "reported", "envelope"} => Local([Off EXCEPT !.at = s, !.m = m, !.steer = steer])
           /\ s \notin OfMessage => Local([Off EXCEPT !.at = s, !.work = w])
<1>1. Off \in LocalType /\ Off.ret = "off" /\ Off.users = <<>> /\ Off.asked = {}
  BY OffLocal DEF Local, Off
<1>2. Off.work = None
  BY DEF Off
<1> DEFINE Good(l) == l \in LocalType /\ l.at = s /\ (s \in OfMessage => l.m \in Msgs) /\ l.ret = "off"
                       /\ l.users = <<>> /\ l.asked = {}
<1>3. ASSUME NEW l, Good(l), l.work \in Msgs \/ s \notin {"ask", "reported", "envelope"} PROVE Local(l)
  BY <1>3 DEF Local, Fits
<1>4. /\ Good([Off EXCEPT !.at = s, !.m = m, !.steer = steer, !.work = w])
      /\ Good([Off EXCEPT !.at = s, !.m = m, !.work = w])
        /\ Good([Off EXCEPT !.at = s, !.m = m, !.steer = steer])
      /\ s \notin OfMessage => Good([Off EXCEPT !.at = s, !.work = w])
  BY <1>1, <1>2 DEF LocalType, Maybe
<1>5. /\ [Off EXCEPT !.at = s, !.m = m, !.steer = steer, !.work = w].work = w
      /\ [Off EXCEPT !.at = s, !.m = m, !.work = w].work = w /\ [Off EXCEPT !.at = s, !.work = w].work = w
  BY <1>1 DEF LocalType
<1> HIDE DEF Good
<1> QED
  BY <1>3, <1>4, <1>5

LEMMA NoteLocal ==
    ASSUME NEW l, Local(l), l.at \in {"off", "join"}, NEW m \in Msgs, NEW w \in Maybe(Msgs),
           NEW r \in {"off", "kick"}
    PROVE  Local([l EXCEPT !.at = "note", !.m = m, !.work = w, !.ret = r])
<1>1. l \in LocalType /\ l.users = <<>> /\ l.asked = {}
  BY DEF Local, Fits, Claimed
<1>2. r \in Rets /\ "note" \in Steps
  BY DEF Rets, Steps, OfMessage
<1> QED
  BY <1>1, <1>2 DEF Local, Fits, LocalType, Claimed, Maybe, Settling

LEMMA FreshIsNew ==
    ASSUME TypedHist, NEW m \in Msgs, m = Fresh
    PROVE  m \notin hist.sent
<1>1. None \notin Msgs
  BY DriverAssumption
<1>2. hist.sent # Msgs
  BY <1>1 DEF Fresh
<1>3. \E x \in Msgs : x \notin hist.sent
  BY <1>2 DEF TypedHist, HistType
<1> QED
  BY <1>2, <1>3 DEF Fresh

LEMMA SteeredTyped ==
    ASSUME Typed, CliTakes
    PROVE  /\ Steered \in [Clis -> [state : CliStates, events : Seq(CliEvents)]]
           /\ conv.cli \in Clis /\ clis[conv.cli].state # "gone"
<1>1. conv.cli \in Clis
  BY DEF Typed, TypedConv, ConvType, CliTakes, Maybe
<1> QED
  BY <1>1 DEF Steered, Typed, TypedClis, CliStates, CliTakes

LEMMA TypedChatSends ==
    ASSUME Typed, NEW p \in Callers, NEW m \in Msgs, NEW steer \in BOOLEAN, ChatSends(p, m, steer)
    PROVE  Typed'
<1>1. p \in Procs /\ Local(proc[p]) /\ board \in BoardType /\ conv \in ConvType /\ hist \in HistType
  BY Locals DEF Typed, TypedBoard, TypedConv, TypedHist, Procs
<1>2. proc[p] = Off
  BY <1>1 DEF ChatSends, At, Local, Fits
<1>3. Appended(board, m) \in BoardType /\ [board EXCEPT !.queue = Append(@, m)] \in BoardType
  BY <1>1, AppendedTyped, AppendIn DEF BoardType
<1>4. [conv EXCEPT !.pending = Append(@, m)] \in ConvType /\ [conv EXCEPT !.request = m] \in ConvType
  BY <1>1, AppendIn DEF ConvType, Maybe
<1>5. [hist EXCEPT !.sent = @ \union {m}] \in HistType
        /\ [Gave(hist, <<m>>) EXCEPT !.sent = @ \union {m}] \in HistType
  BY <1>1, GaveTyped DEF HistType
<1>6. kind' \in Kinds /\ lock' \in Drivers \union {None}
  BY DEF ChatSends, Typed, TypedRest
<1>7. board' \in BoardType /\ hist' \in HistType /\ conv' \in ConvType /\ kicks' \in 0 .. MaxKicks
  BY <1>1, <1>3, <1>4, <1>5, KickedTyped DEF ChatSends, Typed, TypedRest
<1>8. TypedClis'
  BY SteeredTyped DEF ChatSends, Typed, TypedClis
<1>9. TypedProc'
  <2>1. CASE UNCHANGED proc
    BY <2>1 DEF Typed, TypedProc
  <2>2. CASE Be(p, Settle(Off, "off"))
    <3>1. Local(Settle(Off, "off"))
      BY OffLocal, SettleLocal DEF Off
    <3> QED
      BY <1>1, <2>2, <3>1, Becomes DEF Typed
  <2>3. CASE Be(p, [Off EXCEPT !.at = "note", !.m = m, !.work = conv.request, !.ret = "off"])
    <3> DEFINE l == [Off EXCEPT !.at = "note", !.m = m, !.work = conv.request, !.ret = "off"]
    <3>1. Local(l)
      BY <1>1, OffLocal, NoteLocal DEF ConvType, Off
    <3>2. Be(p, l)
      BY <2>3
    <3> HIDE DEF l
    <3> QED
      BY <1>1, <3>1, <3>2, Becomes DEF Typed
  <2> QED
    BY <2>1, <2>2, <2>3 DEF ChatSends
<1> QED
  BY <1>6, <1>7, <1>8, <1>9 DEF Typed, TypedBoard, TypedConv, TypedHist, TypedRest

LEMMA TypedSessionSends ==
    ASSUME Typed, NEW p \in Callers,
           \/ \E m \in Msgs, steer \in BOOLEAN : SessionSends(p, m, steer)
           \/ SessionBusy(p) \/ SessionPlaces(p) \/ SessionPushes(p) \/ AskFollowUp(p)
    PROVE  Typed'
<1>1. p \in Procs /\ Local(proc[p]) /\ board \in BoardType /\ conv \in ConvType /\ hist \in HistType
  BY Locals DEF Typed, TypedBoard, TypedConv, TypedHist, Procs
<1>2. TypedRest'
  BY KickedTyped DEF SessionSends, SessionBusy, SessionPlaces, SessionPushes, AskFollowUp, Typed, TypedRest
<1>3. ASSUME NEW m \in Msgs, NEW steer \in BOOLEAN, SessionSends(p, m, steer) PROVE Typed'
  <2> DEFINE l == [Off EXCEPT !.at = "busy?", !.m = m, !.steer = steer, !.work = Working(board)]
  <2>1. Working(board) \in Maybe(Msgs)
    BY WorkingTyped DEF Typed
  <2>2. Local(l)
    BY <2>1, FromOff DEF Steps, OfMessage, Owning, Maybe
  <2>3. Be(p, l)
    BY <1>3 DEF SessionSends
  <2> HIDE DEF l
  <2>4. TypedProc'
    BY <1>1, <2>2, <2>3, Becomes DEF Typed
  <2>5. TypedHist'
    BY <1>1, <1>3 DEF SessionSends, TypedHist, HistType
  <2> QED
    BY <1>2, <1>3, <2>4, <2>5 DEF SessionSends, Typed, TypedBoard, TypedConv, TypedClis
<1>4. CASE SessionBusy(p)
  <2> DEFINE l == [proc[p] EXCEPT !.at = "place", !.busy = conv.busy]
  <2>1. Be(p, l) /\ proc[p].at = "busy?"
    BY <1>4 DEF SessionBusy, At
  <2>2. Local(l)
    BY <1>1, <2>1 DEF Local, Fits, LocalType, Claimed, Steps, OfMessage, Owning, Settling, ConvType
  <2> HIDE DEF l
  <2> QED
    BY <1>1, <1>2, <1>4, <2>1, <2>2, Becomes DEF SessionBusy, Typed, TypedBoard, TypedConv, TypedClis, TypedHist
<1>5. CASE SessionPlaces(p)
  <2>1. proc[p].at = "place" /\ proc[p].m \in Msgs /\ proc[p].users = <<>> /\ proc[p].asked = {}
    BY <1>1, <1>5 DEF SessionPlaces, At, Local, Fits, Claimed, OfMessage, Owning
  <2>2. ASSUME NEW s \in {"join", "push", "ask"}, s = "ask" => proc[p].work \in Msgs
        PROVE  Local([proc[p] EXCEPT !.at = s])
    BY <1>1, <2>1, <2>2 DEF Local, Fits, LocalType, Claimed, Steps, OfMessage, Owning, Settling
  <2>3. proc[p].work # None => proc[p].work \in Msgs
    BY <1>1 DEF Local, LocalType, Maybe
  <2>4. TypedProc'
    <3>1. CASE Goto(p, "join")
      BY <1>1, <2>2, <3>1, Becomes DEF Goto, Typed
    <3>2. CASE Goto(p, "push")
      BY <1>1, <2>2, <3>2, Becomes DEF Goto, Typed
    <3>3. CASE Goto(p, "ask") /\ proc[p].work # None
      BY <1>1, <2>2, <2>3, <3>3, Becomes DEF Goto, Typed
    <3>4. CASE Be(p, Off)
      BY <1>1, <3>4, OffLocal, Becomes DEF Typed
    <3> QED
      BY <1>5, <3>1, <3>2, <3>3, <3>4 DEF SessionPlaces
  <2>5. /\ Appended(board, proc[p].m) \in BoardType /\ Append(board.queue, proc[p].m) \in Seq(Msgs)
    BY <1>1, <2>1, AppendedTyped, AppendIn DEF BoardType
  <2>6. board' \in BoardType
    <3>1. [board EXCEPT !.queue = Append(@, proc[p].m)] \in BoardType
      BY <1>1, <2>5 DEF BoardType
    <3>2. [[board EXCEPT !.queue = Append(@, proc[p].m)] EXCEPT !.deciding = @ \union {proc[p].m}] \in BoardType
      BY <1>1, <2>1, <2>5 DEF BoardType
    <3> QED
      BY <1>5, <2>5, <3>1, <3>2 DEF SessionPlaces
  <2> QED
    BY <1>2, <1>5, <2>4, <2>6 DEF SessionPlaces, Typed, TypedBoard, TypedConv, TypedClis, TypedHist
<1>6. CASE SessionPushes(p)
  <2>1. proc[p].m \in Msgs
    BY <1>1, <1>6 DEF SessionPushes, At, Local, Fits, OfMessage, Owning
  <2>2. TypedConv'
    BY <1>1, <1>6, <2>1, AppendIn DEF SessionPushes, TypedConv, ConvType
  <2> QED
    BY <1>1, <1>2, <1>6, <2>2, OffLocal, Becomes DEF SessionPushes, Typed, TypedBoard, TypedClis, TypedHist
<1>7. CASE AskFollowUp(p)
  <2>1. proc[p].at = "ask" /\ proc[p].m \in Msgs /\ proc[p].work \in Msgs /\ proc[p].users = <<>>
          /\ proc[p].asked = {}
    BY <1>1, <1>7 DEF AskFollowUp, At, Local, Fits, Claimed, OfMessage, Owning, Settling
  <2>2. Local([proc[p] EXCEPT !.at = "envelope"])
    BY <1>1, <2>1 DEF Local, Fits, LocalType, Claimed, Steps, OfMessage, Owning, Settling
  <2>3. CASE CliTakes
    <3>1. /\ conv' = [conv EXCEPT !.asked = @ \union {proc[p].m}]
          /\ hist' = [hist EXCEPT !.told = @ \union {proc[p].m}] /\ clis' = Steered /\ Be(p, Off)
      BY <1>7, <2>3 DEF AskFollowUp
    <3>3. TypedConv'
      BY <1>1, <2>1, <3>1 DEF TypedConv, ConvType
    <3>4. TypedHist'
      BY <1>1, <2>1, <3>1 DEF TypedHist, HistType
    <3>2. TypedClis'
      BY <1>7, <2>3, SteeredTyped DEF AskFollowUp, TypedClis
    <3> QED
      BY <1>1, <1>2, <1>7, <3>1, <3>2, <3>3, <3>4, OffLocal, Becomes DEF AskFollowUp, Typed, TypedBoard
  <2>4. CASE ~CliTakes
    <3> DEFINE pair == <<proc[p].m, proc[p].work>>
    <3>2. pair \in Msgs \X Msgs /\ conv' = [conv EXCEPT !.asking = @ \union {pair}]
      BY <1>7, <2>1, <2>4 DEF AskFollowUp
    <3> HIDE DEF pair
    <3>1. TypedConv'
      BY <1>1, <3>2 DEF TypedConv, ConvType
    <3> QED
      BY <1>1, <1>2, <1>7, <2>2, <2>4, <3>1, Becomes DEF AskFollowUp, Goto, Typed, TypedBoard,
             TypedClis, TypedHist
  <2> QED
    BY <2>3, <2>4
<1> QED
  BY <1>3, <1>4, <1>5, <1>6, <1>7

LEMMA TypedUser ==
    ASSUME Typed, NEW p \in Callers,
           \/ \E m \in Msgs : SteerQueued(p, m) \/ DeleteQueued(p, m) \/ MoveQueued(p, m)
           \/ Interrupt(p) \/ InterruptPauses(p) \/ InterruptStops(p) \/ ResumeQueue(p)
    PROVE  Typed'
<1>1. p \in Procs /\ Local(proc[p]) /\ board \in BoardType /\ conv \in ConvType /\ hist \in HistType
  BY Locals DEF Typed, TypedBoard, TypedConv, TypedHist, Procs
<1>2. TypedRest' /\ TypedConv'
  BY KickedTyped DEF SteerQueued, DeleteQueued, MoveQueued, Interrupt, InterruptPauses, InterruptStops,
                     ResumeQueue, Typed, TypedRest, TypedConv
<1>3. ASSUME NEW m \in Msgs, SteerQueued(p, m) PROVE Typed'
  <2> DEFINE l == [Off EXCEPT !.at = "take", !.m = m, !.work = Working(board)]
  <2>1. Local(l)
    BY WorkingTyped, FromOff DEF Typed, Steps, OfMessage, Owning, Maybe
  <2>2. Be(p, l)
    BY <1>3 DEF SteerQueued
  <2> HIDE DEF l
  <2> QED
    BY <1>1, <1>2, <1>3, <2>1, <2>2, Becomes DEF SteerQueued, Typed, TypedBoard, TypedClis, TypedHist
<1>4. ASSUME NEW m \in Msgs, DeleteQueued(p, m) PROVE Typed'
  <2>1. TypedHist'
    BY <1>1, <1>4 DEF DeleteQueued, TypedHist, HistType
  <2>2. TypedBoard'
    BY <1>1, <1>4, TakenTyped DEF DeleteQueued, TypedBoard
  <2> QED
    BY <1>2, <1>4, <2>1, <2>2 DEF DeleteQueued, Typed, TypedClis, TypedProc
<1>5. ASSUME NEW m \in Msgs, MoveQueued(p, m) PROVE Typed'
  <2>1. <<m>> \o Without(board.queue, m) \in Seq(Msgs)
    BY <1>1, WithoutIn, ConcatIn DEF BoardType
  <2>2. TypedBoard'
    BY <1>1, <1>5, <2>1 DEF MoveQueued, TypedBoard, BoardType
  <2> QED
    BY <1>2, <1>5, <2>2 DEF MoveQueued, Typed, TypedClis, TypedProc, TypedHist
<1>6. CASE Interrupt(p)
  <2> DEFINE l == [Off EXCEPT !.at = "pause", !.cli = conv.cli]
  <2>1. Local(l)
    <3>1. Off \in LocalType /\ Off.ret = "off" /\ Off.users = <<>> /\ Off.asked = {}
      BY OffLocal DEF Local, Off
    <3>2. conv.cli \in Maybe(Clis)
      BY <1>1 DEF ConvType
    <3> QED
      BY <3>1, <3>2 DEF Local, Fits, LocalType, Steps, OfMessage, Owning
  <2>2. Be(p, l)
    BY <1>6 DEF Interrupt
  <2> HIDE DEF l
  <2>3. TypedHist'
    BY <1>6, HappenedTyped DEF Interrupt, Typed, TypedHist, Mishaps
  <2> QED
    BY <1>1, <1>2, <1>6, <2>1, <2>2, <2>3, Becomes DEF Interrupt, Typed, TypedBoard, TypedClis
<1>7. CASE InterruptPauses(p)
  <2>1. proc[p].at = "pause" /\ proc[p].users = <<>> /\ proc[p].asked = {}
    BY <1>1, <1>7 DEF InterruptPauses, At, Local, Fits, Claimed
  <2>2. proc[p].cli # None => Local([proc[p] EXCEPT !.at = "stop"])
    BY <1>1, <2>1 DEF Local, Fits, LocalType, Claimed, Steps, OfMessage, Owning, Settling, Maybe
  <2>3. TypedBoard'
    BY <1>1, <1>7 DEF InterruptPauses, TypedBoard, BoardType
  <2>4. TypedProc'
    BY <1>1, <1>7, <2>2, OffLocal, Becomes DEF InterruptPauses, Goto, Typed
  <2> QED
    BY <1>2, <1>7, <2>3, <2>4 DEF InterruptPauses, Typed, TypedClis, TypedHist
<1>8. CASE InterruptStops(p)
  <2>1. proc[p].cli \in Clis
    BY <1>1, <1>8 DEF InterruptStops, At, Local, Fits
  <2>2. TypedClis'
    <3>1. Append(clis[proc[p].cli].events, "stopped") \in Seq(CliEvents)
      BY <2>1, AppendIn DEF Typed, TypedClis, CliEvents
    <3> QED
      BY <1>8, <2>1, <3>1 DEF InterruptStops, Typed, TypedClis, CliStates
  <2> QED
    BY <1>1, <1>2, <1>8, <2>2, OffLocal, Becomes DEF InterruptStops, Typed, TypedBoard, TypedHist
<1>9. CASE ResumeQueue(p)
  <2>1. TypedBoard'
    BY <1>1, <1>9 DEF ResumeQueue, TypedBoard, BoardType
  <2> QED
    BY <1>2, <1>9, <2>1 DEF ResumeQueue, Typed, TypedClis, TypedProc, TypedHist
<1> QED
  BY <1>3, <1>4, <1>5, <1>6, <1>7, <1>8, <1>9

LEMMA TypedCli ==
    ASSUME Typed, NEW c \in Clis, Cli(c)
    PROVE  Typed'
<1>1. /\ c \in Procs /\ conv \in ConvType /\ hist \in HistType
      /\ clis \in [Clis -> [state : CliStates, events : Seq(CliEvents)]]
  BY DEF Typed, TypedConv, TypedHist, TypedClis, Procs
<1>2. TypedRest' /\ TypedBoard'
  BY DEF Cli, TurnEnds, CliExits, TurnCompleted, PumpEnds, Typed, TypedRest, TypedBoard
<1>3. CASE TurnEnds(c)
  <2>1. Append(clis[c].events, "completed") \in Seq(CliEvents)
    BY <1>1, AppendIn DEF CliEvents
  <2>2. TypedClis'
    BY <1>1, <1>3, <2>1 DEF TurnEnds, TypedClis, CliStates
  <2> QED
    BY <1>2, <1>3, <2>2 DEF TurnEnds, Typed, TypedConv, TypedProc, TypedHist
<1>4. CASE CliExits(c)
  <2>1. Append(clis[c].events, "exited") \in Seq(CliEvents)
    BY <1>1, AppendIn DEF CliEvents
  <2>2. TypedClis'
    BY <1>1, <1>4, <2>1 DEF CliExits, TypedClis, CliStates
  <2>3. TypedHist'
    BY <1>4, HappenedTyped DEF CliExits, Typed, TypedHist, Mishaps
  <2> QED
    BY <1>2, <1>4, <2>2, <2>3 DEF CliExits, Typed, TypedConv, TypedProc
<1>5. ASSUME FirstOf(clis[c].events) \in CliEvents, clis' = Read(c)
      PROVE  TypedClis'
  <2>2. CASE clis[c].events # <<>>
    <3>1. Tail(clis[c].events) \in Seq(CliEvents)
      BY <1>1, <2>2, EndsIn
    <3> QED
      BY <1>1, <1>5, <3>1 DEF Read, TypedClis
  <2>3. CASE clis[c].events = <<>>
    BY <1>5, <2>3, DriverAssumption DEF FirstOf, CliEvents
  <2> QED
    BY <2>2, <2>3
<1>6. CASE TurnCompleted(c)
  <2>1. TypedConv'
    BY <1>1, <1>6 DEF TurnCompleted, TypedConv, ConvType, Maybe
  <2>2. TypedClis'
    BY <1>5, <1>6 DEF TurnCompleted, CliEvents
  <2>3. Local(Unask(conv.asked, "kick"))
    BY <1>1, UnaskLocal DEF ConvType
  <2> QED
    BY <1>1, <1>2, <1>6, <2>1, <2>2, <2>3, Becomes DEF TurnCompleted, Typed, TypedHist
<1>7. CASE PumpEnds(c)
  <2>1. TypedConv'
    BY <1>1, <1>7 DEF PumpEnds, TypedConv, ConvType, Maybe
  <2>2. TypedClis'
    BY <1>5, <1>7 DEF PumpEnds, CliEvents
  <2>3. Local(Settle(Off, "off"))
    BY OffLocal, SettleLocal DEF Off
  <2> QED
    BY <1>1, <1>2, <1>7, <2>1, <2>2, <2>3, Becomes DEF PumpEnds, Typed, TypedHist
<1> QED
  BY <1>3, <1>4, <1>6, <1>7 DEF Cli

LEMMA TypedOrchestrator ==
    ASSUME Typed, Orchestrator
    PROVE  Typed'
<1>1. /\ Tool \in Procs /\ Worker \in Procs /\ Local(proc[Tool]) /\ Local(proc[Worker])
      /\ board \in BoardType /\ conv \in ConvType /\ hist \in HistType
  BY Locals DEF Typed, TypedBoard, TypedConv, TypedHist, Procs
<1>2. TypedRest' /\ TypedClis'
  BY DEF Orchestrator, RouteFollowUp, Routed, TaskStarts, TaskAnnounced, TaskReported, Typed,
         TypedRest, TypedClis
<1>3. ASSUME NEW m \in Msgs, NEW joins \in BOOLEAN, RouteFollowUp(m, joins) PROVE Typed'
  <2> DEFINE l == [Off EXCEPT !.at = "routed", !.m = m, !.steer = joins]
  <2>1. Local(l)
    BY FromOff DEF Steps, OfMessage, Owning, Maybe
  <2>2. Be(Tool, l)
    BY <1>3 DEF RouteFollowUp
  <2> HIDE DEF l
  <2>3. conv' \in ConvType
    BY <1>1, <1>3 DEF RouteFollowUp, ConvType
  <2> QED
    BY <1>1, <1>2, <1>3, <2>1, <2>2, <2>3, Becomes DEF RouteFollowUp, Typed, TypedBoard, TypedConv, TypedHist
<1>4. CASE Routed
  <2>1. proc[Tool].m \in Msgs
    BY <1>1, <1>4 DEF Routed, At, Local, Fits, OfMessage
  <2> DEFINE l == [Off EXCEPT !.at = "take", !.m = proc[Tool].m, !.work = Working(board)]
  <2>2. Local(l)
    BY <2>1, WorkingTyped, FromOff DEF Typed, Steps, OfMessage, Owning, Maybe
  <2>3. Be(Tool, l) \/ Be(Tool, Off)
    BY <1>4 DEF Routed
  <2> HIDE DEF l
  <2>4. TypedProc'
    BY <1>1, <2>2, <2>3, OffLocal, Becomes DEF Typed
  <2>5. TypedBoard'
    BY <1>1, <1>4 DEF Routed, TypedBoard, BoardType
  <2> QED
    BY <1>2, <1>4, <2>4, <2>5 DEF Routed, Typed, TypedConv, TypedHist
<1>5. CASE TaskStarts
  <2>1. TypedHist'
    BY <1>5, HappenedTyped DEF TaskStarts, Typed, TypedHist, Mishaps
  <2>2. TypedBoard'
    <3>1. conv.request \in Msgs
      BY <1>1, <1>5 DEF TaskStarts, ConvType, Maybe
    <3> QED
      BY <1>1, <1>5, <3>1 DEF TaskStarts, TypedBoard, BoardType
  <2> QED
    BY <1>2, <1>5, <2>1, <2>2 DEF TaskStarts, Typed, TypedConv, TypedProc
<1>6. ASSUME NEW r \in Msgs, TaskAnnounced(r) PROVE Typed'
  <2> DEFINE l == [Off EXCEPT !.at = "reported", !.work = r]
  <2>1. Local(l)
    BY FromOff DEF Steps, OfMessage, Owning, Settling, Maybe
  <2>2. Be(Worker, l)
    BY <1>6 DEF TaskAnnounced
  <2> HIDE DEF l
  <2>3. conv' \in ConvType
    BY <1>1, <1>6 DEF TaskAnnounced, ConvType
  <2> QED
    BY <1>1, <1>2, <1>6, <2>1, <2>2, <2>3, Becomes DEF TaskAnnounced, Typed, TypedBoard, TypedConv, TypedHist
<1>7. CASE TaskReported
  <2>1. proc[Worker].at = "reported" /\ proc[Worker].users = <<>> /\ proc[Worker].asked = {}
          /\ proc[Worker].work \in Msgs
    BY <1>1, <1>7 DEF TaskReported, At, Local, Fits, Claimed
  <2> DEFINE l == Settle(proc[Worker], "envelope")
  <2>2. Local(l)
    <3>1. Local(proc[Worker])
      BY <1>1
    <3> HIDE DEF l
    <3>2. ASSUME NEW w, Local(w), w.work \in Msgs, w.users = <<>>, w.asked = {} PROVE Local(Settle(w, "envelope"))
      <4> DEFINE r == Settle(w, "envelope")
      <4>1. /\ r.at = "read" /\ r.ret = "envelope" /\ r.users = <<>> /\ r.asked = {} /\ r.work = w.work
            /\ r.m = w.m /\ r \in LocalType
        BY <3>2 DEF Settle, Local, LocalType, Steps, Rets, Settling
      <4> HIDE DEF r
      <4> QED
        BY <3>2, <4>1 DEF Local, Fits, Claimed, OfMessage, Owning, Settling, r
    <3> QED
      BY <2>1, <3>1, <3>2 DEF l
  <2>3. Be(Worker, l)
    BY <1>7 DEF TaskReported
  <2> HIDE DEF l
  <2>4. TypedBoard'
    BY <1>1, <1>7 DEF TaskReported, TypedBoard, BoardType
  <2> QED
    BY <1>1, <1>2, <1>7, <2>2, <2>3, <2>4, Becomes DEF TaskReported, Typed, TypedConv, TypedHist
<1> QED
  BY <1>3, <1>4, <1>5, <1>6, <1>7 DEF Orchestrator

LEMMA TypedCommon ==
    ASSUME Typed, NEW p \in Procs,
           Deliver(p) \/ TakesQueued(p) \/ AppendsTaken(p) \/ TakenAppendFails(p) \/ JoinWorking(p)
             \/ NoteSteered(p)
    PROVE  Typed'
<1>1. Local(proc[p]) /\ board \in BoardType /\ conv \in ConvType /\ hist \in HistType
  BY Locals DEF Typed, TypedBoard, TypedConv, TypedHist
<1>2. TypedRest'
  BY DEF Deliver, TakesQueued, AppendsTaken, TakenAppendFails, JoinWorking, NoteSteered, Typed, TypedRest
<1>3. ASSUME NEW r \in {"off", "kick"} PROVE Local(Settle(Off, r))
  BY OffLocal, SettleLocal DEF Off
<1>4. proc[p].at \in {"envelope", "take", "append", "join", "note"} /\ proc[p].users = <<>>
        /\ proc[p].asked = {}
  BY <1>1 DEF Deliver, TakesQueued, AppendsTaken, TakenAppendFails, JoinWorking, NoteSteered, At,
         Local, Fits, Claimed
<1>5. ASSUME NEW s \in {"append", "join"}, proc[p].at \in {"take", "append"}, proc[p].m \in Msgs
      PROVE  Local([proc[p] EXCEPT !.at = s])
  BY <1>1, <1>4, <1>5 DEF Local, Fits, LocalType, Claimed, Steps, OfMessage, Owning, Settling
<1>6. proc[p].at \in OfMessage => proc[p].m \in Msgs
  BY <1>1 DEF Local, Fits
<1>7. CASE Deliver(p)
  <2> DEFINE env == [of |-> proc[p].work, item |-> proc[p].m]
  <2>1. env \in Envelopes
    BY <1>1, <1>7 DEF Deliver, At, Local, Fits, LocalType, Maybe, Envelopes
  <2>2. Append(conv.inbox, env) \in Seq(Envelopes)
    BY <1>1, <2>1, AppendIn DEF ConvType
  <2>3. conv' = [conv EXCEPT !.inbox = Append(@, env), !.announcing = IF p = Worker THEN {} ELSE @]
    BY <1>7 DEF Deliver
  <2> HIDE DEF env
  <2>4. TypedConv'
    BY <1>1, <2>2, <2>3 DEF TypedConv, ConvType
  <2> QED
    BY <1>2, <1>3, <1>7, <2>4, Becomes DEF Deliver, Typed, TypedBoard, TypedClis, TypedHist
<1>8. CASE TakesQueued(p)
  <2>1. TypedProc'
    BY <1>1, <1>5, <1>6, <1>8, OffLocal, Becomes DEF TakesQueued, At, Goto, OfMessage, Typed
  <2>2. TypedBoard'
    BY <1>1, <1>8, TakenTyped DEF TakesQueued, TypedBoard
  <2> QED
    BY <1>2, <1>8, <2>1, <2>2 DEF TakesQueued, Typed, TypedConv, TypedClis, TypedHist
<1>9. CASE AppendsTaken(p)
  <2>1. proc[p].m \in Msgs
    BY <1>6, <1>9 DEF AppendsTaken, At, OfMessage, Owning
  <2>2. TypedProc'
    BY <1>1, <1>5, <1>9, <2>1, Becomes DEF AppendsTaken, At, Goto, Typed
  <2>3. TypedBoard'
    BY <1>1, <1>9, <2>1, AppendedTyped DEF AppendsTaken, TypedBoard
  <2> QED
    BY <1>2, <1>9, <2>2, <2>3 DEF AppendsTaken, Typed, TypedConv, TypedClis, TypedHist
<1>10. CASE TakenAppendFails(p)
  <2>1. proc[p].m \in Msgs
    BY <1>6, <1>10 DEF TakenAppendFails, At, OfMessage, Owning
  <2>2. Happened("nostore") \in HistType
    BY HappenedTyped DEF Typed, Mishaps
  <2>3. TypedHist'
    BY <1>10, <2>1, <2>2 DEF TakenAppendFails, TypedHist, HistType
  <2> QED
    BY <1>2, <1>10, <2>3, OffLocal, Becomes DEF TakenAppendFails, Typed, TypedBoard, TypedConv, TypedClis
<1>11. CASE JoinWorking(p)
  <2>1. proc[p].m \in Msgs /\ proc[p].at = "join"
    BY <1>6, <1>11 DEF JoinWorking, At, OfMessage, Owning
  <2>2. CASE CliTakes
    <3> DEFINE l == [proc[p] EXCEPT !.at = "note", !.work = conv.request, !.ret = "off"]
    <3>1. /\ conv' = [conv EXCEPT !.request = proc[p].m] /\ clis' = Steered /\ hist' = Gave(hist, <<proc[p].m>>)
          /\ Be(p, l)
      BY <1>11, <2>2 DEF JoinWorking
    <3>2. Local(l)
      BY <1>1, <1>4, <2>1 DEF Local, Fits, LocalType, ConvType, Claimed, Steps, Rets, OfMessage,
             Owning, Settling
    <3> HIDE DEF l
    <3>3. TypedConv' /\ TypedHist'
      BY <1>1, <2>1, <3>1, GaveTyped DEF TypedConv, ConvType, Maybe, TypedHist
    <3>4. TypedClis'
      BY <2>2, <3>1, SteeredTyped DEF TypedClis
    <3> QED
      BY <1>2, <1>11, <3>1, <3>2, <3>3, <3>4, Becomes DEF JoinWorking, Typed, TypedBoard
  <2>3. CASE ~CliTakes
    <3> DEFINE l == [proc[p] EXCEPT !.at = "note", !.ret = "kick"]
    <3>1. conv' = [conv EXCEPT !.pending = Append(@, proc[p].m)] /\ UNCHANGED <<clis, hist>> /\ Be(p, l)
      BY <1>11, <2>3 DEF JoinWorking
    <3>2. Local(l)
      BY <1>1, <1>4, <2>1 DEF Local, Fits, LocalType, Claimed, Steps, Rets, OfMessage, Owning, Settling
    <3> HIDE DEF l
    <3>3. TypedConv'
      BY <1>1, <2>1, <3>1, AppendIn DEF TypedConv, ConvType
    <3> QED
      BY <1>2, <1>11, <3>1, <3>2, <3>3, Becomes DEF JoinWorking, Typed, TypedBoard, TypedClis, TypedHist
  <2> QED
    BY <2>2, <2>3
<1>12. CASE NoteSteered(p)
  <2>1. proc[p].m \in Msgs /\ proc[p].work \in Maybe(Msgs)
    BY <1>1, <1>6, <1>12 DEF NoteSteered, At, OfMessage, Local, LocalType
  <2>2. TypedBoard'
    BY <1>1, <1>12, <2>1 DEF NoteSteered, TypedBoard, BoardType
  <2>3. Be(p, Settle(Off, proc[p].ret)) /\ proc[p].ret \in {"off", "kick"}
    BY <1>1, <1>12 DEF NoteSteered, At, Local, Fits
  <2> QED
    BY <1>2, <1>3, <1>12, <2>2, <2>3, Becomes DEF NoteSteered, Typed, TypedConv, TypedClis, TypedHist
<1> QED
  BY <1>7, <1>8, <1>9, <1>10, <1>11, <1>12

LEMMA TypedRestart == ASSUME Typed, Restart PROVE Typed'
<1>1. TypedBoard'
  BY DEF Restart, Typed, TypedBoard, BoardType
<1>2. TypedConv'
  BY NothingIn DEF Restart, ConvDefault, TypedConv, ConvType, Maybe
<1>3. TypedClis'
  BY NothingIn DEF Restart, Typed, TypedClis, CliStates
<1>4. TypedProc'
  <2>1. Local(Settle(Off, "off"))
    BY OffLocal, SettleLocal DEF Off
  <2> HIDE DEF Fits
  <2> QED
    BY <2>1, OffLocal DEF Restart, TypedProc, Local
<1>5. TypedHist'
  BY HappenedTyped DEF Restart, Typed, TypedHist, Mishaps
<1>6. TypedRest'
  BY DriverAssumption DEF Restart, Typed, TypedRest
<1> QED
  BY <1>1, <1>2, <1>3, <1>4, <1>5, <1>6 DEF Typed

LEMMA TypedInit == Init => Typed
<1> SUFFICES ASSUME Init PROVE Typed
  OBVIOUS
<1>1. TypedBoard
  BY NothingIn DEF Init, TypedBoard, BoardType, States, Maybe
<1>2. TypedConv
  BY NothingIn DEF Init, ConvDefault, TypedConv, ConvType, Maybe
<1>3. TypedClis
  BY NothingIn DEF Init, TypedClis, CliStates
<1>4. TypedProc
  BY OffLocal DEF Init, TypedProc, Local
<1>5. TypedHist /\ TypedRest
  BY DriverAssumption DEF Init, TypedHist, HistType, TypedRest
<1> QED
  BY <1>1, <1>2, <1>3, <1>4, <1>5 DEF Typed

LEMMA TypedStep == ASSUME Typed, [Next]_vars PROVE Typed'
<1>1. ASSUME NEW d \in Drivers, Driver(d) PROVE Typed'
  BY <1>1, TypedDriverTurn, TypedQueue, TypedQueueAppend, TypedCliTurn DEF Driver
<1>2. ASSUME NEW p \in Callers, Client(p) PROVE Typed'
  BY <1>2, TypedChatSends, TypedSessionSends, TypedUser DEF Client
<1>3. ASSUME NEW p \in Procs, Common(p) PROVE Typed'
  BY <1>3, TypedSettles, TypedCommon DEF Common
<1>4. CASE UNCHANGED vars
  BY <1>4 DEF vars, Typed, TypedBoard, TypedConv, TypedClis, TypedProc, TypedHist, TypedRest
<1> QED
  BY <1>1, <1>2, <1>3, <1>4, TypedCli, TypedOrchestrator, TypedRestart DEF Next

-----------------------------------------------------------------------------
(***************************************************************************)
(* Where a message is.  Has(l, m): a task with the locals l carries m.     *)
(***************************************************************************)
Has(l, m) == m \in In(l.users) \/ (l.m = m /\ l.at \in Owning)

LEMMA CarriesHas == ASSUME NEW p, NEW m PROVE Carries(p, m) <=> Has(proc[p], m)
BY DEF Carries, Has, Owning

Spots == {"queue", "pending", "given", "deleted", "lost", "hand"}
Lies(m, s) ==
    \/ s = "queue"   /\ m \in In(board.queue)
    \/ s = "pending" /\ m \in In(conv.pending)
    \/ s = "given"   /\ hist.given[m] # 0
    \/ s = "deleted" /\ m \in hist.deleted
    \/ s = "lost"    /\ m \in hist.lost
    \/ s = "hand"    /\ \E p \in Procs : Has(proc[p], m)

(* A message the user sent is in one place and in one task's hands at most,*)
(* and in one at least unless the daemon was killed; no other is anywhere. *)
InOne(m) ==
    /\ \A s, t \in Spots : Lies(m, s) /\ Lies(m, t) => s = t
    /\ \A p, q \in Procs : Has(proc[p], m) /\ Has(proc[q], m) => p = q
    /\ hist.given[m] \in {0, 1}
    /\ (\E s \in Spots : Lies(m, s)) => m \in hist.sent
    /\ m \in hist.sent /\ "kill" \notin hist.mishaps => \E s \in Spots : Lies(m, s)
Placed == \A m \in Msgs : InOne(m)

(* While a driver takes a message out of a Chat's queue nothing waits for  *)
(* a turn.                                                                 *)
Holding == {"peek", "take", "append"}
Locking == \A d \in Drivers :
               /\ proc[d].at \in Holding => lock = d /\ (kind = "chat" => conv.pending = <<>>)
               /\ lock = d => proc[d].at \in Holding

Queued == NoneTwice(board.queue) /\ board.deciding \subseteq In(board.queue)

LEMMA OnlyInHand ==
    ASSUME NEW m, InOne(m), NEW p \in Procs, Has(proc[p], m)
    PROVE  /\ m \notin In(board.queue) /\ m \notin In(conv.pending) /\ hist.given[m] = 0
           /\ m \notin hist.deleted /\ m \notin hist.lost /\ m \in hist.sent
           /\ \A q \in Procs : Has(proc[q], m) => q = p
BY DEF InOne, Spots, Lies

LEMMA OnlyQueued ==
    ASSUME NEW m, InOne(m), m \in In(board.queue)
    PROVE  /\ m \notin In(conv.pending) /\ hist.given[m] = 0
           /\ m \notin hist.deleted /\ m \notin hist.lost /\ m \in hist.sent
           /\ \A q \in Procs : ~Has(proc[q], m)
BY DEF InOne, Spots, Lies

LEMMA OnlyPending ==
    ASSUME NEW m, InOne(m), m \in In(conv.pending)
    PROVE  /\ m \notin In(board.queue) /\ hist.given[m] = 0
           /\ m \notin hist.deleted /\ m \notin hist.lost /\ m \in hist.sent
           /\ \A q \in Procs : ~Has(proc[q], m)
BY DEF InOne, Spots, Lies

LEMMA Nowhere ==
    ASSUME NEW m, InOne(m), m \notin hist.sent
    PROVE  /\ m \notin In(board.queue) /\ m \notin In(conv.pending) /\ hist.given[m] = 0
           /\ m \notin hist.deleted /\ m \notin hist.lost
           /\ \A q \in Procs : ~Has(proc[q], m)
BY DEF InOne, Spots, Lies

(* A step that does not move m. *)
Unmoved(m) ==
    /\ m \in In(board'.queue) <=> m \in In(board.queue)
    /\ m \in In(conv'.pending) <=> m \in In(conv.pending)
    /\ hist'.given[m] = hist.given[m]
    /\ m \in hist'.deleted <=> m \in hist.deleted
    /\ m \in hist'.lost <=> m \in hist.lost
    /\ m \in hist'.sent <=> m \in hist.sent
    /\ \A p \in Procs : Has(proc'[p], m) <=> Has(proc[p], m)
    /\ hist.mishaps \subseteq hist'.mishaps

LEMMA Stays == ASSUME NEW m, InOne(m), Unmoved(m) PROVE InOne(m)'
<1>1. \A s \in Spots : Lies(m, s)' <=> Lies(m, s)
  BY DEF Unmoved, Lies
<1>2. \A p \in Procs : Has(proc'[p], m) <=> Has(proc[p], m)
  BY DEF Unmoved
<1>3. /\ hist'.given[m] = hist.given[m] /\ (m \in hist'.sent <=> m \in hist.sent)
      /\ hist.mishaps \subseteq hist'.mishaps
  BY DEF Unmoved
<1> QED
  BY <1>1, <1>2, <1>3 DEF InOne

(* A step after which m is in the one place s. *)
LEMMA Arrives ==
    ASSUME NEW m, NEW s \in Spots, m \in hist'.sent, hist'.given[m] \in {0, 1},
           (m \in In(board'.queue)) <=> s = "queue",
           (m \in In(conv'.pending)) <=> s = "pending",
           (hist'.given[m] # 0) <=> s = "given",
           (m \in hist'.deleted) <=> s = "deleted",
           (m \in hist'.lost) <=> s = "lost",
           NEW p \in Procs, (Has(proc'[p], m)) <=> s = "hand",
           \A q \in Procs \ {p} : ~Has(proc'[q], m)
    PROVE  InOne(m)'
<1>1. \A t \in Spots : Lies(m, t)' <=> t = s
  BY DEF Lies, Spots
<1>2. \A q, r \in Procs : Has(proc'[q], m) /\ Has(proc'[r], m) => q = r
  OBVIOUS
<1> QED
  BY <1>1, <1>2 DEF InOne

LEMMA BeOne ==
    ASSUME Typed, NEW p \in Procs, NEW l, Be(p, l)
    PROVE  proc'[p] = l /\ \A q \in Procs \ {p} : proc'[q] = proc[q]
BY DEF Typed, TypedProc, Be

LEMMA LockKept ==
    ASSUME Typed, Locking, NEW p, UNCHANGED <<lock, kind>>,
           lock = None \/ conv'.pending = conv.pending \/ conv'.pending = <<>>,
           \A q \in Procs \ {p} : proc'[q] = proc[q],
           p \in Drivers => (proc'[p].at \in Holding <=> proc[p].at \in Holding)
    PROVE  Locking'
<1> SUFFICES ASSUME NEW d \in Drivers
             PROVE  /\ proc'[d].at \in Holding => lock' = d /\ (kind' = "chat" => conv'.pending = <<>>)
                    /\ lock' = d => proc'[d].at \in Holding
  BY DEF Locking
<1>1. proc'[d].at \in Holding <=> proc[d].at \in Holding
  BY DEF Procs
<1>2. lock = d => lock # None
  BY DriverAssumption
<1> QED
  BY <1>1, <1>2 DEF Locking

(* The driver's own steps with the lock. *)
LEMMA LockingDriver ==
    ASSUME Typed, Locking, NEW d \in Drivers, Driver(d)
    PROVE  Locking'
<1>1. d \in Procs /\ d # None
  BY DriverAssumption DEF Procs
<1> USE DEF Holding
<1>2. ASSUME UNCHANGED <<lock, kind>>, NEW l, Be(d, l), l.at \in Holding <=> proc[d].at \in Holding,
             lock = None \/ conv'.pending = conv.pending \/ conv'.pending = <<>>
      PROVE  Locking'
  BY <1>1, <1>2, BeOne, LockKept
<1>3. ASSUME lock = None, lock' = d, NEW l, Be(d, l), l.at = "peek", UNCHANGED kind, conv'.pending = <<>>
      PROVE  Locking'
  <2>1. proc'[d] = l /\ \A e \in Drivers \ {d} : proc'[e] = proc[e]
    BY <1>1, <1>3, BeOne DEF Procs
  <2>2. \A e \in Drivers : proc[e].at \notin Holding
    BY <1>3, DriverAssumption DEF Locking
  <2> QED
    BY <1>3, <2>1, <2>2 DEF Locking
<1>4. ASSUME proc[d].at \in Holding, lock' = None, NEW l, Be(d, l), l.at \notin Holding, UNCHANGED kind
      PROVE  Locking'
  <2>1. lock = d /\ \A e \in Drivers \ {d} : proc[e].at \notin Holding
    BY <1>4 DEF Locking
  <2> QED
    BY <1>1, <1>4, <2>1, BeOne, DriverAssumption DEF Locking, Procs
<1>5. ASSUME GivesUp(d), proc[d].at \in Holding, lock' = None, UNCHANGED kind PROVE Locking'
  <2>1. PICK l : Be(d, l) /\ l.at \notin Holding
    <3>1. Settle(proc[d], "off").at = "read" /\ Off.at = "off"
      BY <1>1 DEF Settle, Off, Typed, TypedProc, LocalType
    <3> QED
      BY <1>5, <3>1 DEF GivesUp
  <2> QED
    BY <1>4, <1>5, <2>1
<1>6. CASE DriverTurn(d)
  <2>1. proc[d].at \notin Holding /\ lock = None /\ UNCHANGED kind
    BY <1>6 DEF DriverTurn, DriverBegins, At, Unlocked
  <2>2. ASSUME NEW users, NEW envs, NEW rest, Claim(d, users, envs, rest), UNCHANGED lock PROVE Locking'
    <3>1. [Settle(proc[d], "start") EXCEPT !.users = users, !.envs = envs, !.m = None].at = "read"
      BY <1>1 DEF Settle, Typed, TypedProc, LocalType
    <3> QED
      BY <1>2, <2>1, <2>2, <3>1 DEF Claim
  <2>3. ASSUME Goto(d, "peek"), lock' = d, conv.pending = <<>>, UNCHANGED conv PROVE Locking'
    <3>1. [proc[d] EXCEPT !.at = "peek"].at = "peek"
      BY <1>1 DEF Typed, TypedProc, LocalType
    <3> QED
      BY <1>3, <2>1, <2>3, <3>1 DEF Goto
  <2>4. ASSUME NEW r, Be(d, Settle(proc[d], r)) \/ Be(d, Off), UNCHANGED <<conv, lock>> PROVE Locking'
    <3>1. Settle(proc[d], r).at = "read" /\ Off.at = "off"
      BY <1>1 DEF Settle, Off, Typed, TypedProc, LocalType
    <3> QED
      BY <1>2, <2>1, <2>4, <3>1
  <2> QED
    BY <1>6, <2>2, <2>3, <2>4 DEF DriverTurn
<1>7. CASE QueueMayGo(d)
  <2>1. [proc[d] EXCEPT !.at = "ready"].at = "ready" /\ Off.at = "off"
    BY <1>1 DEF Off, Typed, TypedProc, LocalType
  <2> QED
    BY <1>2, <1>7, <2>1 DEF QueueMayGo, Goto, At
<1>8. CASE QueueReady(d)
  <2>1. [proc[d] EXCEPT !.at = "peek"].at = "peek" /\ Off.at = "off"
    BY <1>1 DEF Off, Typed, TypedProc, LocalType
  <2> QED
    BY <1>2, <1>3, <1>8, <2>1 DEF QueueReady, Goto, At, Unlocked
<1>9. CASE QueuePeek(d)
  <2>1. [proc[d] EXCEPT !.at = "take", !.m = Head(board.queue)].at = "take"
    BY <1>1 DEF Typed, TypedProc, LocalType
  <2> QED
    BY <1>2, <1>5, <1>9, <2>1 DEF QueuePeek, At
<1>10. CASE QueueTake(d)
  <2>1. [proc[d] EXCEPT !.at = "append"].at = "append"
    BY <1>1 DEF Typed, TypedProc, LocalType
  <2> QED
    BY <1>2, <1>5, <1>10, <2>1 DEF QueueTake, Goto, At
<1>11. CASE QueueAppend(d)
  <2>1. /\ [Settle(proc[d], "start") EXCEPT !.users = <<proc[d].m>>, !.envs = <<>>, !.m = None].at = "read"
        /\ [proc[d] EXCEPT !.at = "turn", !.m = None, !.sent = TRUE].at = "turn"
    BY <1>1 DEF Settle, Typed, TypedProc, LocalType
  <2> QED
    BY <1>4, <1>11, <2>1 DEF QueueAppend, Claim, At
<1>12. CASE QueueAppendFails(d)
  BY <1>5, <1>12 DEF QueueAppendFails, At
<1>13. CASE EnsureCli(d)
  <2>1. \A c : [proc[d] EXCEPT !.at = "send", !.cli = c].at = "send"
    BY <1>1 DEF Typed, TypedProc, LocalType
  <2>2. conv'.pending = conv.pending
    BY <1>13 DEF EnsureCli, Typed, TypedConv, ConvType
  <2>3. \E c : Be(d, [proc[d] EXCEPT !.at = "send", !.cli = c])
    BY <1>13 DEF EnsureCli
  <2> QED
    BY <1>2, <1>13, <2>1, <2>2, <2>3 DEF EnsureCli, At
<1>14. CASE CliFailsToStart(d) \/ SendTurn(d)
  <2>1. [proc[d] EXCEPT !.at = "fail"].at = "fail" /\ Off.at = "off"
    BY <1>1 DEF Off, Typed, TypedProc, LocalType
  <2> QED
    BY <1>2, <1>14, <2>1 DEF CliFailsToStart, SendTurn, Goto, At
<1>15. CASE FailTurn(d)
  <2>1. Unask(conv.asked, "off").at \notin Holding
    BY DEF Unask, Settle, Off
  <2> QED
    BY <1>2, <1>15, <2>1 DEF FailTurn, At, Unlocked
<1> QED
  BY <1>6, <1>7, <1>8, <1>9, <1>10, <1>11, <1>12, <1>13, <1>14, <1>15 DEF Driver

LEMMA LockingStep ==
    ASSUME Typed, Locking, [Next]_vars
    PROVE  Locking'
<1>1. ASSUME UNCHANGED <<lock, kind, proc>>, lock = None \/ conv'.pending = conv.pending \/ conv'.pending = <<>>
      PROVE  Locking'
  BY <1>1, LockKept
<1>2. ASSUME NEW p \in Procs \ Drivers, UNCHANGED <<lock, kind>>, NEW l, Be(p, l),
             lock = None \/ conv'.pending = conv.pending \/ conv'.pending = <<>>
      PROVE  Locking'
  BY <1>2, BeOne, LockKept
<1>3. ASSUME NEW d \in Drivers, Driver(d) PROVE Locking'
  BY <1>3, LockingDriver
<1>4. conv \in ConvType
  BY DEF Typed, TypedConv
<1>5. ASSUME NEW p \in Callers, Client(p) PROVE Locking'
  <2>1. p \in Procs \ Drivers
    BY DriverAssumption DEF Procs
  <2>2. CASE \E m \in Msgs, steer \in BOOLEAN : ChatSends(p, m, steer) \/ SessionSends(p, m, steer)
    BY <1>1, <1>2, <2>1, <2>2 DEF ChatSends, SessionSends, Unlocked
  <2>3. CASE SessionBusy(p) \/ SessionPlaces(p) \/ SessionPushes(p) \/ AskFollowUp(p)
    <3>1. \E l : Be(p, l)
      BY <2>3 DEF SessionBusy, SessionPlaces, SessionPushes, AskFollowUp, Goto
    <3> QED
      BY <1>2, <2>1, <2>3, <3>1 DEF SessionBusy, SessionPlaces, SessionPushes, AskFollowUp, Unlocked
  <2>4. CASE \/ \E m \in Msgs : SteerQueued(p, m) \/ DeleteQueued(p, m) \/ MoveQueued(p, m)
             \/ Interrupt(p) \/ InterruptPauses(p) \/ InterruptStops(p) \/ ResumeQueue(p)
    BY <1>1, <1>2, <2>1, <2>4 DEF SteerQueued, DeleteQueued, MoveQueued, Interrupt, InterruptPauses,
                                  InterruptStops, ResumeQueue, Goto
  <2> QED
    BY <1>5, <2>2, <2>3, <2>4 DEF Client
<1>6. ASSUME NEW c \in Clis, Cli(c) PROVE Locking'
  <2>1. c \in Procs \ Drivers
    BY DriverAssumption DEF Procs
  <2> QED
    BY <1>1, <1>2, <1>6, <2>1 DEF Cli, TurnEnds, CliExits, TurnCompleted, PumpEnds, Unlocked
<1>7. CASE Orchestrator
  <2>1. Tool \in Procs \ Drivers /\ Worker \in Procs \ Drivers
    BY DriverAssumption DEF Procs
  <2>2. \A S, T : [conv EXCEPT !.asked = S, !.asking = T].pending = conv.pending
          /\ [conv EXCEPT !.announcing = S].pending = conv.pending
    BY <1>4 DEF ConvType
  <2> QED
    BY <1>1, <1>2, <1>7, <2>1 DEF Orchestrator, RouteFollowUp, Routed, TaskStarts, TaskAnnounced,
           TaskReported, Unlocked
<1>8. ASSUME NEW p \in Procs, SettleRead(p) \/ SettleWeigh(p) \/ SettleWrite(p) \/ SettleQueued(p)
      PROVE  Locking'
  <2>1. proc[p] \in LocalType /\ proc[p].at \in Settling
    BY <1>8 DEF Typed, TypedProc, SettleRead, SettleWeigh, SettleWrite, SettleQueued, At, Settling
  <2>2. PICK l : Be(p, l) /\ l.at \notin Holding
    <3>1. Off.at = "off" /\ \A r, s : Settle(proc[p], r).at = "read"
            /\ [Settle(proc[p], r) EXCEPT !.asked = s].at = "read"
      BY <2>1 DEF Settle, Off, LocalType
    <3>2. /\ \A s, x : [proc[p] EXCEPT !.at = s, !.snap = x].at = s
          /\ \A s, r, x : [proc[p] EXCEPT !.at = s, !.ret = r, !.snap = x].at = s
      BY <2>1 DEF LocalType
    <3>3. proc[p].ret \notin Holding
      BY <2>1 DEF LocalType, Rets, Holding
    <3>4. ASSUME SettleRead(p) PROVE \E l : Be(p, l) /\ l.at \notin Holding
      <4> DEFINE s == IF board.log = <<>> THEN "write" ELSE "weigh"
                 x == [state |-> board.state, tasks |-> board.tasks,
                       ready |-> /\ kind = "session" /\ board.log # <<>> /\ ~ board.paused
                                 /\ FirstOf(board.queue) \notin (board.deciding \union {None})]
      <4>1. Be(p, [proc[p] EXCEPT !.at = s, !.snap = x])
        BY <3>4 DEF SettleRead
      <4>3. s \notin Holding
        BY DEF Holding
      <4> HIDE DEF s, x
      <4> DEFINE l == [proc[p] EXCEPT !.at = s, !.snap = x]
      <4>2. Be(p, l) /\ l.at \notin Holding
        BY <3>2, <4>1, <4>3
      <4> HIDE DEF l
      <4> QED
        BY <4>2
    <3>5. ASSUME SettleWeigh(p) PROVE \E l : Be(p, l) /\ l.at \notin Holding
      <4>1. PICK x : Be(p, [proc[p] EXCEPT !.at = "write", !.snap = x])
        BY <3>5 DEF SettleWeigh
      <4> DEFINE l == [proc[p] EXCEPT !.at = "write", !.snap = x]
      <4>2. Be(p, l) /\ l.at \notin Holding
        BY <3>2, <4>1 DEF Holding
      <4> HIDE DEF l
      <4> QED
        BY <4>2
    <3>6. ASSUME SettleWrite(p) PROVE \E l : Be(p, l) /\ l.at \notin Holding
      <4>1. Be(p, Off) \/ Be(p, [proc[p] EXCEPT !.at = proc[p].ret, !.ret = "off", !.snap = NoSnap])
        BY <3>6 DEF SettleWrite
      <4>2. [proc[p] EXCEPT !.at = proc[p].ret, !.ret = "off", !.snap = NoSnap].at = proc[p].ret
        BY <3>2
      <4>3. Off.at \notin Holding
        BY <3>1 DEF Holding
      <4> QED
        BY <3>3, <4>1, <4>2, <4>3
    <3>7. ASSUME SettleQueued(p) PROVE \E l : Be(p, l) /\ l.at \notin Holding
      <4>1. Be(p, [Settle(proc[p], proc[p].ret) EXCEPT !.asked = {}])
        BY <3>7 DEF SettleQueued
      <4> DEFINE l == [Settle(proc[p], proc[p].ret) EXCEPT !.asked = {}]
      <4>2. l.at = "read" /\ "read" \notin Holding
        BY <3>1 DEF Holding
      <4> HIDE DEF l
      <4>3. Be(p, l)
        BY <4>1 DEF l
      <4> QED
        BY <4>2, <4>3
    <3> QED
      BY <1>8, <3>4, <3>5, <3>6, <3>7
  <2>3. proc[p].at \notin Holding
    BY <2>1 DEF Settling, Holding
  <2> QED
    BY <1>8, <2>2, <2>3, BeOne, LockKept DEF SettleRead, SettleWeigh, SettleWrite, SettleQueued
<1>9. ASSUME NEW p \in Procs, TakesQueued(p) \/ AppendsTaken(p) \/ TakenAppendFails(p) PROVE Locking'
  BY <1>2, <1>9 DEF TakesQueued, AppendsTaken, TakenAppendFails, Goto
<1>10. ASSUME NEW p \in Procs, Deliver(p) \/ JoinWorking(p) \/ NoteSteered(p) PROVE Locking'
  <2>1. proc[p] \in LocalType /\ proc[p].at \notin Holding
    BY <1>10 DEF Typed, TypedProc, Deliver, JoinWorking, NoteSteered, At, Holding
  <2>2. PICK l : Be(p, l) /\ l.at \notin Holding
    <3>1. \A r : Settle(Off, r).at = "read"
      BY DEF Settle, Off
    <3>2. \A w, r : [proc[p] EXCEPT !.at = "note", !.work = w, !.ret = r].at = "note"
            /\ [proc[p] EXCEPT !.at = "note", !.ret = r].at = "note"
      BY <2>1 DEF LocalType
    <3> QED
      BY <1>10, <3>1, <3>2 DEF Deliver, JoinWorking, NoteSteered, Holding
  <2> QED
    BY <1>10, <2>1, <2>2, BeOne, LockKept DEF Deliver, JoinWorking, NoteSteered, Unlocked
<1>11. CASE Restart
  <2>1. \A p \in Procs : proc'[p].at \notin Holding
    <3>1. Settle(Off, "off").at = "read" /\ Off.at = "off"
      BY DEF Settle, Off
    <3> QED
      BY <1>11, <3>1 DEF Restart, Holding
  <2> QED
    BY <1>11, <2>1, DriverAssumption DEF Restart, Locking, Procs
<1>12. CASE UNCHANGED vars
  BY <1>1, <1>12 DEF vars
<1> QED
  BY <1>3, <1>5, <1>6, <1>7, <1>8, <1>9, <1>10, <1>11, <1>12 DEF Next, Common

(* A task with nothing in its hands, and a step that takes nothing to      *)
(* another place.                                                          *)
Free(l) == l.users = <<>> /\ l.at \notin Owning
InPlace ==
    /\ In(board'.queue) = In(board.queue) /\ In(conv'.pending) = In(conv.pending)
    /\ hist'.given = hist.given /\ hist'.deleted = hist.deleted /\ hist'.lost = hist.lost
    /\ hist'.sent = hist.sent /\ hist.mishaps \subseteq hist'.mishaps

LEMMA FreeHas == ASSUME NEW l, Free(l), NEW m PROVE ~ Has(l, m)
BY NothingIn DEF Free, Has

LEMMA FreeAt ==
    ASSUME Typed, NEW p \in Procs, ~ Claimed(proc[p]), proc[p].at \notin Owning
    PROVE  Free(proc[p])
BY DEF Typed, TypedProc, Fits, Free

LEMMA FreeOff ==
    Free(Off) /\ (\A r : Free(Settle(Off, r))) /\ \A S, r : Free(Unask(S, r))
<1>1. Off.at \notin Owning /\ Off.users = <<>>
  BY DEF Off, Owning
<1>2. ASSUME NEW r PROVE Settle(Off, r).at = "read" /\ Settle(Off, r).users = <<>>
  BY DEF Settle, Off
<1>3. ASSUME NEW S, NEW r PROVE Unask(S, r).at \in {"read", "unasked"} /\ Unask(S, r).users = <<>>
  BY DEF Unask, Settle, Off
<1> QED
  BY <1>1, <1>2, <1>3 DEF Free, Owning

LEMMA StillPlaced ==
    ASSUME Typed, Placed, InPlace, NEW p \in Procs, NEW l, Be(p, l),
           \A m \in Msgs : Has(l, m) <=> Has(proc[p], m)
    PROVE  Placed'
<1> SUFFICES ASSUME NEW m \in Msgs PROVE InOne(m)'
  BY DEF Placed
<1>1. proc'[p] = l /\ \A q \in Procs \ {p} : proc'[q] = proc[q]
  BY BeOne
<1>2. \A q \in Procs : Has(proc'[q], m) <=> Has(proc[q], m)
  BY <1>1
<1>3. Unmoved(m)
  BY <1>2 DEF InPlace, Unmoved
<1> QED
  BY <1>3, Stays DEF Placed

LEMMA StillFree ==
    ASSUME Typed, Placed, InPlace, NEW p \in Procs, NEW l, Be(p, l), Free(l), Free(proc[p])
    PROVE  Placed'
BY StillPlaced, FreeHas

LEMMA StillElsewhere == ASSUME Placed, InPlace, UNCHANGED proc PROVE Placed'
<1> SUFFICES ASSUME NEW m \in Msgs PROVE InOne(m)'
  BY DEF Placed
<1>1. Unmoved(m)
  BY DEF InPlace, Unmoved
<1> QED
  BY <1>1, Stays DEF Placed

LEMMA KeptBoard ==
    ASSUME board'.queue = board.queue, conv'.pending = conv.pending, UNCHANGED hist
    PROVE  InPlace
BY DEF InPlace

LEMMA KeptHappened ==
    ASSUME Typed, board'.queue = board.queue, conv'.pending = conv.pending,
           NEW what, hist' = Happened(what)
    PROVE  InPlace
BY DEF Typed, TypedHist, HistType, InPlace, Happened

LEMMA PlacedCli == ASSUME Typed, Placed, NEW c \in Clis, Cli(c) PROVE Placed'
<1>1. c \in Procs /\ conv \in ConvType
  BY DEF Procs, Typed, TypedConv
<1>2. CASE TurnEnds(c)
  BY <1>2, KeptBoard, StillElsewhere DEF TurnEnds
<1>3. CASE CliExits(c)
  BY <1>3, KeptHappened, StillElsewhere DEF CliExits
<1>4. CASE TurnCompleted(c) \/ PumpEnds(c)
  <2>1. conv'.pending = conv.pending
    BY <1>1, <1>4 DEF TurnCompleted, PumpEnds, ConvType
  <2>2. InPlace
    BY <1>4, <2>1, KeptBoard DEF TurnCompleted, PumpEnds
  <2>3. Free(proc[c])
    BY <1>1, <1>4, FreeAt DEF TurnCompleted, PumpEnds, At, Claimed, Owning
  <2> QED
    BY <1>1, <1>4, <2>2, <2>3, FreeOff, StillFree DEF TurnCompleted, PumpEnds
<1> QED
  BY <1>2, <1>3, <1>4 DEF Cli

LEMMA PlacedOrchestrator == ASSUME Typed, Placed, Orchestrator PROVE Placed'
<1>1. Tool \in Procs /\ Worker \in Procs /\ conv \in ConvType /\ board \in BoardType /\ hist \in HistType
  BY DEF Procs, Typed, TypedConv, TypedBoard, TypedHist
<1>2. ASSUME NEW m \in Msgs, NEW joins \in BOOLEAN, RouteFollowUp(m, joins) PROVE Placed'
  <2>1. conv'.pending = conv.pending
    BY <1>1, <1>2 DEF RouteFollowUp, ConvType
  <2>2. InPlace
    BY <1>2, <2>1, KeptBoard DEF RouteFollowUp
  <2>3. Free(proc[Tool])
    BY <1>1, <1>2, FreeAt DEF RouteFollowUp, At, Claimed, Owning
  <2>4. Free([Off EXCEPT !.at = "routed", !.m = m, !.steer = joins])
    BY DEF Free, Off, Owning
  <2> QED
    BY <1>1, <1>2, <2>2, <2>3, <2>4, StillFree DEF RouteFollowUp
<1>3. CASE Routed
  <2>1. board'.queue = board.queue
    BY <1>1, <1>3 DEF Routed, BoardType
  <2>2. InPlace
    BY <1>3, <2>1, KeptBoard DEF Routed
  <2>3. Free(proc[Tool])
    BY <1>1, <1>3, FreeAt DEF Routed, At, Claimed, Owning
  <2>4. Free([Off EXCEPT !.at = "take", !.m = proc[Tool].m, !.work = Working(board)])
    BY DEF Free, Off, Owning
  <2> QED
    BY <1>1, <1>3, <2>2, <2>3, <2>4, StillFree, FreeOff DEF Routed
<1>4. CASE TaskStarts
  <2>1. board'.queue = board.queue
    BY <1>1, <1>4 DEF TaskStarts, BoardType
  <2> QED
    BY <1>4, <2>1, KeptHappened, StillElsewhere DEF TaskStarts
<1>5. ASSUME NEW r \in Msgs, TaskAnnounced(r) PROVE Placed'
  <2>1. conv'.pending = conv.pending
    BY <1>1, <1>5 DEF TaskAnnounced, ConvType
  <2>2. InPlace
    BY <1>5, <2>1, KeptBoard DEF TaskAnnounced
  <2>3. Free(proc[Worker])
    BY <1>1, <1>5, FreeAt DEF TaskAnnounced, At, Claimed, Owning
  <2>4. Free([Off EXCEPT !.at = "reported", !.work = r])
    BY DEF Free, Off, Owning
  <2> QED
    BY <1>1, <1>5, <2>2, <2>3, <2>4, StillFree DEF TaskAnnounced
<1>6. CASE TaskReported
  <2>1. board'.queue = board.queue
    BY <1>1, <1>6 DEF TaskReported, BoardType
  <2>2. InPlace
    BY <1>6, <2>1, KeptBoard DEF TaskReported
  <2>3. Free(proc[Worker])
    BY <1>1, <1>6, FreeAt DEF TaskReported, At, Claimed, Owning
  <2>4. proc[Worker] \in LocalType
    BY <1>1 DEF Typed, TypedProc
  <2>5. Free(Settle(proc[Worker], "envelope"))
    BY <2>3, <2>4 DEF Free, Settle, LocalType, Owning
  <2> QED
    BY <1>1, <1>6, <2>2, <2>3, <2>5, StillFree DEF TaskReported
<1> QED
  BY <1>2, <1>3, <1>4, <1>5, <1>6 DEF Orchestrator

LEMMA PlacedSettles ==
    ASSUME Typed, Placed, NEW p \in Procs,
           SettleRead(p) \/ SettleWeigh(p) \/ SettleWrite(p) \/ SettleQueued(p)
    PROVE  Placed'
<1>1. board \in BoardType /\ Local(proc[p]) /\ proc[p] \in LocalType
  BY Locals DEF Typed, TypedBoard, Local
<1>2. board'.queue = board.queue /\ UNCHANGED <<conv, hist>>
  BY <1>1 DEF SettleRead, SettleWeigh, SettleWrite, SettleQueued, BoardType
<1>3. InPlace
  BY <1>2, KeptBoard
<1>4. proc[p].at \in Settling /\ proc[p].at \notin Owning
  BY DEF SettleRead, SettleWeigh, SettleWrite, SettleQueued, At, Settling, Owning
<1>5. ASSUME NEW l, Be(p, l), l.users = proc[p].users, l.at \notin Owning PROVE Placed'
  BY <1>3, <1>4, <1>5, StillPlaced DEF Has
<1>6. CASE SettleRead(p)
  <2> DEFINE s == IF board.log = <<>> THEN "write" ELSE "weigh"
             x == [state |-> board.state, tasks |-> board.tasks,
                   ready |-> /\ kind = "session" /\ board.log # <<>> /\ ~ board.paused
                             /\ FirstOf(board.queue) \notin (board.deciding \union {None})]
             l == [proc[p] EXCEPT !.at = s, !.snap = x]
  <2>1. Be(p, l)
    BY <1>6 DEF SettleRead
  <2>2. s \notin Owning
    BY DEF Owning
  <2> HIDE DEF s, x
  <2>3. l.users = proc[p].users /\ l.at = s
    BY <1>1 DEF LocalType
  <2> HIDE DEF l
  <2> QED
    BY <1>5, <2>1, <2>2, <2>3
<1>7. CASE SettleWeigh(p)
  <2>1. PICK x : Be(p, [proc[p] EXCEPT !.at = "write", !.snap = x])
    BY <1>7 DEF SettleWeigh
  <2> DEFINE l == [proc[p] EXCEPT !.at = "write", !.snap = x]
  <2>2. l.users = proc[p].users /\ l.at \notin Owning
    BY <1>1 DEF LocalType, Owning
  <2>3. Be(p, l)
    BY <2>1
  <2> HIDE DEF l
  <2> QED
    BY <1>5, <2>2, <2>3
<1>8. CASE SettleWrite(p)
  <2>1. CASE proc[p].ret \in {"off", "kick"}
    <3>1. ~ Claimed(proc[p])
      BY <1>8, <2>1 DEF SettleWrite, At, Claimed
    <3>2. Be(p, Off)
      BY <1>8, <2>1 DEF SettleWrite
    <3> QED
      BY <1>3, <1>4, <3>1, <3>2, FreeAt, FreeOff, StillFree
  <2>2. CASE proc[p].ret \notin {"off", "kick"}
    <3> DEFINE l == [proc[p] EXCEPT !.at = proc[p].ret, !.ret = "off", !.snap = NoSnap]
    <3>1. Be(p, l)
      BY <1>8, <2>2 DEF SettleWrite
    <3>2. l.users = proc[p].users /\ l.at = proc[p].ret
      BY <1>1 DEF LocalType
    <3>3. proc[p].ret \notin Owning
      BY <1>1 DEF LocalType, Rets, Owning
    <3> HIDE DEF l
    <3> QED
      BY <1>5, <3>1, <3>2, <3>3
  <2> QED
    BY <2>1, <2>2
<1>9. CASE SettleQueued(p)
  <2> DEFINE l == [Settle(proc[p], proc[p].ret) EXCEPT !.asked = {}]
  <2>1. Be(p, l)
    BY <1>9 DEF SettleQueued
  <2>2. l.users = proc[p].users /\ l.at \notin Owning
    BY <1>1 DEF Settle, LocalType, Owning
  <2> HIDE DEF l
  <2> QED
    BY <1>5, <2>1, <2>2
<1> QED
  BY <1>6, <1>7, <1>8, <1>9

(* A step that takes m, and nothing else, to the place s. *)
LEMMA OneMoves ==
    ASSUME Typed, Placed, NEW m \in Msgs, NEW s \in Spots, m \in hist'.sent,
           (m \in In(board'.queue)) <=> s = "queue",
           (m \in In(conv'.pending)) <=> s = "pending",
           hist'.given[m] = IF s = "given" THEN 1 ELSE 0,
           (m \in hist'.deleted) <=> s = "deleted",
           (m \in hist'.lost) <=> s = "lost",
           \A x \in Msgs \ {m} :
               /\ x \in In(board'.queue) <=> x \in In(board.queue)
               /\ x \in In(conv'.pending) <=> x \in In(conv.pending)
               /\ hist'.given[x] = hist.given[x]
               /\ x \in hist'.deleted <=> x \in hist.deleted
               /\ x \in hist'.lost <=> x \in hist.lost
               /\ x \in hist'.sent <=> x \in hist.sent,
           hist.mishaps \subseteq hist'.mishaps,
           NEW p \in Procs, (Has(proc'[p], m)) <=> s = "hand",
           \A x \in Msgs \ {m} : Has(proc'[p], x) <=> Has(proc[p], x),
           \A q \in Procs \ {p} : proc'[q] = proc[q] /\ ~ Has(proc[q], m)
    PROVE  Placed'
<1> SUFFICES ASSUME NEW x \in Msgs PROVE InOne(x)'
  BY DEF Placed
<1>1. CASE x = m
  <2>1. hist'.given[m] \in {0, 1} /\ (hist'.given[m] # 0 <=> s = "given")
    OBVIOUS
  <2>2. \A q \in Procs \ {p} : ~ Has(proc'[q], m)
    OBVIOUS
  <2> QED
    BY <1>1, <2>1, <2>2, Arrives
<1>2. CASE x # m
  <2>1. \A q \in Procs : Has(proc'[q], x) <=> Has(proc[q], x)
    BY <1>2
  <2>2. Unmoved(x)
    BY <1>2, <2>1 DEF Unmoved
  <2> QED
    BY <2>2, Stays DEF Placed
<1> QED
  BY <1>1, <1>2

LEMMA HasOwn == ASSUME NEW l, l.users = <<>>, l.at \in Owning, NEW m PROVE Has(l, m) <=> l.m = m
BY NothingIn DEF Has

(* A task with one message in its hands has no other. *)
LEMMA HandsOne ==
    ASSUME Typed, NEW p \in Procs, proc[p].at \in Owning
    PROVE  /\ proc[p] \in LocalType /\ proc[p].users = <<>> /\ proc[p].m \in Msgs
           /\ \A x : Has(proc[p], x) <=> x = proc[p].m
<1>1. proc[p] \in LocalType /\ Fits(proc[p])
  BY DEF Typed, TypedProc
<1>2. proc[p].users = <<>> /\ proc[p].m \in Msgs
  BY <1>1 DEF Fits, Claimed, Owning, OfMessage
<1> QED
  BY <1>1, <1>2, HasOwn

LEMMA TakePlaced ==
    ASSUME Typed, Placed, NEW p \in Procs, At(p, "take"), proc[p].m \in In(board.queue),
           board' = Taken(board, proc[p].m), Goto(p, "append"), UNCHANGED <<conv, hist>>
    PROVE  Placed'
<1>1. /\ board \in BoardType /\ conv \in ConvType /\ hist \in HistType
      /\ proc[p] \in LocalType /\ Fits(proc[p])
  BY DEF Typed, TypedBoard, TypedConv, TypedHist, TypedProc
<1> DEFINE m == proc[p].m
           l == [proc[p] EXCEPT !.at = "append"]
<1>2. m \in Msgs /\ Free(proc[p])
  BY <1>1, FreeAt DEF Fits, OfMessage, Owning, At, Claimed
<1>3. l.users = <<>> /\ l.at \in Owning /\ l.m = m
  BY <1>1, <1>2 DEF Free, LocalType, Owning
<1>4. proc'[p] = l /\ \A q \in Procs \ {p} : proc'[q] = proc[q]
  BY BeOne DEF Goto
<1>5. In(board'.queue) = In(board.queue) \ {m}
  BY <1>1, TakenTyped, WithoutIn DEF BoardType
<1>6. /\ m \notin In(conv.pending) /\ hist.given[m] = 0 /\ m \notin hist.deleted
      /\ m \notin hist.lost /\ m \in hist.sent /\ \A q \in Procs : ~ Has(proc[q], m)
  BY <1>2, OnlyQueued DEF Placed
<1> HIDE DEF l, m
<1>7. \A x : Has(l, x) <=> x = m
  BY <1>3, HasOwn
<1>8. \A x \in Msgs : ~ Has(proc[p], x)
  BY <1>2, FreeHas
<1> QED
  BY <1>2, <1>4, <1>5, <1>6, <1>7, <1>8, OneMoves DEF Spots, m

LEMMA LostPlaced ==
    ASSUME Typed, Placed, NEW p \in Procs, At(p, "append"), NEW l, Be(p, l), Free(l),
           hist' = [Happened("nostore") EXCEPT !.lost = @ \union {proc[p].m}],
           UNCHANGED <<board, conv>>
    PROVE  Placed'
<1> DEFINE m == proc[p].m
<1>1. /\ hist \in HistType /\ m \in Msgs /\ \A x : Has(proc[p], x) <=> x = m
  BY HandsOne DEF Typed, TypedHist, At, Owning
<1>2. proc'[p] = l /\ \A q \in Procs \ {p} : proc'[q] = proc[q]
  BY BeOne
<1>3. /\ m \notin In(board.queue) /\ m \notin In(conv.pending) /\ hist.given[m] = 0
      /\ m \notin hist.deleted /\ m \in hist.sent /\ \A q \in Procs \ {p} : ~ Has(proc[q], m)
  BY <1>1, OnlyInHand DEF Placed
<1>4. /\ hist'.given = hist.given /\ hist'.deleted = hist.deleted /\ hist'.sent = hist.sent
      /\ hist'.lost = hist.lost \union {m} /\ hist.mishaps \subseteq hist'.mishaps
  BY <1>1 DEF Happened, HistType
<1>5. \A x : ~ Has(l, x)
  BY FreeHas
<1> HIDE DEF m
<1> QED
  BY <1>1, <1>2, <1>3, <1>4, <1>5, OneMoves DEF Spots

(* A message in hand goes to the CLI, or waits for a turn. *)
LEMMA HandGives ==
    ASSUME Typed, Placed, NEW p \in Procs, proc[p].at \in Owning, NEW l, Be(p, l), Free(l),
           hist' = Gave(hist, <<proc[p].m>>), board'.queue = board.queue, conv'.pending = conv.pending
    PROVE  Placed'
<1> DEFINE m == proc[p].m
<1>1. /\ hist \in HistType /\ m \in Msgs /\ \A x : Has(proc[p], x) <=> x = m
  BY HandsOne DEF Typed, TypedHist
<1>2. proc'[p] = l /\ \A q \in Procs \ {p} : proc'[q] = proc[q]
  BY BeOne
<1>3. /\ m \notin In(board.queue) /\ m \notin In(conv.pending) /\ hist.given[m] = 0
      /\ m \notin hist.deleted /\ m \notin hist.lost /\ m \in hist.sent
      /\ \A q \in Procs \ {p} : ~ Has(proc[q], m)
  BY <1>1, OnlyInHand DEF Placed
<1> HIDE DEF m
<1>4. In(<<m>>) = {m}
  BY DEF In
<1>5. /\ \A x \in Msgs : hist'.given[x] = hist.given[x] + IF x = m THEN 1 ELSE 0
      /\ hist'.deleted = hist.deleted /\ hist'.sent = hist.sent /\ hist'.lost = hist.lost
      /\ hist'.mishaps = hist.mishaps /\ hist.given \in [Msgs -> Nat]
  BY <1>1, <1>4, GaveTyped DEF HistType, m
<1>6. \A x : ~ Has(l, x)
  BY FreeHas
<1>7. \A x \in Msgs \ {m} : hist'.given[x] = hist.given[x]
  BY <1>5
<1>8. hist'.given[m] = 1
  BY <1>1, <1>3, <1>5
<1> QED
  BY <1>1, <1>2, <1>3, <1>5, <1>6, <1>7, <1>8, OneMoves DEF Spots

LEMMA HandPushes ==
    ASSUME Typed, Placed, NEW p \in Procs, proc[p].at \in Owning, NEW l, Be(p, l), Free(l),
           conv'.pending = Append(conv.pending, proc[p].m), board'.queue = board.queue, UNCHANGED hist
    PROVE  Placed'
<1> DEFINE m == proc[p].m
<1>1. /\ conv \in ConvType /\ m \in Msgs /\ \A x : Has(proc[p], x) <=> x = m
  BY HandsOne DEF Typed, TypedConv
<1>2. proc'[p] = l /\ \A q \in Procs \ {p} : proc'[q] = proc[q]
  BY BeOne
<1>3. /\ m \notin In(board.queue) /\ m \notin In(conv.pending) /\ hist.given[m] = 0
      /\ m \notin hist.deleted /\ m \notin hist.lost /\ m \in hist.sent
      /\ \A q \in Procs \ {p} : ~ Has(proc[q], m)
  BY <1>1, OnlyInHand DEF Placed
<1>4. In(conv'.pending) = In(conv.pending) \union {m}
  BY <1>1, AppendIn DEF ConvType
<1>5. \A x : ~ Has(l, x)
  BY FreeHas
<1> HIDE DEF m
<1> QED
  BY <1>1, <1>2, <1>3, <1>4, <1>5, OneMoves DEF Spots

LEMMA PlacedCommon ==
    ASSUME Typed, Placed, NEW p \in Procs, Common(p)
    PROVE  Placed'
<1>1. /\ board \in BoardType /\ conv \in ConvType /\ hist \in HistType
      /\ proc[p] \in LocalType /\ Fits(proc[p])
  BY DEF Typed, TypedBoard, TypedConv, TypedHist, TypedProc
<1>2. CASE Deliver(p)
  <2>1. conv'.pending = conv.pending
    BY <1>1, <1>2 DEF Deliver, ConvType
  <2>2. InPlace
    BY <1>2, <2>1, KeptBoard DEF Deliver
  <2>3. Free(proc[p])
    BY <1>1, <1>2, FreeAt DEF Deliver, At, Claimed, Owning
  <2> QED
    BY <1>2, <2>2, <2>3, FreeOff, StillFree DEF Deliver
<1>3. CASE TakesQueued(p)
  <2>1. Free(proc[p])
    BY <1>1, <1>3, FreeAt DEF TakesQueued, At, Claimed, Owning
  <2>2. CASE proc[p].m \in In(board.queue)
    BY <1>3, <2>2, TakePlaced DEF TakesQueued
  <2>3. CASE proc[p].m \notin In(board.queue)
    <3>1. InPlace
      BY <1>3, <2>3, KeptBoard DEF TakesQueued
    <3> QED
      BY <1>3, <2>1, <2>3, <3>1, FreeOff, StillFree DEF TakesQueued
  <2> QED
    BY <2>2, <2>3
<1>4. CASE AppendsTaken(p)
  <2> DEFINE l == [proc[p] EXCEPT !.at = "join"]
  <2>1. l.users = proc[p].users /\ l.m = proc[p].m /\ l.at \in Owning /\ proc[p].at \in Owning
    BY <1>1, <1>4 DEF AppendsTaken, At, LocalType, Owning
  <2>2. Be(p, l)
    BY <1>4 DEF AppendsTaken, Goto
  <2>3. proc[p].m \in Msgs
    BY <1>4, HandsOne DEF AppendsTaken, At, Owning
  <2>4. board'.queue = board.queue
    BY <1>1, <1>4, <2>3, AppendedTyped DEF AppendsTaken
  <2>5. InPlace
    BY <1>4, <2>4, KeptBoard DEF AppendsTaken
  <2> HIDE DEF l
  <2> QED
    BY <2>1, <2>2, <2>5, StillPlaced DEF Has
<1>5. CASE TakenAppendFails(p)
  BY <1>5, FreeOff, LostPlaced DEF TakenAppendFails
<1>6. CASE JoinWorking(p)
  <2>1. proc[p].at \in Owning
    BY <1>6 DEF JoinWorking, At, Owning
  <2>2. proc[p].users = <<>>
    BY <2>1, HandsOne
  <2>3. CASE CliTakes
    <3> DEFINE l == [proc[p] EXCEPT !.at = "note", !.work = conv.request, !.ret = "off"]
    <3>1. Be(p, l) /\ conv'.pending = conv.pending
      BY <1>1, <1>6, <2>3 DEF JoinWorking, ConvType
    <3>2. Free(l)
      BY <1>1, <2>2 DEF Free, LocalType, Owning
    <3> HIDE DEF l
    <3> QED
      BY <1>6, <2>1, <2>3, <3>1, <3>2, HandGives DEF JoinWorking
  <2>4. CASE ~ CliTakes
    <3> DEFINE l == [proc[p] EXCEPT !.at = "note", !.ret = "kick"]
    <3>1. Be(p, l) /\ conv'.pending = Append(conv.pending, proc[p].m)
      BY <1>1, <1>6, <2>4 DEF JoinWorking, ConvType
    <3>2. Free(l)
      BY <1>1, <2>2 DEF Free, LocalType, Owning
    <3> HIDE DEF l
    <3> QED
      BY <1>6, <2>1, <2>4, <3>1, <3>2, HandPushes DEF JoinWorking
  <2> QED
    BY <2>3, <2>4
<1>7. CASE NoteSteered(p)
  <2>1. board'.queue = board.queue
    BY <1>1, <1>7 DEF NoteSteered, BoardType
  <2>2. InPlace
    BY <1>7, <2>1, KeptBoard DEF NoteSteered
  <2>3. Free(proc[p])
    BY <1>1, <1>7, FreeAt DEF NoteSteered, At, Claimed, Owning
  <2> QED
    BY <1>7, <2>2, <2>3, FreeOff, StillFree DEF NoteSteered
<1> QED
  BY <1>2, <1>3, <1>4, <1>5, <1>6, <1>7, PlacedSettles DEF Common

(* A task that does nothing holds nothing. *)
LEMMA OffFree == ASSUME Typed, NEW p \in Procs, At(p, "off") PROVE proc[p] = Off /\ Free(proc[p])
BY FreeOff DEF Typed, TypedProc, Fits, At

LEMMA NewIsNowhere ==
    ASSUME Typed, Placed, NEW m \in Msgs, m = Fresh
    PROVE  /\ m \notin In(board.queue) /\ m \notin In(conv.pending) /\ hist.given[m] = 0
           /\ m \notin hist.deleted /\ m \notin hist.lost /\ m \notin hist.sent
           /\ \A q \in Procs : ~ Has(proc[q], m)
BY FreshIsNew, Nowhere DEF Typed, Placed

LEMMA PlacedChatSends ==
    ASSUME Typed, Placed, NEW p \in Callers, NEW m \in Msgs, NEW steer \in BOOLEAN, ChatSends(p, m, steer)
    PROVE  Placed'
<1>1. /\ p \in Procs /\ board \in BoardType /\ conv \in ConvType /\ hist \in HistType
  BY DEF Typed, TypedBoard, TypedConv, TypedHist, Procs
<1>2. Free(proc[p]) /\ m = Fresh
  BY <1>1, OffFree DEF ChatSends
<1>3. /\ m \notin In(board.queue) /\ m \notin In(conv.pending) /\ hist.given[m] = 0
      /\ m \notin hist.deleted /\ m \notin hist.lost /\ m \notin hist.sent
      /\ \A q \in Procs : ~ Has(proc[q], m)
  BY <1>2, NewIsNowhere
<1>4. /\ hist.given \in [Msgs -> Nat] /\ Appended(board, m).queue = board.queue
      /\ In(Append(conv.pending, m)) = In(conv.pending) \union {m}
      /\ In(Append(board.queue, m)) = In(board.queue) \union {m}
  <2>1. board.queue \in Seq(Msgs) /\ conv.pending \in Seq(Msgs) /\ hist.given \in [Msgs -> Nat]
    BY <1>1 DEF HistType, ConvType, BoardType
  <2>2. Appended(board, m).queue = board.queue
    BY <1>1, AppendedTyped
  <2> QED
    BY <2>1, <2>2, AppendIn
<1>5. ASSUME UNCHANGED proc \/ \E l : Be(p, l) /\ Free(l)
      PROVE  /\ \A q \in Procs \ {p} : proc'[q] = proc[q]
             /\ \A x \in Msgs : ~ Has(proc'[p], x) /\ ~ Has(proc[p], x)
  BY <1>1, <1>2, <1>5, BeOne, FreeHas
<1>6. CASE conv.busy /\ steer /\ CliTakes
  <2> DEFINE l == [Off EXCEPT !.at = "note", !.m = m, !.work = conv.request, !.ret = "off"]
  <2>1. /\ board' = Appended(board, m) /\ conv' = [conv EXCEPT !.request = m]
        /\ hist' = [Gave(hist, <<m>>) EXCEPT !.sent = @ \union {m}] /\ Be(p, l)
    BY <1>6 DEF ChatSends
  <2>2. Free(l)
    BY DEF Free, Off, Owning
  <2> HIDE DEF l
  <2>3. conv'.pending = conv.pending /\ board'.queue = board.queue
    BY <1>1, <1>4, <2>1 DEF ConvType
  <2>4. In(<<m>>) = {m}
    BY DEF In
  <2>5. /\ \A x \in Msgs : hist'.given[x] = hist.given[x] + IF x = m THEN 1 ELSE 0
        /\ hist'.deleted = hist.deleted /\ hist'.lost = hist.lost /\ hist'.mishaps = hist.mishaps
        /\ hist'.sent = hist.sent \union {m}
    BY <1>1, <2>1, <2>4, GaveTyped DEF HistType
  <2>6. (\A x \in Msgs \ {m} : hist'.given[x] = hist.given[x]) /\ hist'.given[m] = 1
    BY <1>3, <1>4, <2>5
  <2> QED
    BY <1>1, <1>3, <1>5, <2>1, <2>2, <2>3, <2>5, <2>6, OneMoves DEF Spots
<1>7. ASSUME board'.queue = board.queue, conv' = [conv EXCEPT !.pending = Append(@, m)],
             hist' = [hist EXCEPT !.sent = @ \union {m}],
             UNCHANGED proc \/ \E l : Be(p, l) /\ Free(l)
      PROVE  Placed'
  <2>1. /\ hist'.given = hist.given /\ hist'.deleted = hist.deleted /\ hist'.lost = hist.lost
        /\ hist'.sent = hist.sent \union {m} /\ hist'.mishaps = hist.mishaps
    BY <1>1, <1>7 DEF HistType
  <2>2. In(conv'.pending) = In(conv.pending) \union {m}
    BY <1>1, <1>4, <1>7 DEF ConvType
  <2> QED
    BY <1>1, <1>3, <1>5, <1>7, <2>1, <2>2, OneMoves DEF Spots
<1>8. CASE conv.busy /\ steer /\ ~ CliTakes
  BY <1>4, <1>7, <1>8, FreeOff DEF ChatSends
<1>9. CASE conv.busy /\ ~ steer
  <2>1. /\ board' = [board EXCEPT !.queue = Append(@, m)] /\ hist' = [hist EXCEPT !.sent = @ \union {m}]
        /\ UNCHANGED <<conv, proc>>
    BY <1>9 DEF ChatSends
  <2>2. /\ hist'.given = hist.given /\ hist'.deleted = hist.deleted /\ hist'.lost = hist.lost
        /\ hist'.sent = hist.sent \union {m} /\ hist'.mishaps = hist.mishaps
    BY <1>1, <2>1 DEF HistType
  <2>3. In(board'.queue) = In(board.queue) \union {m}
    BY <1>1, <1>4, <2>1 DEF BoardType
  <2> QED
    BY <1>1, <1>3, <1>5, <2>1, <2>2, <2>3, OneMoves DEF Spots
<1>10. CASE ~ conv.busy
  BY <1>4, <1>7, <1>10 DEF ChatSends
<1> QED
  BY <1>6, <1>8, <1>9, <1>10

LEMMA PlacedSessionSends ==
    ASSUME Typed, Placed, NEW p \in Callers, NEW m \in Msgs, NEW steer \in BOOLEAN, SessionSends(p, m, steer)
    PROVE  Placed'
<1>1. p \in Procs /\ hist \in HistType
  BY DEF Typed, TypedHist, Procs
<1>2. Free(proc[p]) /\ m = Fresh /\ UNCHANGED <<board, conv>>
  BY <1>1, OffFree DEF SessionSends
<1>3. /\ m \notin In(board.queue) /\ m \notin In(conv.pending) /\ hist.given[m] = 0
      /\ m \notin hist.deleted /\ m \notin hist.lost /\ m \notin hist.sent
      /\ \A q \in Procs : ~ Has(proc[q], m)
  BY <1>2, NewIsNowhere
<1> DEFINE l == [Off EXCEPT !.at = "busy?", !.m = m, !.steer = steer, !.work = Working(board)]
<1>4. Be(p, l)
  BY DEF SessionSends
<1>5. l.users = <<>> /\ l.at \in Owning /\ l.m = m
  BY DEF Off, Owning
<1> HIDE DEF l
<1>6. proc'[p] = l /\ \A q \in Procs \ {p} : proc'[q] = proc[q]
  BY <1>1, <1>4, BeOne
<1>7. \A x \in Msgs : (Has(l, x) <=> x = m) /\ ~ Has(proc[p], x)
  BY <1>2, <1>5, HasOwn, FreeHas
<1>8. /\ hist'.given = hist.given /\ hist'.deleted = hist.deleted /\ hist'.lost = hist.lost
      /\ hist'.sent = hist.sent \union {m} /\ hist'.mishaps = hist.mishaps
  BY <1>1 DEF SessionSends, HistType
<1> QED
  BY <1>1, <1>2, <1>3, <1>6, <1>7, <1>8, OneMoves DEF Spots

LEMMA PlacedSession ==
    ASSUME Typed, Placed, NEW p \in Callers,
           SessionBusy(p) \/ SessionPlaces(p) \/ SessionPushes(p) \/ AskFollowUp(p)
    PROVE  Placed'
<1>1. /\ p \in Procs /\ board \in BoardType /\ conv \in ConvType /\ hist \in HistType
      /\ proc[p] \in LocalType
  BY DEF Typed, TypedBoard, TypedConv, TypedHist, TypedProc, Procs
<1>2. ASSUME NEW l, Be(p, l), l.users = proc[p].users, l.m = proc[p].m, l.at \in Owning,
             proc[p].at \in Owning, InPlace
      PROVE  Placed'
  BY <1>1, <1>2, StillPlaced DEF Has
<1>3. CASE SessionBusy(p)
  <2> DEFINE l == [proc[p] EXCEPT !.at = "place", !.busy = conv.busy]
  <2>1. l.users = proc[p].users /\ l.m = proc[p].m /\ l.at \in Owning /\ proc[p].at \in Owning
    BY <1>1, <1>3 DEF SessionBusy, At, LocalType, Owning
  <2>2. Be(p, l) /\ InPlace
    BY <1>3, KeptBoard DEF SessionBusy
  <2> HIDE DEF l
  <2> QED
    BY <1>2, <2>1, <2>2
<1>4. CASE SessionPlaces(p)
  <2> DEFINE m == proc[p].m
  <2>1. proc[p].at \in Owning /\ UNCHANGED <<conv, hist>>
    BY <1>4 DEF SessionPlaces, At, Owning
  <2>2. m \in Msgs /\ \A x : Has(proc[p], x) <=> x = m
    BY <1>1, <2>1, HandsOne
  <2>3. ASSUME NEW s \in {"join", "push"}, Goto(p, s), board' = Appended(board, m) PROVE Placed'
    <3> DEFINE l == [proc[p] EXCEPT !.at = s]
    <3>1. l.users = proc[p].users /\ l.m = proc[p].m /\ l.at \in Owning
      BY <1>1 DEF LocalType, Owning
    <3>2. Be(p, l)
      BY <2>3 DEF Goto
    <3>3. InPlace
      BY <1>1, <2>1, <2>2, <2>3, AppendedTyped, KeptBoard
    <3> HIDE DEF l
    <3> QED
      BY <1>2, <2>1, <3>1, <3>2, <3>3
  <2>4. ASSUME board'.queue = Append(board.queue, m), NEW l, Be(p, l), Free(l) PROVE Placed'
    <3>1. In(board'.queue) = In(board.queue) \union {m}
      BY <1>1, <2>2, <2>4, AppendIn DEF BoardType
    <3>2. proc'[p] = l /\ \A q \in Procs \ {p} : proc'[q] = proc[q]
      BY <1>1, <2>4, BeOne
    <3>3. /\ m \notin In(board.queue) /\ m \notin In(conv.pending) /\ hist.given[m] = 0
          /\ m \notin hist.deleted /\ m \notin hist.lost /\ m \in hist.sent
          /\ \A q \in Procs \ {p} : ~ Has(proc[q], m)
      BY <1>1, <2>2, OnlyInHand DEF Placed
    <3>4. \A x : ~ Has(l, x)
      BY <2>4, FreeHas
    <3> HIDE DEF m
    <3> QED
      BY <1>1, <2>1, <2>2, <3>1, <3>2, <3>3, <3>4, OneMoves DEF Spots
  <2>5. /\ proc[p].users = <<>>
    BY <1>1, <2>1, HandsOne
  <2>6. CASE proc[p].steer /\ (proc[p].busy \/ proc[p].work # None)
    BY <1>4, <2>3, <2>6 DEF SessionPlaces
  <2>7. CASE ~ proc[p].steer /\ proc[p].work # None
    <3> DEFINE l == [proc[p] EXCEPT !.at = "ask"]
    <3>1. Be(p, l) /\ board' = [[board EXCEPT !.queue = Append(@, m)] EXCEPT !.deciding = @ \union {m}]
      BY <1>4, <2>7 DEF SessionPlaces, Goto
    <3>2. Free(l)
      BY <1>1, <2>5 DEF Free, LocalType, Owning
    <3>3. board'.queue = Append(board.queue, m)
      BY <1>1, <3>1 DEF BoardType
    <3> HIDE DEF l
    <3> QED
      BY <2>4, <3>1, <3>2, <3>3
  <2>8. CASE ~ proc[p].steer /\ proc[p].work = None /\ proc[p].busy
    <3>1. Be(p, Off) /\ board' = [board EXCEPT !.queue = Append(@, m)]
      BY <1>4, <2>8 DEF SessionPlaces
    <3>2. board'.queue = Append(board.queue, m)
      BY <1>1, <3>1 DEF BoardType
    <3> QED
      BY <2>4, <3>1, <3>2, FreeOff
  <2>9. CASE proc[p].work = None /\ ~ proc[p].busy
    BY <1>4, <2>3, <2>9 DEF SessionPlaces
  <2> QED
    BY <1>1, <2>6, <2>7, <2>8, <2>9
<1>5. CASE SessionPushes(p)
  <2>1. proc[p].at \in Owning /\ Be(p, Off) /\ UNCHANGED <<board, hist>>
    BY <1>5 DEF SessionPushes, At, Owning
  <2>2. conv'.pending = Append(conv.pending, proc[p].m)
    BY <1>1, <1>5 DEF SessionPushes, ConvType
  <2> QED
    BY <1>1, <2>1, <2>2, FreeOff, HandPushes
<1>6. CASE AskFollowUp(p)
  <2>1. conv'.pending = conv.pending /\ board' = board
    BY <1>1, <1>6 DEF AskFollowUp, ConvType
  <2>2. InPlace
    BY <1>1, <1>6, <2>1 DEF AskFollowUp, HistType, InPlace
  <2>3. Free(proc[p])
    BY <1>1, <1>6, FreeAt DEF AskFollowUp, At, Claimed, Owning
  <2>4. Free([proc[p] EXCEPT !.at = "envelope"])
    BY <1>1, <2>3 DEF Free, LocalType, Owning
  <2> QED
    BY <1>1, <1>6, <2>2, <2>3, <2>4, FreeOff, StillFree DEF AskFollowUp, Goto
<1> QED
  BY <1>3, <1>4, <1>5, <1>6

LEMMA PlacedUser ==
    ASSUME Typed, Placed, NEW p \in Callers,
           \/ \E m \in Msgs : SteerQueued(p, m) \/ DeleteQueued(p, m) \/ MoveQueued(p, m)
           \/ Interrupt(p) \/ InterruptPauses(p) \/ InterruptStops(p) \/ ResumeQueue(p)
    PROVE  Placed'
<1>1. /\ p \in Procs /\ board \in BoardType /\ conv \in ConvType /\ hist \in HistType
      /\ proc[p] \in LocalType
  BY DEF Typed, TypedBoard, TypedConv, TypedHist, TypedProc, Procs
<1>2. ASSUME NEW m \in Msgs, SteerQueued(p, m) PROVE Placed'
  <2>1. Free([Off EXCEPT !.at = "take", !.m = m, !.work = Working(board)])
    BY DEF Free, Off, Owning
  <2>2. InPlace /\ Free(proc[p])
    BY <1>1, <1>2, KeptBoard, OffFree DEF SteerQueued
  <2> QED
    BY <1>1, <1>2, <2>1, <2>2, StillFree DEF SteerQueued
<1>3. ASSUME NEW m \in Msgs, DeleteQueued(p, m) PROVE Placed'
  <2>1. In(board'.queue) = In(board.queue) \ {m}
    BY <1>1, <1>3, TakenTyped, WithoutIn DEF DeleteQueued, BoardType
  <2>2. /\ m \notin In(conv.pending) /\ hist.given[m] = 0 /\ m \notin hist.deleted
        /\ m \notin hist.lost /\ m \in hist.sent /\ \A q \in Procs : ~ Has(proc[q], m)
    BY <1>3, OnlyQueued DEF Placed, DeleteQueued
  <2>3. /\ hist'.given = hist.given /\ hist'.deleted = hist.deleted \union {m} /\ hist'.lost = hist.lost
        /\ hist'.sent = hist.sent /\ hist'.mishaps = hist.mishaps /\ UNCHANGED <<conv, proc>>
    BY <1>1, <1>3 DEF DeleteQueued, HistType
  <2> QED
    BY <1>1, <2>1, <2>2, <2>3, OneMoves DEF Spots
<1>4. ASSUME NEW m \in Msgs, MoveQueued(p, m) PROVE Placed'
  <2>1. Without(board.queue, m) \in Seq(Msgs) /\ In(Without(board.queue, m)) = In(board.queue) \ {m}
    BY <1>1, WithoutIn DEF BoardType
  <2>2. <<m>> \in Seq(Msgs) /\ In(<<m>>) = {m}
    BY DEF In
  <2>3. In(board'.queue) = {m} \union (In(board.queue) \ {m})
    <3>1. board'.queue = <<m>> \o Without(board.queue, m)
      BY <1>1, <1>4 DEF MoveQueued, BoardType
    <3> DEFINE one == <<m>>
               rest == Without(board.queue, m)
    <3> HIDE DEF one, rest
    <3>3. one \in Seq(Msgs) /\ rest \in Seq(Msgs)
      BY <2>1, <2>2 DEF one, rest
    <3>4. In(one \o rest) = In(one) \union In(rest)
      BY <3>3, ConcatIn
    <3>2. In(<<m>> \o Without(board.queue, m)) = In(<<m>>) \union In(Without(board.queue, m))
      BY <3>4 DEF one, rest
    <3> QED
      BY <2>1, <2>2, <3>1, <3>2
  <2>4. In(board'.queue) = In(board.queue)
    BY <1>4, <2>3 DEF MoveQueued
  <2>5. InPlace
    BY <1>1, <1>4, <2>4 DEF MoveQueued, InPlace
  <2> QED
    BY <1>4, <2>5, StillElsewhere DEF MoveQueued
<1>5. CASE Interrupt(p)
  <2>1. Free([Off EXCEPT !.at = "pause", !.cli = conv.cli])
    BY DEF Free, Off, Owning
  <2>2. InPlace /\ Free(proc[p])
    BY <1>1, <1>5, KeptHappened, OffFree DEF Interrupt
  <2> QED
    BY <1>1, <1>5, <2>1, <2>2, StillFree DEF Interrupt
<1>6. CASE InterruptPauses(p) \/ InterruptStops(p)
  <2>1. Free(proc[p])
    BY <1>1, <1>6, FreeAt DEF InterruptPauses, InterruptStops, At, Claimed, Owning
  <2>2. Free([proc[p] EXCEPT !.at = "stop"])
    BY <1>1, <2>1 DEF Free, LocalType, Owning
  <2>3. board'.queue = board.queue
    BY <1>1, <1>6 DEF InterruptPauses, InterruptStops, BoardType
  <2>4. InPlace
    BY <1>6, <2>3, KeptBoard DEF InterruptPauses, InterruptStops
  <2> QED
    BY <1>1, <1>6, <2>1, <2>2, <2>4, FreeOff, StillFree DEF InterruptPauses, InterruptStops, Goto
<1>7. CASE ResumeQueue(p)
  <2>1. board'.queue = board.queue
    BY <1>1, <1>7 DEF ResumeQueue, BoardType
  <2> QED
    BY <1>7, <2>1, KeptBoard, StillElsewhere DEF ResumeQueue
<1> QED
  BY <1>2, <1>3, <1>4, <1>5, <1>6, <1>7

LEMMA PlacedClient == ASSUME Typed, Placed, NEW p \in Callers, Client(p) PROVE Placed'
BY PlacedChatSends, PlacedSessionSends, PlacedSession, PlacedUser DEF Client

(* The driver that takes the turn has in its hands what waited for one. *)
LEMMA ClaimPlaced ==
    ASSUME Typed, Placed, NEW d \in Drivers, Free(proc[d]), NEW envs, NEW rest,
           Claim(d, conv.pending, envs, rest), UNCHANGED <<board, hist>>
    PROVE  Placed'
<1>1. /\ d \in Procs /\ conv \in ConvType /\ proc[d] \in LocalType
  BY DEF Typed, TypedConv, TypedProc, Procs
<1> DEFINE l == [Settle(proc[d], "start") EXCEPT !.users = conv.pending, !.envs = envs, !.m = None]
<1>2. Be(d, l) /\ conv'.pending = <<>>
  BY <1>1 DEF Claim, ConvType
<1>3. l.users = conv.pending /\ l.at \notin Owning
  BY <1>1 DEF Settle, LocalType, Owning
<1> HIDE DEF l
<1>4. proc'[d] = l /\ \A q \in Procs \ {d} : proc'[q] = proc[q]
  BY <1>1, <1>2, BeOne
<1>5. \A x : (Has(l, x) <=> x \in In(conv.pending)) /\ ~ Has(proc[d], x)
  BY <1>3, FreeHas DEF Has
<1>6. In(conv'.pending) = {}
  BY <1>2, NothingIn
<1> SUFFICES ASSUME NEW m \in Msgs PROVE InOne(m)'
  BY DEF Placed
<1>7. CASE m \in In(conv.pending)
  <2>1. /\ m \notin In(board.queue) /\ hist.given[m] = 0
        /\ m \notin hist.deleted /\ m \notin hist.lost /\ m \in hist.sent
        /\ \A q \in Procs : ~ Has(proc[q], m)
    BY <1>7, OnlyPending DEF Placed
  <2>2. \A q \in Procs \ {d} : ~ Has(proc'[q], m)
    BY <1>4, <2>1
  <2> QED
    BY <1>1, <1>4, <1>5, <1>6, <1>7, <2>1, <2>2, Arrives DEF Spots
<1>8. CASE m \notin In(conv.pending)
  <2>1. \A q \in Procs : Has(proc'[q], m) <=> Has(proc[q], m)
    BY <1>4, <1>5, <1>8
  <2>2. Unmoved(m)
    BY <1>6, <1>8, <2>1 DEF Unmoved
  <2> QED
    BY <2>2, Stays DEF Placed
<1> QED
  BY <1>7, <1>8

LEMMA GivesUpBe ==
    ASSUME Typed, NEW d \in Procs, proc[d].users = <<>>, GivesUp(d)
    PROVE  \E l : Be(d, l) /\ Free(l)
<1>1. proc[d] \in LocalType
  BY DEF Typed, TypedProc
<1>2. Free(Settle(proc[d], "off"))
  BY <1>1 DEF Free, Settle, LocalType, Owning
<1> QED
  BY <1>2, FreeOff DEF GivesUp

LEMMA PlacedDriverTurn == ASSUME Typed, Placed, NEW d \in Drivers, DriverTurn(d) PROVE Placed'
<1>1. d \in Procs /\ conv \in ConvType /\ proc[d] \in LocalType
  BY DEF Typed, TypedConv, TypedProc, Procs
<1>2. Free(proc[d]) /\ UNCHANGED <<board, hist>>
  BY <1>1, FreeAt DEF DriverTurn, DriverBegins, At, Claimed, Owning
<1>3. ASSUME UNCHANGED conv, NEW l, Be(d, l), Free(l) PROVE Placed'
  BY <1>1, <1>2, <1>3, KeptBoard, StillFree
<1>4. CASE conv.busy
  BY <1>3, <1>4, FreeOff DEF DriverTurn
<1>5. CASE ~ conv.busy /\ conv.pending # <<>>
  BY <1>2, <1>5, ClaimPlaced DEF DriverTurn
<1>6. CASE ~ conv.busy /\ conv.pending = <<>> /\ conv.inbox # <<>>
  <2>1. \E envs, rest : Claim(d, conv.pending, envs, rest)
    BY <1>6 DEF DriverTurn
  <2> QED
    BY <1>2, <2>1, ClaimPlaced
<1>7. CASE ~ conv.busy /\ conv.pending = <<>> /\ conv.inbox = <<>>
  <2>1. Free([proc[d] EXCEPT !.at = "peek"])
    BY <1>1, <1>2 DEF Free, LocalType, Owning
  <2>2. \A r : Free(Settle(proc[d], r))
    BY <1>1, <1>2 DEF Free, Settle, LocalType, Owning
  <2> QED
    BY <1>3, <1>7, <2>1, <2>2 DEF DriverTurn, Goto
<1> QED
  BY <1>4, <1>5, <1>6, <1>7

LEMMA PlacedQueue ==
    ASSUME Typed, Placed, NEW d \in Drivers,
           \/ QueueMayGo(d) \/ QueueReady(d) \/ QueuePeek(d) \/ QueueTake(d)
           \/ EnsureCli(d) \/ CliFailsToStart(d)
    PROVE  Placed'
<1>1. d \in Procs /\ conv \in ConvType /\ proc[d] \in LocalType
  BY DEF Typed, TypedConv, TypedProc, Procs
<1>2. CASE QueueMayGo(d) \/ QueueReady(d) \/ QueuePeek(d) \/ QueueTake(d)
  <2>1. Free(proc[d]) /\ UNCHANGED <<conv, hist>>
    BY <1>1, <1>2, FreeAt DEF QueueMayGo, QueueReady, QueuePeek, QueueTake, At, Claimed, Owning
  <2>2. ASSUME UNCHANGED board, NEW l, Be(d, l), Free(l) PROVE Placed'
    BY <1>1, <2>1, <2>2, KeptBoard, StillFree
  <2>3. ASSUME UNCHANGED board, GivesUp(d) PROVE Placed'
    BY <1>1, <2>1, <2>2, <2>3, GivesUpBe DEF Free
  <2>4. Free([proc[d] EXCEPT !.at = "ready"]) /\ Free([proc[d] EXCEPT !.at = "peek"])
    BY <1>1, <2>1 DEF Free, LocalType, Owning
  <2>5. Free([proc[d] EXCEPT !.at = "take", !.m = Head(board.queue)])
    BY <1>1, <2>1 DEF Free, LocalType, Owning
  <2>6. CASE QueueMayGo(d) \/ QueueReady(d)
    BY <2>2, <2>4, <2>6, FreeOff DEF QueueMayGo, QueueReady, Goto
  <2>7. CASE QueuePeek(d)
    BY <2>2, <2>3, <2>5, <2>7 DEF QueuePeek
  <2>8. CASE QueueTake(d)
    BY <1>1, <2>1, <2>3, <2>8, TakePlaced DEF QueueTake
  <2> QED
    BY <1>2, <2>6, <2>7, <2>8
<1>3. CASE EnsureCli(d) \/ CliFailsToStart(d)
  <2>1. proc[d].at = "start" /\ UNCHANGED board /\ conv'.pending = conv.pending
    BY <1>1, <1>3 DEF EnsureCli, CliFailsToStart, At, ConvType
  <2>2. InPlace
    BY <1>3, <2>1, KeptBoard, KeptHappened DEF EnsureCli, CliFailsToStart
  <2>3. ASSUME NEW l, Be(d, l), l.users = proc[d].users, l.at \notin Owning PROVE Placed'
    <3>1. proc[d].at \notin Owning
      BY <2>1 DEF Owning
    <3> QED
      BY <1>1, <2>2, <2>3, <3>1, StillPlaced DEF Has
  <2>4. CASE EnsureCli(d)
    <3>1. PICK c : Be(d, [proc[d] EXCEPT !.at = "send", !.cli = c])
      BY <2>4 DEF EnsureCli
    <3> DEFINE l == [proc[d] EXCEPT !.at = "send", !.cli = c]
    <3>2. Be(d, l) /\ l.users = proc[d].users /\ l.at \notin Owning
      BY <1>1, <3>1 DEF LocalType, Owning
    <3> HIDE DEF l
    <3> QED
      BY <2>3, <3>2
  <2>5. CASE CliFailsToStart(d)
    <3> DEFINE l == [proc[d] EXCEPT !.at = "fail"]
    <3>2. Be(d, l) /\ l.users = proc[d].users /\ l.at \notin Owning
      BY <1>1, <2>5 DEF CliFailsToStart, Goto, LocalType, Owning
    <3> HIDE DEF l
    <3> QED
      BY <2>3, <3>2
  <2> QED
    BY <1>3, <2>4, <2>5
<1> QED
  BY <1>2, <1>3

LEMMA PlacedQueueAppend ==
    ASSUME Typed, Placed, Locking, NEW d \in Drivers, QueueAppend(d) \/ QueueAppendFails(d)
    PROVE  Placed'
<1>1. /\ d \in Procs /\ conv \in ConvType /\ board \in BoardType
  BY DEF Typed, TypedConv, TypedBoard, Procs
<1>2. proc[d].at = "append" /\ proc[d].at \in Owning
  BY DEF QueueAppend, QueueAppendFails, At, Owning
<1>3. /\ proc[d] \in LocalType /\ proc[d].users = <<>> /\ proc[d].m \in Msgs
      /\ \A x : Has(proc[d], x) <=> x = proc[d].m
  BY <1>1, <1>2, HandsOne
<1>4. CASE QueueAppendFails(d)
  BY <1>1, <1>2, <1>3, <1>4, GivesUpBe, LostPlaced DEF QueueAppendFails
<1>5. CASE QueueAppend(d)
  <2>1. board'.queue = board.queue /\ UNCHANGED hist
    BY <1>1, <1>3, <1>5, AppendedTyped DEF QueueAppend
  <2>2. CASE kind = "chat"
    <3>1. conv.pending = <<>>
      BY <1>2, <2>2 DEF Locking, Holding
    <3> DEFINE l == [Settle(proc[d], "start") EXCEPT !.users = <<proc[d].m>>, !.envs = <<>>, !.m = None]
    <3>2. Be(d, l) /\ conv'.pending = <<>>
      BY <1>1, <1>5, <2>2 DEF QueueAppend, Claim, ConvType
    <3>3. l.users = <<proc[d].m>> /\ l.at \notin Owning
      BY <1>3 DEF Settle, LocalType, Owning
    <3>4. In(<<proc[d].m>>) = {proc[d].m}
      BY DEF In
    <3> HIDE DEF l
    <3>5. \A x : Has(l, x) <=> Has(proc[d], x)
      BY <1>3, <3>3, <3>4 DEF Has
    <3>6. InPlace
      BY <2>1, <3>1, <3>2, KeptBoard
    <3> QED
      BY <1>1, <3>2, <3>5, <3>6, StillPlaced
  <2>3. CASE kind # "chat"
    <3> DEFINE l == [proc[d] EXCEPT !.at = "turn", !.m = None, !.sent = TRUE]
    <3>1. Be(d, l) /\ conv'.pending = Append(conv.pending, proc[d].m)
      BY <1>1, <1>5, <2>3 DEF QueueAppend, ConvType
    <3>2. Free(l)
      BY <1>3 DEF Free, LocalType, Owning
    <3> HIDE DEF l
    <3> QED
      BY <1>1, <1>2, <2>1, <3>1, <3>2, HandPushes
  <2> QED
    BY <2>2, <2>3
<1> QED
  BY <1>4, <1>5

LEMMA PlacedSend == ASSUME Typed, Placed, NEW d \in Drivers, SendTurn(d) PROVE Placed'
<1>1. /\ d \in Procs /\ hist \in HistType /\ proc[d] \in LocalType
      /\ proc[d].at = "send" /\ UNCHANGED <<board, conv>>
  BY DEF Typed, TypedHist, TypedProc, Procs, SendTurn, At
<1>2. \A m : Has(proc[d], m) <=> m \in In(proc[d].users)
  BY <1>1 DEF Has, Owning
<1>3. CASE clis[proc[d].cli].state = "gone"
  <2> DEFINE l == [proc[d] EXCEPT !.at = "fail"]
  <2>1. Be(d, l) /\ InPlace
    BY <1>1, <1>3, KeptBoard DEF SendTurn, Goto
  <2>2. l.users = proc[d].users /\ l.at \notin Owning
    BY <1>1 DEF LocalType, Owning
  <2> HIDE DEF l
  <2>3. \A m : Has(l, m) <=> Has(proc[d], m)
    BY <1>2, <2>2 DEF Has
  <2> QED
    BY <1>1, <2>1, <2>3, StillPlaced
<1>4. CASE clis[proc[d].cli].state # "gone"
  <2>1. /\ Be(d, Off)
        /\ hist' = [Gave(hist, proc[d].users) EXCEPT
                      !.told = @ \union ({env.item : env \in In(proc[d].envs)} \ {None})]
    BY <1>4 DEF SendTurn
  <2>2. /\ \A m \in Msgs : hist'.given[m] = hist.given[m] + IF m \in In(proc[d].users) THEN 1 ELSE 0
        /\ hist'.deleted = hist.deleted /\ hist'.lost = hist.lost /\ hist'.mishaps = hist.mishaps
        /\ hist'.sent = hist.sent
    BY <1>1, <2>1, GaveTyped DEF HistType
  <2>3. proc'[d] = Off /\ \A q \in Procs \ {d} : proc'[q] = proc[q]
    BY <1>1, <2>1, BeOne
  <2> SUFFICES ASSUME NEW m \in Msgs PROVE InOne(m)'
    BY DEF Placed
  <2>4. ~ Has(proc'[d], m) /\ hist.given[m] \in Nat
    BY <1>1, <2>3, FreeOff, FreeHas DEF HistType
  <2>5. CASE m \in In(proc[d].users)
    <3>1. /\ m \notin In(board.queue) /\ m \notin In(conv.pending) /\ hist.given[m] = 0
          /\ m \notin hist.deleted /\ m \notin hist.lost /\ m \in hist.sent
          /\ \A q \in Procs : Has(proc[q], m) => q = d
      BY <1>1, <1>2, <2>5, OnlyInHand DEF Placed
    <3>2. hist'.given[m] = 1
      BY <2>2, <2>5, <3>1
    <3>3. \A q \in Procs \ {d} : ~ Has(proc'[q], m)
      BY <2>3, <3>1
    <3> QED
      BY <1>1, <2>2, <2>4, <3>1, <3>2, <3>3, Arrives DEF Spots
  <2>6. CASE m \notin In(proc[d].users)
    <3>1. \A q \in Procs : Has(proc'[q], m) <=> Has(proc[q], m)
      BY <1>2, <2>3, <2>4, <2>6
    <3>2. hist'.given[m] = hist.given[m]
      BY <2>2, <2>4, <2>6
    <3>3. Unmoved(m)
      BY <1>1, <2>2, <3>1, <3>2 DEF Unmoved
    <3> QED
      BY <3>3, Stays DEF Placed
  <2> QED
    BY <2>5, <2>6
<1> QED
  BY <1>3, <1>4

LEMMA PlacedFail == ASSUME Typed, Placed, NEW d \in Drivers, FailTurn(d) PROVE Placed'
<1>1. /\ d \in Procs /\ conv \in ConvType /\ proc[d] \in LocalType
      /\ proc[d].at = "fail" /\ UNCHANGED <<board, hist>>
  BY DEF Typed, TypedConv, TypedProc, Procs, FailTurn, At
<1>2. \A m : Has(proc[d], m) <=> m \in In(proc[d].users)
  BY <1>1 DEF Has, Owning
<1>3. In(conv'.pending) = In(proc[d].users) \union In(conv.pending)
  <2>1. conv'.pending = proc[d].users \o conv.pending
    BY <1>1 DEF FailTurn, ConvType
  <2>2. proc[d].users \in Seq(Msgs) /\ conv.pending \in Seq(Msgs)
    BY <1>1 DEF ConvType, LocalType
  <2> QED
    BY <2>1, <2>2, ConcatIn
<1>4. Be(d, Unask(conv.asked, "off"))
  BY DEF FailTurn
<1>5. /\ \A q \in Procs \ {d} : proc'[q] = proc[q]
      /\ \A m : ~ Has(proc'[d], m)
  BY <1>1, <1>4, BeOne, FreeOff, FreeHas
<1> SUFFICES ASSUME NEW m \in Msgs PROVE InOne(m)'
  BY DEF Placed
<1>6. CASE m \in In(proc[d].users)
  <2>1. /\ m \notin In(board.queue) /\ hist.given[m] = 0
        /\ m \notin hist.deleted /\ m \notin hist.lost /\ m \in hist.sent
        /\ \A q \in Procs : Has(proc[q], m) => q = d
    BY <1>1, <1>2, <1>6, OnlyInHand DEF Placed
  <2>2. \A q \in Procs \ {d} : ~ Has(proc'[q], m)
    BY <1>5, <2>1
  <2> QED
    BY <1>1, <1>3, <1>5, <1>6, <2>1, <2>2, Arrives DEF Spots
<1>7. CASE m \notin In(proc[d].users)
  <2>1. \A q \in Procs : Has(proc'[q], m) <=> Has(proc[q], m)
    BY <1>2, <1>5, <1>7
  <2>2. Unmoved(m)
    BY <1>1, <1>3, <1>7, <2>1 DEF Unmoved
  <2> QED
    BY <2>2, Stays DEF Placed
<1> QED
  BY <1>6, <1>7

LEMMA PlacedRestart == ASSUME Typed, Placed, Restart PROVE Placed'
<1>1. /\ board \in BoardType /\ hist \in HistType
  BY DEF Typed, TypedBoard, TypedHist
<1>2. \A p \in Procs : Free(proc'[p])
  BY FreeOff DEF Restart
<1>3. board'.queue = board.queue /\ conv'.pending = <<>>
  BY <1>1 DEF Restart, ConvDefault, BoardType
<1>4. /\ hist'.given = hist.given /\ hist'.deleted = hist.deleted /\ hist'.lost = hist.lost
      /\ hist'.sent = hist.sent /\ "kill" \in hist'.mishaps
  BY <1>1 DEF Restart, Happened, HistType
<1> SUFFICES ASSUME NEW m \in Msgs PROVE InOne(m)'
  BY DEF Placed
<1>5. \A s \in Spots : Lies(m, s)' => Lies(m, s)
  BY <1>2, <1>3, <1>4, FreeHas, NothingIn DEF Lies
<1>6. \A p \in Procs : ~ Has(proc'[p], m)
  BY <1>2, FreeHas
<1>7. InOne(m)
  BY DEF Placed
<1> QED
  BY <1>4, <1>5, <1>6, <1>7 DEF InOne

LEMMA PlacedStep == ASSUME Typed, Placed, Locking, [Next]_vars PROVE Placed'
<1>1. ASSUME NEW d \in Drivers, Driver(d) PROVE Placed'
  BY <1>1, PlacedDriverTurn, PlacedQueue, PlacedQueueAppend, PlacedSend, PlacedFail DEF Driver
<1>2. CASE UNCHANGED vars
  BY <1>2, KeptBoard, StillElsewhere DEF vars
<1> QED
  BY <1>1, <1>2, PlacedClient, PlacedCli, PlacedOrchestrator, PlacedCommon, PlacedRestart DEF Next

-----------------------------------------------------------------------------
(* The queue. *)

LEMMA ConcatOnce ==
    ASSUME NEW S, NEW q \in Seq(S), NEW r \in Seq(S), NoneTwice(q), NoneTwice(r),
           In(q) \intersect In(r) = {}
    PROVE  NoneTwice(q \o r)
<1>1. /\ DOMAIN q = 1 .. Len(q) /\ DOMAIN r = 1 .. Len(r) /\ Len(q) \in Nat /\ Len(r) \in Nat
      /\ q \o r \in Seq(S) /\ Len(q \o r) = Len(q) + Len(r)
      /\ \A i \in 1 .. Len(q) + Len(r) : (q \o r)[i] = IF i <= Len(q) THEN q[i] ELSE r[i - Len(q)]
  OBVIOUS
<1>2. DOMAIN (q \o r) = 1 .. Len(q) + Len(r)
  BY <1>1
<1> DEFINE s == q \o r
<1> SUFFICES ASSUME NEW i \in DOMAIN s, NEW j \in DOMAIN s, s[i] = s[j] PROVE i = j
  BY DEF NoneTwice
<1>3. i \in 1 .. Len(q) + Len(r) /\ j \in 1 .. Len(q) + Len(r)
  BY <1>2
<1>4. CASE i <= Len(q) /\ j <= Len(q)
  BY <1>1, <1>3, <1>4 DEF NoneTwice
<1>5. CASE i > Len(q) /\ j > Len(q)
  <2>1. i - Len(q) \in DOMAIN r /\ j - Len(q) \in DOMAIN r /\ r[i - Len(q)] = r[j - Len(q)]
    BY <1>1, <1>3, <1>5
  <2>2. i - Len(q) = j - Len(q)
    BY <2>1 DEF NoneTwice
  <2> QED
    BY <1>1, <1>3, <2>2
<1>6. ASSUME NEW a \in 1 .. Len(q), NEW b \in 1 .. Len(q) + Len(r), b > Len(q) PROVE s[a] # s[b]
  <2>1. a \in DOMAIN q /\ b - Len(q) \in DOMAIN r /\ s[a] = q[a] /\ s[b] = r[b - Len(q)]
    BY <1>1, <1>6
  <2>2. q[a] \in In(q) /\ r[b - Len(q)] \in In(r)
    BY <2>1 DEF In
  <2> QED
    BY <2>1, <2>2
<1> QED
  BY <1>1, <1>3, <1>4, <1>5, <1>6

LEMMA QueuedKept ==
    ASSUME Queued, board'.queue = board.queue, board'.deciding \subseteq board.deciding
    PROVE  Queued'
BY DEF Queued

LEMMA QueuedTaken ==
    ASSUME Typed, Queued, NEW m, board' = Taken(board, m)
    PROVE  Queued'
<1>1. board \in BoardType /\ board.queue \in Seq(Msgs)
  BY DEF Typed, TypedBoard, BoardType
<1> QED
  BY <1>1, TakenTyped, WithoutIn DEF Queued

LEMMA QueuedAppended ==
    ASSUME Typed, Queued, NEW m \in Msgs, board' = Appended(board, m)
    PROVE  Queued'
BY AppendedTyped DEF Typed, TypedBoard, Queued

LEMMA QueuedAppends ==
    ASSUME Typed, Queued, NEW m \in Msgs, m \notin In(board.queue),
           board'.queue = Append(board.queue, m), board'.deciding \subseteq board.deciding \union {m}
    PROVE  Queued'
<1>1. board.queue \in Seq(Msgs)
  BY DEF Typed, TypedBoard, BoardType
<1> QED
  BY <1>1, AppendIn DEF Queued

LEMMA QueuedClient == ASSUME Typed, Queued, Placed, NEW p \in Callers, Client(p) PROVE Queued'
<1>1. /\ p \in Procs /\ board \in BoardType /\ proc[p] \in LocalType
  BY DEF Typed, TypedBoard, TypedProc, Procs
<1>2. ASSUME NEW m \in Msgs, NEW steer \in BOOLEAN, ChatSends(p, m, steer) PROVE Queued'
  <2>1. CASE board' = Appended(board, m)
    BY <2>1, QueuedAppended
  <2>2. CASE board' = [board EXCEPT !.queue = Append(@, m)]
    <3>1. m \notin In(board.queue)
      BY <1>2, NewIsNowhere DEF ChatSends
    <3>2. board'.queue = Append(board.queue, m) /\ board'.deciding = board.deciding
      BY <1>1, <2>2 DEF BoardType
    <3> QED
      BY <3>1, <3>2, QueuedAppends
  <2> QED
    BY <1>2, <2>1, <2>2 DEF ChatSends
<1>3. CASE SessionPlaces(p)
  <2> DEFINE m == proc[p].m
  <2>1. proc[p].at \in Owning
    BY <1>3 DEF SessionPlaces, At, Owning
  <2>2. m \in Msgs /\ Has(proc[p], m)
    BY <1>1, <2>1, HandsOne
  <2>3. m \notin In(board.queue)
    BY <1>1, <2>2, OnlyInHand DEF Placed
  <2> DEFINE queued == [board EXCEPT !.queue = Append(@, m)]
  <2>4. \/ board' = Appended(board, m)
        \/ board' = [queued EXCEPT !.deciding = @ \union {m}]
        \/ board' = queued
    BY <1>3 DEF SessionPlaces
  <2>5. CASE board' = Appended(board, m)
    BY <2>2, <2>5, QueuedAppended
  <2>6. CASE board' = [queued EXCEPT !.deciding = @ \union {m}] \/ board' = queued
    <3>1. board'.queue = Append(board.queue, m) /\ board'.deciding \subseteq board.deciding \union {m}
      BY <1>1, <2>6 DEF BoardType
    <3> HIDE DEF m
    <3> QED
      BY <2>2, <2>3, <3>1, QueuedAppends
  <2> QED
    BY <2>4, <2>5, <2>6
<1>4. ASSUME NEW m \in Msgs, DeleteQueued(p, m) PROVE Queued'
  BY <1>4, QueuedTaken DEF DeleteQueued
<1>5. ASSUME NEW m \in Msgs, MoveQueued(p, m) PROVE Queued'
  <2> DEFINE one == <<m>>
             rest == Without(board.queue, m)
  <2>1. board'.queue = one \o rest /\ board'.deciding = board.deciding
    BY <1>1, <1>5 DEF MoveQueued, BoardType
  <2>2. one \in Seq(Msgs) /\ In(one) = {m} /\ NoneTwice(one)
    BY DEF In, NoneTwice
  <2>3. board.queue \in Seq(Msgs) /\ m \in In(board.queue)
    BY <1>1, <1>5 DEF BoardType, MoveQueued
  <2>4. rest \in Seq(Msgs) /\ In(rest) = In(board.queue) \ {m} /\ NoneTwice(rest)
    BY <2>3, WithoutIn DEF Queued
  <2> HIDE DEF one, rest
  <2>5. In(one \o rest) = In(one) \union In(rest) /\ NoneTwice(one \o rest)
    BY <2>2, <2>4, ConcatIn, ConcatOnce
  <2> QED
    BY <2>1, <2>2, <2>3, <2>4, <2>5 DEF Queued
<1>6. CASE InterruptPauses(p) \/ ResumeQueue(p)
  <2>1. board'.queue = board.queue /\ board'.deciding = board.deciding
    BY <1>1, <1>6 DEF InterruptPauses, ResumeQueue, BoardType
  <2> QED
    BY <2>1, QueuedKept
<1>7. ASSUME UNCHANGED board PROVE Queued'
  BY <1>7, QueuedKept
<1> QED
  BY <1>2, <1>3, <1>4, <1>5, <1>6, <1>7 DEF Client, SessionSends, SessionBusy, SessionPushes, AskFollowUp,
     SteerQueued, Interrupt, InterruptStops

LEMMA QueuedStep == ASSUME Typed, Queued, Placed, [Next]_vars PROVE Queued'
<1>1. board \in BoardType
  BY DEF Typed, TypedBoard
<1>2. ASSUME UNCHANGED board PROVE Queued'
  BY <1>2, QueuedKept
<1>3. ASSUME board'.queue = board.queue, board'.deciding \subseteq board.deciding PROVE Queued'
  BY <1>3, QueuedKept
<1>4. ASSUME NEW d \in Drivers, Driver(d) PROVE Queued'
  <2>1. d \in Procs
    BY DEF Procs
  <2>2. CASE QueueTake(d)
    BY <1>2, <2>2, QueuedTaken DEF QueueTake
  <2>3. CASE QueueAppend(d)
    <3>1. proc[d].m \in Msgs
      BY <2>1, <2>3, HandsOne DEF QueueAppend, At, Owning
    <3> QED
      BY <2>3, <3>1, QueuedAppended DEF QueueAppend
  <2> QED
    BY <1>2, <1>4, <2>2, <2>3 DEF Driver, DriverTurn, QueueMayGo, QueueReady, QueuePeek, QueueAppendFails,
       EnsureCli, CliFailsToStart, SendTurn, FailTurn
<1>5. ASSUME NEW c \in Clis, Cli(c) PROVE Queued'
  BY <1>2, <1>5 DEF Cli, TurnEnds, CliExits, TurnCompleted, PumpEnds
<1>6. CASE Orchestrator
  <2>1. ASSUME Routed \/ TaskStarts \/ TaskReported PROVE Queued'
    <3>1. board'.queue = board.queue /\ board'.deciding \subseteq board.deciding
      BY <1>1, <2>1 DEF Routed, TaskStarts, TaskReported, BoardType
    <3> QED
      BY <1>3, <3>1
  <2> QED
    BY <1>2, <1>6, <2>1 DEF Orchestrator, RouteFollowUp, TaskAnnounced
<1>7. ASSUME NEW p \in Procs, Common(p) PROVE Queued'
  <2>1. CASE SettleWrite(p) \/ SettleQueued(p) \/ NoteSteered(p)
    <3>1. board'.queue = board.queue /\ board'.deciding \subseteq board.deciding
      BY <1>1, <2>1 DEF SettleWrite, SettleQueued, NoteSteered, BoardType
    <3> QED
      BY <1>3, <3>1
  <2>2. CASE TakesQueued(p)
    BY <1>2, <2>2, QueuedTaken DEF TakesQueued
  <2>3. CASE AppendsTaken(p)
    <3>1. proc[p].m \in Msgs
      BY <2>3, HandsOne DEF AppendsTaken, At, Owning
    <3> QED
      BY <2>3, <3>1, QueuedAppended DEF AppendsTaken
  <2> QED
    BY <1>2, <1>7, <2>1, <2>2, <2>3 DEF Common, SettleRead, SettleWeigh, Deliver, TakenAppendFails, JoinWorking
<1>8. CASE Restart
  <2>1. board'.queue = board.queue /\ board'.deciding = board.deciding
    BY <1>1, <1>8 DEF Restart, BoardType
  <2> QED
    BY <1>3, <2>1
<1>9. CASE UNCHANGED vars
  BY <1>2, <1>9 DEF vars
<1> QED
  BY <1>4, <1>5, <1>6, <1>7, <1>8, <1>9, QueuedClient DEF Next

-----------------------------------------------------------------------------
(* Who settles a message being judged. *)

LEMMA MishapsGrow == ASSUME Typed, [Next]_vars PROVE hist.mishaps \subseteq hist'.mishaps
<1>1. hist \in HistType
  BY DEF Typed, TypedHist
<1>2. ASSUME UNCHANGED hist PROVE hist.mishaps \subseteq hist'.mishaps
  BY <1>2
<1>3. ASSUME NEW what, hist' = Happened(what) PROVE hist.mishaps \subseteq hist'.mishaps
  BY <1>1, <1>3 DEF Happened, HistType
<1>4. ASSUME NEW what, NEW m, hist' = [Happened(what) EXCEPT !.lost = @ \union {m}]
      PROVE  hist.mishaps \subseteq hist'.mishaps
  BY <1>1, <1>4 DEF Happened, HistType
<1>5. ASSUME NEW users, hist' = Gave(hist, users) PROVE hist.mishaps \subseteq hist'.mishaps
  BY <1>1, <1>5 DEF Gave, HistType
<1>6. ASSUME NEW d \in Drivers, Driver(d) PROVE hist.mishaps \subseteq hist'.mishaps
  <2>1. ASSUME SendTurn(d) PROVE hist.mishaps \subseteq hist'.mishaps
    BY <1>1, <2>1 DEF SendTurn, Gave, HistType
  <2> QED
    BY <1>2, <1>3, <1>4, <1>6, <2>1 DEF Driver, DriverTurn, QueueMayGo, QueueReady, QueuePeek, QueueTake,
       QueueAppend, QueueAppendFails, EnsureCli, CliFailsToStart, FailTurn
<1>7. ASSUME NEW p \in Callers, Client(p) PROVE hist.mishaps \subseteq hist'.mishaps
  <2>1. ASSUME NEW m \in Msgs, NEW steer \in BOOLEAN, ChatSends(p, m, steer) \/ SessionSends(p, m, steer)
        PROVE  hist.mishaps \subseteq hist'.mishaps
    BY <1>1, <2>1 DEF ChatSends, SessionSends, Gave, HistType
  <2>2. ASSUME NEW m \in Msgs, AskFollowUp(p) \/ DeleteQueued(p, m)
        PROVE  hist.mishaps \subseteq hist'.mishaps
    BY <1>1, <2>2 DEF AskFollowUp, DeleteQueued, HistType
  <2>3. ASSUME AskFollowUp(p) PROVE hist.mishaps \subseteq hist'.mishaps
    BY <1>1, <2>3 DEF AskFollowUp, HistType
  <2> QED
    BY <1>2, <1>3, <1>7, <2>1, <2>2, <2>3 DEF Client, SessionBusy, SessionPlaces, SessionPushes,
       SteerQueued, MoveQueued, Interrupt, InterruptPauses, InterruptStops, ResumeQueue
<1>8. ASSUME NEW c \in Clis, Cli(c) PROVE hist.mishaps \subseteq hist'.mishaps
  BY <1>2, <1>3, <1>8 DEF Cli, TurnEnds, CliExits, TurnCompleted, PumpEnds
<1>9. ASSUME Orchestrator PROVE hist.mishaps \subseteq hist'.mishaps
  BY <1>2, <1>3, <1>9 DEF Orchestrator, RouteFollowUp, Routed, TaskStarts, TaskAnnounced, TaskReported
<1>10. ASSUME NEW p \in Procs, Common(p) PROVE hist.mishaps \subseteq hist'.mishaps
  BY <1>2, <1>4, <1>5, <1>10 DEF Common, SettleRead, SettleWeigh, SettleWrite, SettleQueued, Deliver,
     TakesQueued, AppendsTaken, TakenAppendFails, JoinWorking, NoteSteered
<1>11. ASSUME Restart PROVE hist.mishaps \subseteq hist'.mishaps
  BY <1>3, <1>11 DEF Restart
<1> QED
  BY <1>2, <1>6, <1>7, <1>8, <1>9, <1>10, <1>11 DEF Next, vars

Waiting == {"ask", "routed", "take"}
Waits(l, m) == m \in l.asked \/ (l.m = m /\ l.at \in Waiting)
Asked(m) == m \in conv.asked \/ \E pair \in conv.asking : pair[1] = m
Looks ==
    "kill" \notin hist.mishaps =>
        \A m \in board.deciding : Asked(m) \/ \E p \in Procs : Waits(proc[p], m)

(* A step of p after which whoever settled m still does. *)
LEMMA LooksStill ==
    ASSUME Looks, hist.mishaps \subseteq hist'.mishaps,
           NEW p \in Procs, \A q \in Procs \ {p} : proc'[q] = proc[q],
           \A m \in board'.deciding :
               \/ Asked(m)' \/ Waits(proc'[p], m)
               \/ m \in board.deciding /\ ~ Asked(m) /\ ~ Waits(proc[p], m)
    PROVE  Looks'
<1> SUFFICES ASSUME "kill" \notin hist.mishaps, NEW m \in board'.deciding
             PROVE  Asked(m)' \/ \E q \in Procs : Waits(proc'[q], m)
  BY DEF Looks
<1>1. CASE m \in board.deciding /\ ~ Asked(m) /\ ~ Waits(proc[p], m)
  <2>1. PICK q \in Procs : Waits(proc[q], m)
    BY <1>1 DEF Looks
  <2>2. proc'[q] = proc[q]
    BY <1>1, <2>1
  <2> QED
    BY <2>1, <2>2
<1> QED
  BY <1>1

(* One that had nothing to settle, and forgets of nothing that it is asked.*)
LEMMA LooksFree ==
    ASSUME Typed, Looks, hist.mishaps \subseteq hist'.mishaps, NEW p \in Procs,
           UNCHANGED proc \/ \E l : Be(p, l),
           proc[p].at \notin Waiting \union {"unasked"} \/ UNCHANGED proc,
           board'.deciding \subseteq board.deciding,
           \A m \in board'.deciding : Asked(m) => Asked(m)'
    PROVE  Looks'
<1>1. CASE UNCHANGED proc
  BY <1>1, LooksStill
<1>2. CASE proc[p].at \notin Waiting \union {"unasked"} /\ \E l : Be(p, l)
  <2>1. \A q \in Procs \ {p} : proc'[q] = proc[q]
    BY <1>2, BeOne
  <2>2. proc[p].asked = {}
    BY <1>2 DEF Typed, TypedProc, Fits
  <2>3. \A m : ~ Waits(proc[p], m)
    BY <1>2, <2>2 DEF Waits
  <2> QED
    BY <2>1, <2>3, LooksStill
<1> QED
  BY <1>1, <1>2

LEMMA LooksDriver ==
    ASSUME Typed, Queued, Looks, hist.mishaps \subseteq hist'.mishaps, NEW d \in Drivers, Driver(d)
    PROVE  Looks'
<1>1. /\ d \in Procs /\ board \in BoardType /\ conv \in ConvType
      /\ proc[d] \in LocalType /\ Fits(proc[d])
  BY DEF Typed, TypedBoard, TypedConv, TypedProc, Procs
<1> USE DEF Waiting
<1>2. ASSUME NEW users, NEW envs, NEW rest, Claim(d, users, envs, rest), board'.deciding = board.deciding,
             proc[d].at \notin Waiting \union {"unasked"}
      PROVE  Looks'
  <2>1. \A m : Asked(m) => Asked(m)'
    <3> DEFINE request == IF users # <<>> THEN LastOf(users) ELSE Head(envs).of
               judged == IF \E env \in In(envs) : env.item # None
                         THEN {pair \in conv.asking : pair[2] = request} ELSE {}
    <3>1. conv'.asking = conv.asking \ judged /\ conv'.asked = conv.asked \union {pair[1] : pair \in judged}
      BY <1>1, <1>2 DEF Claim, ConvType
    <3> QED
      BY <3>1 DEF Asked
  <2>2. \E l : Be(d, l)
    BY <1>2 DEF Claim
  <2> QED
    BY <1>1, <1>2, <2>1, <2>2, LooksFree
<1>3. ASSUME NEW l, Be(d, l), proc[d].at \notin Waiting \union {"unasked"},
             board'.deciding \subseteq board.deciding,
             conv.asked \subseteq conv'.asked, conv.asking \subseteq conv'.asking
      PROVE  Looks'
  <2>1. \A m : Asked(m) => Asked(m)'
    BY <1>3 DEF Asked
  <2> QED
    BY <1>1, <1>3, <2>1, LooksFree
<1>4. CASE DriverTurn(d)
  <2>1. proc[d].at \notin Waiting \union {"unasked"} /\ UNCHANGED board
    BY <1>4 DEF DriverTurn, DriverBegins, At
  <2> QED
    BY <1>2, <1>3, <1>4, <2>1 DEF DriverTurn, Goto
<1>5. CASE QueueMayGo(d) \/ QueueReady(d) \/ QueuePeek(d) \/ CliFailsToStart(d) \/ SendTurn(d)
             \/ QueueAppendFails(d)
  <2>1. proc[d].at \notin Waiting \union {"unasked"} /\ UNCHANGED <<board, conv>>
    BY <1>5 DEF QueueMayGo, QueueReady, QueuePeek, CliFailsToStart, SendTurn, QueueAppendFails, At
  <2>2. \E l : Be(d, l)
    BY <1>5 DEF QueueMayGo, QueueReady, QueuePeek, CliFailsToStart, SendTurn, QueueAppendFails, GivesUp, Goto
  <2> QED
    BY <1>3, <2>1, <2>2
<1>6. CASE QueueTake(d)
  <2>1. board'.deciding \subseteq board.deciding \ {proc[d].m}
    BY <1>1, <1>6, TakenTyped DEF QueueTake, Queued
  <2>2. \E l : Be(d, l)
    BY <1>6 DEF QueueTake, GivesUp, Goto
  <2>3. proc[d].asked = {} /\ UNCHANGED conv
    BY <1>1, <1>6 DEF QueueTake, At, Fits
  <2>4. \A m \in board'.deciding : ~ Waits(proc[d], m)
    BY <2>1, <2>3 DEF Waits
  <2>5. \A m : Asked(m)' <=> Asked(m)
    BY <2>3 DEF Asked
  <2> QED
    BY <1>1, <2>1, <2>2, <2>4, <2>5, BeOne, LooksStill
<1>7. CASE QueueAppend(d)
  <2>1. proc[d].at \notin Waiting \union {"unasked"} /\ proc[d].m \in Msgs
    BY <1>1, <1>7 DEF QueueAppend, At, Fits, OfMessage, Owning
  <2>2. board'.deciding = board.deciding
    BY <1>1, <1>7, <2>1, AppendedTyped DEF QueueAppend
  <2>3. CASE kind = "chat"
    BY <1>2, <1>7, <2>1, <2>2, <2>3 DEF QueueAppend
  <2>4. CASE kind # "chat"
    <3>1. conv'.asked = conv.asked /\ conv'.asking = conv.asking /\ \E l : Be(d, l)
      BY <1>1, <1>7, <2>4 DEF QueueAppend, ConvType
    <3> QED
      BY <1>3, <2>1, <2>2, <3>1
  <2> QED
    BY <2>3, <2>4
<1>8. CASE EnsureCli(d)
  <2>1. /\ conv'.asked = conv.asked /\ conv'.asking = conv.asking /\ UNCHANGED board
        /\ \E l : Be(d, l)
    BY <1>1, <1>8 DEF EnsureCli, ConvType
  <2>2. proc[d].at \notin Waiting \union {"unasked"}
    BY <1>8 DEF EnsureCli, At
  <2> QED
    BY <1>3, <2>1, <2>2
<1>9. CASE FailTurn(d)
  <2>1. conv'.asking = conv.asking /\ UNCHANGED board /\ Be(d, Unask(conv.asked, "off"))
    BY <1>1, <1>9 DEF FailTurn, ConvType
  <2>2. \A m \in conv.asked : m \in Unask(conv.asked, "off").asked
    BY DEF Unask, Off
  <2>3. proc'[d] = Unask(conv.asked, "off") /\ \A q \in Procs \ {d} : proc'[q] = proc[q]
    BY <1>1, <2>1, BeOne
  <2>4. \A m : ~ Waits(proc[d], m)
    BY <1>1, <1>9 DEF FailTurn, At, Fits, Waits
  <2>5. \A m : Asked(m) => Asked(m)' \/ Waits(proc'[d], m)
    BY <2>1, <2>2, <2>3 DEF Asked, Waits
  <2> QED
    BY <1>1, <2>1, <2>3, <2>4, <2>5, LooksStill
<1> QED
  BY <1>4, <1>5, <1>6, <1>7, <1>8, <1>9 DEF Driver

LEMMA LooksClient ==
    ASSUME Typed, Looks, hist.mishaps \subseteq hist'.mishaps, NEW p \in Callers, Client(p)
    PROVE  Looks'
<1>1. /\ p \in Procs /\ board \in BoardType /\ conv \in ConvType
      /\ proc[p] \in LocalType /\ Fits(proc[p])
  BY DEF Typed, TypedBoard, TypedConv, TypedProc, Procs
<1> USE DEF Waiting
<1>2. ASSUME UNCHANGED proc \/ \E l : Be(p, l), proc[p].at \notin Waiting \union {"unasked"},
             board'.deciding \subseteq board.deciding,
             conv.asked \subseteq conv'.asked, conv.asking \subseteq conv'.asking
      PROVE  Looks'
  <2>1. \A m : Asked(m) => Asked(m)'
    BY <1>2 DEF Asked
  <2> QED
    BY <1>1, <1>2, <2>1, LooksFree
<1>3. ASSUME NEW m \in Msgs, NEW steer \in BOOLEAN, ChatSends(p, m, steer) PROVE Looks'
  <2>1. proc[p].at \notin Waiting \union {"unasked"} /\ (UNCHANGED proc \/ \E l : Be(p, l))
    BY <1>3 DEF ChatSends, At
  <2>2. board'.deciding = board.deciding
    <3>1. board' = Appended(board, m) \/ board' = [board EXCEPT !.queue = Append(@, m)]
      BY <1>3 DEF ChatSends
    <3> QED
      BY <1>1, <3>1, AppendedTyped DEF BoardType
  <2>3. conv'.asked = conv.asked /\ conv'.asking = conv.asking
    BY <1>1, <1>3 DEF ChatSends, ConvType
  <2> QED
    BY <1>2, <2>1, <2>2, <2>3
<1>4. ASSUME NEW m \in Msgs, NEW steer \in BOOLEAN, SessionSends(p, m, steer) PROVE Looks'
  BY <1>2, <1>4 DEF SessionSends, At
<1>5. CASE SessionBusy(p)
  BY <1>2, <1>5 DEF SessionBusy, At
<1>6. CASE SessionPushes(p)
  <2>1. conv'.asked = conv.asked /\ conv'.asking = conv.asking
    BY <1>1, <1>6 DEF SessionPushes, ConvType
  <2> QED
    BY <1>2, <1>6, <2>1 DEF SessionPushes, At
<1>7. CASE SessionPlaces(p)
  <2> DEFINE m == proc[p].m
             queued == [board EXCEPT !.queue = Append(@, m)]
  <2>1. proc[p].at = "place" /\ UNCHANGED conv /\ m \in Msgs /\ \E l : Be(p, l)
    BY <1>1, <1>7 DEF SessionPlaces, At, Fits, OfMessage, Owning, Goto
  <2>2. \/ board' = Appended(board, m) \/ board' = queued
        \/ board' = [queued EXCEPT !.deciding = @ \union {m}] /\ Goto(p, "ask")
    BY <1>7 DEF SessionPlaces
  <2>3. CASE board' = Appended(board, m) \/ board' = queued
    <3>1. board'.deciding = board.deciding
      BY <1>1, <2>1, <2>3, AppendedTyped DEF BoardType
    <3> QED
      BY <1>2, <2>1, <3>1
  <2>4. CASE board' = [queued EXCEPT !.deciding = @ \union {m}] /\ Goto(p, "ask")
    <3>1. board'.deciding = board.deciding \union {m}
      BY <1>1, <2>4 DEF BoardType
    <3>2. proc'[p] = [proc[p] EXCEPT !.at = "ask"] /\ \A q \in Procs \ {p} : proc'[q] = proc[q]
      BY <1>1, <2>4, BeOne DEF Goto
    <3>3. Waits(proc'[p], m)
      BY <1>1, <3>2 DEF Waits, LocalType
    <3>4. \A x : ~ Waits(proc[p], x)
      BY <1>1, <2>1 DEF Waits, Fits
    <3>5. \A x : Asked(x) <=> Asked(x)'
      BY <2>1 DEF Asked
    <3> HIDE DEF m
    <3> QED
      BY <1>1, <3>1, <3>2, <3>3, <3>4, <3>5, LooksStill
  <2> QED
    BY <2>2, <2>3, <2>4
<1>8. CASE AskFollowUp(p)
  <2>0. PICK m : m = proc[p].m
    OBVIOUS
  <2>1. proc[p].at = "ask" /\ UNCHANGED board /\ \E l : Be(p, l)
    BY <1>8 DEF AskFollowUp, At, Goto
  <2>2. \/ conv' = [conv EXCEPT !.asked = @ \union {m}]
        \/ conv' = [conv EXCEPT !.asking = @ \union {<<m, proc[p].work>>}]
    BY <1>8, <2>0 DEF AskFollowUp
  <2>3. Asked(m)' /\ \A x : Asked(x) => Asked(x)'
    <3>1. \/ conv'.asked = conv.asked \union {m} /\ conv'.asking = conv.asking
          \/ conv'.asked = conv.asked /\ conv'.asking = conv.asking \union {<<m, proc[p].work>>}
      BY <1>1, <2>2 DEF ConvType
    <3> DEFINE new == <<m, proc[p].work>>
    <3>2. new[1] = m
      OBVIOUS
    <3> HIDE DEF new
    <3>3. m \in conv'.asked \/ new \in conv'.asking
      BY <3>1 DEF new
    <3> QED
      BY <3>1, <3>2, <3>3 DEF Asked
  <2>4. \A x : Waits(proc[p], x) => x = m
    BY <1>1, <2>0, <2>1 DEF Waits, Fits
  <2>5. \A q \in Procs \ {p} : proc'[q] = proc[q]
    BY <1>1, <2>1, BeOne
  <2> QED
    BY <1>1, <2>1, <2>3, <2>4, <2>5, LooksStill
<1>9. ASSUME NEW m \in Msgs, SteerQueued(p, m) PROVE Looks'
  BY <1>2, <1>9 DEF SteerQueued, At
<1>10. ASSUME NEW m \in Msgs, DeleteQueued(p, m) PROVE Looks'
  BY <1>1, <1>2, <1>10, TakenTyped DEF DeleteQueued, At
<1>11. ASSUME NEW m \in Msgs, MoveQueued(p, m) PROVE Looks'
  <2>1. board'.deciding = board.deciding
    BY <1>1, <1>11 DEF MoveQueued, BoardType
  <2> QED
    BY <1>2, <1>11, <2>1 DEF MoveQueued, At
<1>12. CASE Interrupt(p) \/ InterruptStops(p)
  BY <1>2, <1>12 DEF Interrupt, InterruptStops, At
<1>13. CASE InterruptPauses(p) \/ ResumeQueue(p)
  <2>1. board'.deciding = board.deciding
    BY <1>1, <1>13 DEF InterruptPauses, ResumeQueue, BoardType
  <2>2. UNCHANGED conv /\ proc[p].at \notin Waiting \union {"unasked"} /\ (UNCHANGED proc \/ \E l : Be(p, l))
    BY <1>13 DEF InterruptPauses, ResumeQueue, At, Goto
  <2> QED
    BY <1>2, <2>1, <2>2
<1> QED
  BY <1>3, <1>4, <1>5, <1>6, <1>7, <1>8, <1>9, <1>10, <1>11, <1>12, <1>13 DEF Client

LEMMA LooksCli ==
    ASSUME Typed, Looks, hist.mishaps \subseteq hist'.mishaps, NEW c \in Clis, Cli(c)
    PROVE  Looks'
<1>1. c \in Procs /\ conv \in ConvType /\ Fits(proc[c])
  BY DEF Typed, TypedConv, TypedProc, Procs
<1>2. CASE TurnEnds(c) \/ CliExits(c)
  <2>1. UNCHANGED <<board, conv, proc>>
    BY <1>2 DEF TurnEnds, CliExits
  <2> QED
    BY <1>1, <2>1, LooksFree DEF Asked
<1>3. CASE TurnCompleted(c)
  <2>1. conv'.asking = conv.asking /\ UNCHANGED board /\ Be(c, Unask(conv.asked, "kick"))
    BY <1>1, <1>3 DEF TurnCompleted, ConvType
  <2>2. \A m \in conv.asked : m \in Unask(conv.asked, "kick").asked
    BY DEF Unask, Off
  <2>3. proc'[c] = Unask(conv.asked, "kick") /\ \A q \in Procs \ {c} : proc'[q] = proc[q]
    BY <1>1, <2>1, BeOne
  <2>4. \A m : ~ Waits(proc[c], m)
    BY <1>1, <1>3 DEF TurnCompleted, At, Fits, Waits, Waiting
  <2>5. \A m : Asked(m) => Asked(m)' \/ Waits(proc'[c], m)
    BY <2>1, <2>2, <2>3 DEF Asked, Waits
  <2> QED
    BY <1>1, <2>1, <2>3, <2>4, <2>5, LooksStill
<1>4. CASE PumpEnds(c)
  <2>1. /\ conv'.asking = conv.asking /\ conv'.asked = conv.asked /\ UNCHANGED board
        /\ \E l : Be(c, l)
    BY <1>1, <1>4 DEF PumpEnds, ConvType
  <2>2. proc[c].at \notin Waiting \union {"unasked"}
    BY <1>4 DEF PumpEnds, At, Waiting
  <2>3. \A m : Asked(m) => Asked(m)'
    BY <2>1 DEF Asked
  <2> QED
    BY <1>1, <2>1, <2>2, <2>3, LooksFree
<1> QED
  BY <1>2, <1>3, <1>4 DEF Cli

LEMMA LooksOrchestrator ==
    ASSUME Typed, Looks, hist.mishaps \subseteq hist'.mishaps, Orchestrator
    PROVE  Looks'
<1>1. /\ Tool \in Procs /\ Worker \in Procs /\ board \in BoardType /\ conv \in ConvType
      /\ Fits(proc[Tool])
  BY DEF Typed, TypedBoard, TypedConv, TypedProc, Procs
<1>2. ASSUME NEW m \in Msgs, NEW joins \in BOOLEAN, RouteFollowUp(m, joins) PROVE Looks'
  <2> DEFINE l == [Off EXCEPT !.at = "routed", !.m = m, !.steer = joins]
  <2>1. /\ Be(Tool, l) /\ UNCHANGED board
        /\ conv'.asked = conv.asked \ {m} /\ conv'.asking = {pair \in conv.asking : pair[1] # m}
    BY <1>1, <1>2 DEF RouteFollowUp, ConvType
  <2>2. Waits(l, m)
    BY DEF Waits, Off, Waiting
  <2> HIDE DEF l
  <2>3. proc'[Tool] = l /\ \A q \in Procs \ {Tool} : proc'[q] = proc[q]
    BY <1>1, <2>1, BeOne
  <2>4. \A x : ~ Waits(proc[Tool], x)
    BY <1>1, <1>2 DEF RouteFollowUp, At, Fits, Waits, Waiting
  <2>5. \A x : Asked(x) /\ x # m => Asked(x)'
    BY <2>1 DEF Asked
  <2> QED
    BY <1>1, <2>1, <2>2, <2>3, <2>4, <2>5, LooksStill
<1>3. CASE Routed
  <2> DEFINE m == proc[Tool].m
  <2>1. \A x : Waits(proc[Tool], x) => x = m
    BY <1>1, <1>3 DEF Routed, At, Fits, Waits
  <2>2. \A x : Asked(x) <=> Asked(x)'
    BY <1>3 DEF Routed, Asked
  <2>3. CASE Be(Tool, [Off EXCEPT !.at = "take", !.m = m, !.work = Working(board)]) /\ UNCHANGED board
    <3> DEFINE l == [Off EXCEPT !.at = "take", !.m = m, !.work = Working(board)]
    <3>1. Waits(l, m)
      BY DEF Waits, Off, Waiting
    <3> HIDE DEF l
    <3>2. proc'[Tool] = l /\ \A q \in Procs \ {Tool} : proc'[q] = proc[q]
      BY <1>1, <2>3, BeOne DEF l
    <3> HIDE DEF m
    <3> QED
      BY <1>1, <2>1, <2>2, <2>3, <3>1, <3>2, LooksStill
  <2>4. CASE Be(Tool, Off) /\ board' = [board EXCEPT !.deciding = @ \ {m}]
    <3>1. board'.deciding = board.deciding \ {m}
      BY <1>1, <2>4 DEF BoardType
    <3>2. \A q \in Procs \ {Tool} : proc'[q] = proc[q]
      BY <1>1, <2>4, BeOne
    <3> HIDE DEF m
    <3> QED
      BY <1>1, <2>1, <2>2, <3>1, <3>2, LooksStill
  <2> QED
    BY <1>3, <2>3, <2>4 DEF Routed
<1>4. CASE TaskStarts
  <2>1. board'.deciding = board.deciding /\ UNCHANGED <<conv, proc>>
    BY <1>1, <1>4 DEF TaskStarts, BoardType
  <2> QED
    BY <1>1, <2>1, LooksFree DEF Asked
<1>5. ASSUME NEW r \in Msgs, TaskAnnounced(r) PROVE Looks'
  <2>1. /\ conv'.asked = conv.asked /\ conv'.asking = conv.asking /\ UNCHANGED board
        /\ \E l : Be(Worker, l)
    BY <1>1, <1>5 DEF TaskAnnounced, ConvType
  <2>2. proc[Worker].at \notin Waiting \union {"unasked"}
    BY <1>5 DEF TaskAnnounced, At, Waiting
  <2>3. \A m : Asked(m) => Asked(m)'
    BY <2>1 DEF Asked
  <2> QED
    BY <1>1, <2>1, <2>2, <2>3, LooksFree
<1>6. CASE TaskReported
  <2>1. board'.deciding = board.deciding /\ UNCHANGED conv /\ \E l : Be(Worker, l)
    BY <1>1, <1>6 DEF TaskReported, BoardType
  <2>2. proc[Worker].at \notin Waiting \union {"unasked"}
    BY <1>6 DEF TaskReported, At, Waiting
  <2>3. \A m : Asked(m) => Asked(m)'
    BY <2>1 DEF Asked
  <2> QED
    BY <1>1, <2>1, <2>2, <2>3, LooksFree
<1> QED
  BY <1>2, <1>3, <1>4, <1>5, <1>6 DEF Orchestrator

LEMMA LooksCommon ==
    ASSUME Typed, Queued, Looks, hist.mishaps \subseteq hist'.mishaps, NEW p \in Procs, Common(p)
    PROVE  Looks'
<1>1. /\ board \in BoardType /\ conv \in ConvType /\ proc[p] \in LocalType /\ Fits(proc[p])
  BY DEF Typed, TypedBoard, TypedConv, TypedProc
<1> USE DEF Waiting
<1>2. ASSUME NEW l, Be(p, l), proc[p].at \notin Waiting \union {"unasked"},
             board'.deciding \subseteq board.deciding,
             conv'.asked = conv.asked, conv'.asking = conv.asking
      PROVE  Looks'
  <2>1. \A m : Asked(m) => Asked(m)'
    BY <1>2 DEF Asked
  <2> QED
    BY <1>1, <1>2, <2>1, LooksFree
<1>3. CASE SettleRead(p) \/ SettleWeigh(p) \/ SettleWrite(p) \/ NoteSteered(p)
  <2>1. board'.deciding = board.deciding /\ UNCHANGED conv
    BY <1>1, <1>3 DEF SettleRead, SettleWeigh, SettleWrite, NoteSteered, BoardType
  <2>2. \E l : Be(p, l)
    BY <1>3 DEF SettleRead, SettleWeigh, SettleWrite, NoteSteered
  <2>3. proc[p].at \notin Waiting \union {"unasked"}
    BY <1>3 DEF SettleRead, SettleWeigh, SettleWrite, NoteSteered, At
  <2> QED
    BY <1>2, <2>1, <2>2, <2>3
<1>4. CASE SettleQueued(p)
  <2>1. board'.deciding = board.deciding \ proc[p].asked /\ UNCHANGED conv /\ \E l : Be(p, l)
    BY <1>1, <1>4 DEF SettleQueued, BoardType
  <2>2. \A m : Waits(proc[p], m) => m \in proc[p].asked
    BY <1>4 DEF SettleQueued, At, Waits
  <2>3. \A q \in Procs \ {p} : proc'[q] = proc[q]
    BY <2>1, BeOne
  <2>4. \A m : Asked(m) <=> Asked(m)'
    BY <2>1 DEF Asked
  <2> QED
    BY <2>1, <2>2, <2>3, <2>4, LooksStill
<1>5. CASE Deliver(p) \/ JoinWorking(p)
  <2>1. conv'.asked = conv.asked /\ conv'.asking = conv.asking /\ UNCHANGED board
    BY <1>1, <1>5 DEF Deliver, JoinWorking, ConvType
  <2>2. proc[p].at \notin Waiting \union {"unasked"} /\ \E l : Be(p, l)
    BY <1>5 DEF Deliver, JoinWorking, At
  <2> QED
    BY <1>2, <2>1, <2>2
<1>6. CASE TakesQueued(p)
  <2>1. board'.deciding \subseteq board.deciding \ {proc[p].m}
    BY <1>1, <1>6, TakenTyped DEF TakesQueued, Queued
  <2>2. \E l : Be(p, l)
    BY <1>6 DEF TakesQueued, Goto
  <2>3. proc[p].asked = {} /\ UNCHANGED conv
    BY <1>1, <1>6 DEF TakesQueued, At, Fits
  <2>4. \A m \in board'.deciding : ~ Waits(proc[p], m)
    BY <2>1, <2>3 DEF Waits
  <2>5. \A m : Asked(m)' <=> Asked(m)
    BY <2>3 DEF Asked
  <2> QED
    BY <1>1, <2>1, <2>2, <2>4, <2>5, BeOne, LooksStill
<1>7. CASE AppendsTaken(p) \/ TakenAppendFails(p)
  <2>1. proc[p].m \in Msgs /\ proc[p].at \notin Waiting \union {"unasked"} /\ UNCHANGED conv /\ \E l : Be(p, l)
    BY <1>1, <1>7 DEF AppendsTaken, TakenAppendFails, At, Fits, OfMessage, Owning, Goto
  <2>2. board'.deciding = board.deciding
    BY <1>1, <1>7, <2>1, AppendedTyped DEF AppendsTaken, TakenAppendFails
  <2> QED
    BY <1>2, <2>1, <2>2
<1> QED
  BY <1>3, <1>4, <1>5, <1>6, <1>7 DEF Common

LEMMA LooksStep == ASSUME Typed, Queued, Looks, [Next]_vars PROVE Looks'
<1>1. hist.mishaps \subseteq hist'.mishaps
  BY MishapsGrow
<1>2. CASE Restart
  <2>1. "kill" \in hist'.mishaps
    BY <1>2 DEF Restart, Happened, Typed, TypedHist, HistType
  <2> QED
    BY <2>1 DEF Looks
<1>3. CASE UNCHANGED vars
  BY <1>3 DEF vars, Looks, Asked
<1> QED
  BY <1>1, <1>2, <1>3, LooksDriver, LooksClient, LooksCli, LooksOrchestrator, LooksCommon DEF Next

-----------------------------------------------------------------------------
(* Who sees to what waits for a turn. *)

Active(cs) == \E c \in Clis : cs[c].state = "running" \/ cs[c].events # <<>>
Sound(cs)  == \A c \in Clis : cs[c].state # "gone" /\ "exited" \notin In(cs[c].events)
Left(cv)   == cv.pending # <<>> \/ cv.inbox # <<>>
Drives(l)  == l.ret = "kick" \/ l.at = "turn"

Well  == hist.mishaps \intersect {"exit", "nostart", "kill"} = {}
Alive ==
    /\ Sound(clis)
    /\ \A p \in Procs : proc[p].at # "fail"
    /\ conv.busy => Active(clis) \/ \E p \in Procs : Claimed(proc[p])
    /\ Left(conv) => kicks > 0 \/ conv.busy \/ \E p \in Procs : Drives(proc[p])

LEMMA AliveStill ==
    ASSUME Alive, NEW p \in Procs, \A q \in Procs \ {p} : proc'[q] = proc[q],
           Sound(clis'), proc'[p].at # "fail",
           conv'.busy => \/ Active(clis') \/ Claimed(proc'[p])
                         \/ conv.busy /\ ~ Active(clis) /\ ~ Claimed(proc[p]),
           Left(conv') => \/ kicks' > 0 \/ conv'.busy \/ Drives(proc'[p])
                          \/ Left(conv) /\ ~ kicks > 0 /\ ~ conv.busy /\ ~ Drives(proc[p])
    PROVE  Alive'
<1>1. \A q \in Procs : proc'[q].at # "fail"
  BY DEF Alive
<1>2. ASSUME conv'.busy PROVE Active(clis') \/ \E q \in Procs : Claimed(proc'[q])
  <2>1. CASE conv.busy /\ ~ Active(clis) /\ ~ Claimed(proc[p])
    <3>1. PICK q \in Procs : Claimed(proc[q])
      BY <2>1 DEF Alive
    <3>2. proc'[q] = proc[q]
      BY <2>1, <3>1
    <3> QED
      BY <3>1, <3>2
  <2> QED
    BY <1>2, <2>1
<1>3. ASSUME Left(conv') PROVE kicks' > 0 \/ conv'.busy \/ \E q \in Procs : Drives(proc'[q])
  <2>1. CASE Left(conv) /\ ~ kicks > 0 /\ ~ conv.busy /\ ~ Drives(proc[p])
    <3>1. PICK q \in Procs : Drives(proc[q])
      BY <2>1 DEF Alive
    <3>2. proc'[q] = proc[q]
      BY <2>1, <3>1
    <3> QED
      BY <3>1, <3>2
  <2> QED
    BY <1>3, <2>1
<1> QED
  BY <1>1, <1>2, <1>3 DEF Alive

(* A step that leaves the turns and what waits for one alone, *)
Steady ==
    /\ clis' = clis /\ conv'.busy = conv.busy
    /\ conv'.pending = conv.pending /\ conv'.inbox = conv.inbox
    /\ kicks > 0 => kicks' > 0

(* and a task that has nothing to do with either. *)
Plain(l) == ~ Claimed(l) /\ ~ Drives(l)

LEMMA PlainAt ==
    ASSUME Typed, NEW p \in Procs, proc[p].at \notin Settling \union {"note", "turn", "start", "send", "fail"}
    PROVE  Plain(proc[p])
BY DEF Typed, TypedProc, Fits, Plain, Claimed, Drives, Settling

LEMMA AliveSteady ==
    ASSUME Typed, Alive, Steady, NEW p \in Procs, UNCHANGED proc \/ (Plain(proc[p]) /\ \E l : Be(p, l)),
           proc'[p].at # "fail"
    PROVE  Alive'
<1>1. CASE UNCHANGED proc
  BY <1>1 DEF Alive, Steady, Left
<1>2. CASE Plain(proc[p]) /\ \E l : Be(p, l)
  <2>1. \A q \in Procs \ {p} : proc'[q] = proc[q]
    BY <1>2, BeOne
  <2>2. Left(conv') <=> Left(conv)
    BY DEF Steady, Left
  <2>3. Sound(clis') /\ (Active(clis') <=> Active(clis))
    BY DEF Alive, Steady
  <2> QED
    BY <1>2, <2>1, <2>2, <2>3, AliveStill DEF Steady, Plain, Alive
<1> QED
  BY <1>1, <1>2

LEMMA SteeredAlive ==
    ASSUME Typed, Alive, CliTakes
    PROVE  Sound(Steered) /\ Active(Steered)
<1>1. clis \in [Clis -> [state : CliStates, events : Seq(CliEvents)]] /\ conv.cli \in Clis
  BY SteeredTyped DEF Typed, TypedClis
<1>2. /\ Steered[conv.cli].state = "running" /\ Steered[conv.cli].events = clis[conv.cli].events
      /\ \A c \in Clis \ {conv.cli} : Steered[c] = clis[c]
  BY <1>1 DEF Steered
<1> QED
  BY <1>1, <1>2 DEF Alive, Sound, Active

(* The turn of c ends. *)
LEMMA EndedAlive ==
    ASSUME Typed, Alive, NEW c \in Clis, NEW event \in {"completed", "stopped"},
           clis' = [clis EXCEPT ![c] = [state |-> "idle", events |-> Append(@.events, event)]]
    PROVE  Sound(clis') /\ Active(clis')
<1>1. /\ clis \in [Clis -> [state : CliStates, events : Seq(CliEvents)]]
      /\ clis[c].events \in Seq(CliEvents) /\ event \in CliEvents
  BY DEF Typed, TypedClis, CliEvents
<1>2. /\ clis'[c].state = "idle" /\ clis'[c].events = Append(clis[c].events, event)
      /\ \A x \in Clis \ {c} : clis'[x] = clis[x]
  BY <1>1
<1>3. /\ In(Append(clis[c].events, event)) = In(clis[c].events) \union {event}
      /\ Append(clis[c].events, event) # <<>>
  BY <1>1, AppendIn
<1> QED
  BY <1>2, <1>3 DEF Alive, Sound, Active

LEMMA HappenedIll ==
    ASSUME Typed, NEW what \in {"exit", "nostart", "kill"}, hist' = Happened(what)
    PROVE  ~ Well'
BY DEF Typed, TypedHist, HistType, Happened, Well

LEMMA OffPlain == Off.at = "off" /\ Plain(Off)
BY DEF Off, Plain, Claimed, Drives

LEMMA AliveDriver ==
    ASSUME Typed, Alive, Well', NEW d \in Drivers, Driver(d)
    PROVE  Alive'
<1>1. /\ d \in Procs /\ conv \in ConvType /\ proc[d] \in LocalType /\ Fits(proc[d])
      /\ clis \in [Clis -> [state : CliStates, events : Seq(CliEvents)]]
  BY DEF Typed, TypedConv, TypedClis, TypedProc, Procs
<1>2. ASSUME NEW users, NEW envs, NEW rest, Claim(d, users, envs, rest), clis' = clis PROVE Alive'
  <2> DEFINE l == [Settle(proc[d], "start") EXCEPT !.users = users, !.envs = envs, !.m = None]
  <2>1. Be(d, l) /\ conv'.busy
    BY <1>1, <1>2 DEF Claim, ConvType
  <2>2. l.at = "read" /\ l.ret = "start"
    BY <1>1 DEF Settle, LocalType
  <2> HIDE DEF l
  <2>3. proc'[d] = l /\ \A q \in Procs \ {d} : proc'[q] = proc[q]
    BY <1>1, <2>1, BeOne
  <2>4. Claimed(l) /\ l.at # "fail"
    BY <2>2 DEF Claimed
  <2>5. Sound(clis')
    BY <1>2 DEF Alive
  <2> QED
    BY <1>1, <2>1, <2>3, <2>4, <2>5, AliveStill
<1>3. CASE DriverTurn(d)
  <2>1. clis' = clis /\ ~ Claimed(proc[d])
    BY <1>3 DEF DriverTurn, DriverBegins, At, Claimed
  <2>2. CASE conv.busy
    <3>1. Be(d, Off) /\ UNCHANGED conv
      BY <1>3, <2>2 DEF DriverTurn
    <3>2. proc'[d] = Off /\ \A q \in Procs \ {d} : proc'[q] = proc[q]
      BY <1>1, <3>1, BeOne
    <3> QED
      BY <1>1, <2>1, <2>2, <3>1, <3>2, AliveStill, OffPlain DEF Alive
  <2>3. CASE ~ conv.busy /\ Left(conv)
    <3>1. \E users, envs, rest : Claim(d, users, envs, rest)
      BY <1>3, <2>3 DEF DriverTurn, Left
    <3> QED
      BY <1>2, <2>1, <3>1
  <2>4. CASE ~ conv.busy /\ ~ Left(conv)
    <3>1. UNCHANGED conv /\ \E l : Be(d, l) /\ l.at # "fail"
      <4>1. [proc[d] EXCEPT !.at = "peek"].at = "peek" /\ \A r : Settle(proc[d], r).at = "read"
        BY <1>1 DEF Settle, LocalType
      <4> QED
        BY <1>3, <2>4, <4>1 DEF DriverTurn, Left, Goto
    <3>2. PICK l : Be(d, l) /\ l.at # "fail"
      BY <3>1
    <3>3. proc'[d] = l /\ \A q \in Procs \ {d} : proc'[q] = proc[q]
      BY <1>1, <3>2, BeOne
    <3> QED
      BY <1>1, <2>1, <2>4, <3>1, <3>2, <3>3, AliveStill DEF Alive
  <2> QED
    BY <2>2, <2>3, <2>4
<1>4. CASE QueueMayGo(d) \/ QueueReady(d) \/ QueuePeek(d) \/ QueueTake(d) \/ QueueAppendFails(d)
  <2>1. Plain(proc[d]) /\ Steady
    <3>1. proc[d].at \notin Settling \union {"note", "turn", "start", "send", "fail"}
      BY <1>4 DEF QueueMayGo, QueueReady, QueuePeek, QueueTake, QueueAppendFails, At, Settling
    <3>2. UNCHANGED <<conv, clis, kicks>>
      BY <1>4 DEF QueueMayGo, QueueReady, QueuePeek, QueueTake, QueueAppendFails
    <3> QED
      BY <1>1, <3>1, <3>2, PlainAt DEF Steady
  <2>2. \E l : Be(d, l) /\ l.at # "fail"
    <3>1. Off.at # "fail" /\ Settle(proc[d], "off").at # "fail"
      BY <1>1 DEF Settle, Off, LocalType
    <3>2. \A s : [proc[d] EXCEPT !.at = s].at = s
      BY <1>1 DEF LocalType
    <3>3. [proc[d] EXCEPT !.at = "take", !.m = Head(board.queue)].at = "take"
      BY <1>1 DEF LocalType
    <3>4. ASSUME GivesUp(d) PROVE \E l : Be(d, l) /\ l.at # "fail"
      BY <3>1, <3>4 DEF GivesUp
    <3>5. ASSUME NEW s \in {"ready", "peek", "append"}, Goto(d, s) PROVE \E l : Be(d, l) /\ l.at # "fail"
      BY <3>2, <3>5 DEF Goto
    <3> QED
      BY <1>4, <3>1, <3>3, <3>4, <3>5 DEF QueueMayGo, QueueReady, QueuePeek, QueueTake, QueueAppendFails
  <2>3. proc'[d].at # "fail"
    BY <1>1, <2>2, BeOne
  <2> QED
    BY <1>1, <2>1, <2>2, <2>3, AliveSteady
<1>5. CASE QueueAppend(d)
  <2>1. clis' = clis
    BY <1>5 DEF QueueAppend
  <2>2. CASE kind = "chat"
    BY <1>2, <1>5, <2>1, <2>2 DEF QueueAppend
  <2>3. CASE kind # "chat"
    <3> DEFINE l == [proc[d] EXCEPT !.at = "turn", !.m = None, !.sent = TRUE]
    <3>1. Be(d, l) /\ conv'.busy = conv.busy
      BY <1>1, <1>5, <2>3 DEF QueueAppend, ConvType
    <3>2. l.at = "turn"
      BY <1>1 DEF LocalType
    <3> HIDE DEF l
    <3>3. proc'[d] = l /\ \A q \in Procs \ {d} : proc'[q] = proc[q]
      BY <1>1, <3>1, BeOne
    <3>4. ~ Claimed(proc[d])
      BY <1>5 DEF QueueAppend, At, Claimed
    <3> QED
      BY <1>1, <2>1, <3>1, <3>2, <3>3, <3>4, AliveStill DEF Drives, Alive
  <2> QED
    BY <2>2, <2>3
<1>6. CASE EnsureCli(d)
  <2>1. PICK c : Be(d, [proc[d] EXCEPT !.at = "send", !.cli = c])
    BY <1>6 DEF EnsureCli
  <2> DEFINE l == [proc[d] EXCEPT !.at = "send", !.cli = c]
  <2>2. Be(d, l)
    BY <2>1
  <2>3. l.at = "send"
    BY <1>1 DEF LocalType
  <2> HIDE DEF l
  <2>4. proc'[d] = l /\ \A q \in Procs \ {d} : proc'[q] = proc[q]
    BY <1>1, <2>2, BeOne
  <2>5. ~ Drives(proc[d])
    BY <1>1, <1>6 DEF EnsureCli, At, Fits, Drives, Settling
  <2>6. /\ conv'.busy = conv.busy /\ conv'.pending = conv.pending /\ conv'.inbox = conv.inbox
        /\ kicks' = kicks
    BY <1>1, <1>6 DEF EnsureCli, ConvType
  <2>7. Sound(clis')
    <3>1. \A y \in Clis : clis'[y].events = clis[y].events /\ clis'[y].state \in {clis[y].state, "idle"}
      <4>1. clis' = clis \/ \E x : clis' = [clis EXCEPT ![x].state = "idle"]
        BY <1>6 DEF EnsureCli
      <4> QED
        BY <1>1, <4>1
    <3> QED
      BY <3>1 DEF Sound, Alive
  <2> QED
    BY <1>1, <2>3, <2>4, <2>5, <2>6, <2>7, AliveStill DEF Claimed, Left
<1>7. CASE CliFailsToStart(d)
  BY <1>7, HappenedIll DEF CliFailsToStart
<1>8. CASE SendTurn(d)
  <2>1. proc[d].at = "send" /\ proc[d].cli \in Clis
    BY <1>1, <1>8 DEF SendTurn, At, Fits
  <2>2. clis[proc[d].cli].state # "gone"
    BY <2>1 DEF Alive, Sound
  <2>3. clis' = [clis EXCEPT ![proc[d].cli].state = "running"] /\ Be(d, Off) /\ UNCHANGED <<conv, kicks>>
    BY <1>8, <2>2 DEF SendTurn
  <2>4. /\ clis'[proc[d].cli].state = "running"
        /\ \A c \in Clis : clis'[c].events = clis[c].events /\ clis'[c].state \in {clis[c].state, "running"}
    BY <1>1, <2>1, <2>3
  <2>5. Sound(clis') /\ Active(clis')
    BY <2>1, <2>4 DEF Sound, Active, Alive
  <2>6. proc'[d] = Off /\ \A q \in Procs \ {d} : proc'[q] = proc[q]
    BY <1>1, <2>3, BeOne
  <2>7. ~ Drives(proc[d])
    BY <1>1, <2>1 DEF Fits, Drives, Settling
  <2> QED
    BY <1>1, <2>3, <2>5, <2>6, <2>7, AliveStill, OffPlain
<1>9. CASE FailTurn(d)
  BY <1>1, <1>9 DEF FailTurn, At, Alive
<1> QED
  BY <1>3, <1>4, <1>5, <1>6, <1>7, <1>8, <1>9 DEF Driver

LEMMA AliveClient ==
    ASSUME Typed, Alive, Well', NEW p \in Callers, Client(p)
    PROVE  Alive'
<1>1. /\ p \in Procs /\ conv \in ConvType /\ proc[p] \in LocalType /\ Fits(proc[p])
      /\ clis \in [Clis -> [state : CliStates, events : Seq(CliEvents)]]
  BY DEF Typed, TypedConv, TypedClis, TypedProc, Procs
<1>2. MaxKicks \in Nat \ {0} /\ kicks \in 0 .. MaxKicks /\ Kicked(1) > 0
  BY DriverAssumption, KickedTyped DEF Typed, TypedRest
<1>3. ASSUME Plain(proc[p]), UNCHANGED proc \/ \E l : Be(p, l) /\ l.at # "fail" PROVE
             /\ \A q \in Procs \ {p} : proc'[q] = proc[q]
             /\ proc'[p].at # "fail" /\ ~ Claimed(proc[p]) /\ ~ Drives(proc[p])
  BY <1>1, <1>3, BeOne DEF Alive, Plain
<1>4. ASSUME Plain(proc[p]), UNCHANGED proc \/ \E l : Be(p, l) /\ l.at # "fail", Steady PROVE Alive'
  BY <1>1, <1>3, <1>4, AliveSteady
<1>5. ASSUME Plain(proc[p]), UNCHANGED proc \/ \E l : Be(p, l) /\ l.at # "fail",
             clis' = Steered, CliTakes, conv'.busy
      PROVE  Alive'
  BY <1>1, <1>3, <1>5, SteeredAlive, AliveStill
<1>6. ASSUME Plain(proc[p]), UNCHANGED proc \/ \E l : Be(p, l) /\ l.at # "fail",
             clis' = clis, conv'.busy = conv.busy, conv.busy \/ kicks' > 0
      PROVE  Alive'
  BY <1>1, <1>3, <1>6, AliveStill DEF Alive
<1>7. ASSUME NEW m \in Msgs, NEW steer \in BOOLEAN, ChatSends(p, m, steer) PROVE Alive'
  <2>1. Plain(proc[p])
    BY <1>1, <1>7, PlainAt DEF ChatSends, At, Settling
  <2>2. Off.at # "fail" /\ Settle(Off, "off").at # "fail"
    BY DEF Off, Settle
  <2>3. [Off EXCEPT !.at = "note", !.m = m, !.work = conv.request, !.ret = "off"].at # "fail"
    BY DEF Off
  <2>4. conv'.busy = conv.busy
    BY <1>1, <1>7 DEF ChatSends, ConvType
  <2>5. CASE conv.busy /\ steer /\ CliTakes
    BY <1>5, <1>7, <2>1, <2>3, <2>4, <2>5 DEF ChatSends
  <2>6. CASE conv.busy /\ ~ (steer /\ CliTakes)
    BY <1>6, <1>7, <2>1, <2>2, <2>4, <2>6 DEF ChatSends
  <2>7. CASE ~ conv.busy
    BY <1>2, <1>6, <1>7, <2>1, <2>4, <2>7 DEF ChatSends
  <2> QED
    BY <2>5, <2>6, <2>7
<1>8. ASSUME NEW m \in Msgs, NEW steer \in BOOLEAN, SessionSends(p, m, steer) PROVE Alive'
  <2>1. Plain(proc[p]) /\ Steady
    BY <1>1, <1>8, PlainAt DEF SessionSends, At, Settling, Steady
  <2>2. [Off EXCEPT !.at = "busy?", !.m = m, !.steer = steer, !.work = Working(board)].at # "fail"
    BY DEF Off
  <2> QED
    BY <1>4, <1>8, <2>1, <2>2 DEF SessionSends
<1>9. CASE SessionBusy(p) \/ SessionPlaces(p)
  <2>1. Plain(proc[p]) /\ Steady
    <3>1. proc[p].at \notin Settling \union {"note", "turn", "start", "send", "fail"}
      BY <1>9 DEF SessionBusy, SessionPlaces, At, Settling
    <3> QED
      BY <1>1, <1>9, <3>1, PlainAt DEF SessionBusy, SessionPlaces, Steady
  <2>2. \A s : [proc[p] EXCEPT !.at = s].at = s
    BY <1>1 DEF LocalType
  <2>3. [proc[p] EXCEPT !.at = "place", !.busy = conv.busy].at = "place" /\ Off.at = "off"
    BY <1>1 DEF LocalType, Off
  <2>4. ASSUME NEW s \in {"join", "ask", "push"}, Goto(p, s) PROVE \E l : Be(p, l) /\ l.at # "fail"
    BY <2>2, <2>4 DEF Goto
  <2>5. \E l : Be(p, l) /\ l.at # "fail"
    BY <1>9, <2>3, <2>4 DEF SessionBusy, SessionPlaces
  <2> QED
    BY <1>4, <2>1, <2>5
<1>10. CASE SessionPushes(p)
  <2>1. Plain(proc[p])
    BY <1>1, <1>10, PlainAt DEF SessionPushes, At, Settling
  <2>2. conv'.busy = conv.busy
    BY <1>1, <1>10 DEF SessionPushes, ConvType
  <2> QED
    BY <1>2, <1>6, <1>10, <2>1, <2>2, OffPlain DEF SessionPushes
<1>11. CASE AskFollowUp(p)
  <2>1. Plain(proc[p])
    BY <1>1, <1>11, PlainAt DEF AskFollowUp, At, Settling
  <2>2. /\ conv'.busy = conv.busy /\ conv'.pending = conv.pending /\ conv'.inbox = conv.inbox
        /\ UNCHANGED kicks
    BY <1>1, <1>11 DEF AskFollowUp, ConvType
  <2>3. [proc[p] EXCEPT !.at = "envelope"].at = "envelope"
    BY <1>1 DEF LocalType
  <2>4. \E l : Be(p, l) /\ l.at # "fail"
    BY <1>11, <2>3, OffPlain DEF AskFollowUp, Goto
  <2>5. CASE CliTakes
    <3>1. clis' = Steered /\ conv.busy
      BY <1>11, <2>5 DEF AskFollowUp, CliTakes
    <3> QED
      BY <1>5, <2>1, <2>2, <2>4, <2>5, <3>1
  <2>6. CASE ~ CliTakes
    <3>1. clis' = clis
      BY <1>11, <2>6 DEF AskFollowUp
    <3> QED
      BY <1>4, <2>1, <2>2, <2>4, <3>1 DEF Steady
  <2> QED
    BY <2>5, <2>6
<1>12. ASSUME NEW m \in Msgs, SteerQueued(p, m) \/ DeleteQueued(p, m) \/ MoveQueued(p, m) PROVE Alive'
  <2>1. Plain(proc[p]) /\ Steady
    <3>1. proc[p].at = "off" /\ UNCHANGED <<conv, clis, kicks>>
      BY <1>12 DEF SteerQueued, DeleteQueued, MoveQueued, At
    <3> QED
      BY <1>1, <3>1, PlainAt DEF Settling, Steady
  <2>2. [Off EXCEPT !.at = "take", !.m = m, !.work = Working(board)].at # "fail"
    BY DEF Off
  <2> QED
    BY <1>4, <1>12, <2>1, <2>2 DEF SteerQueued, DeleteQueued, MoveQueued
<1>13. CASE Interrupt(p) \/ InterruptPauses(p)
  <2>1. Plain(proc[p]) /\ Steady
    <3>1. proc[p].at \in {"off", "pause"} /\ UNCHANGED <<conv, clis, kicks>>
      BY <1>13 DEF Interrupt, InterruptPauses, At
    <3> QED
      BY <1>1, <3>1, PlainAt DEF Settling, Steady
  <2>2. [Off EXCEPT !.at = "pause", !.cli = conv.cli].at # "fail"
    BY DEF Off
  <2>3. [proc[p] EXCEPT !.at = "stop"].at # "fail"
    BY <1>1 DEF LocalType
  <2> QED
    BY <1>4, <1>13, <2>1, <2>2, <2>3, OffPlain DEF Interrupt, InterruptPauses, Goto
<1>14. CASE InterruptStops(p)
  <2>1. Plain(proc[p]) /\ UNCHANGED <<conv, kicks>> /\ Be(p, Off) /\ proc[p].cli \in Clis
    BY <1>1, <1>14, PlainAt DEF InterruptStops, At, Settling, Fits
  <2>2. CASE clis' = clis
    BY <1>4, <2>1, <2>2, OffPlain DEF Steady
  <2>3. CASE clis' = [clis EXCEPT ![proc[p].cli] = [state |-> "idle", events |-> Append(@.events, "stopped")]]
    <3>1. Sound(clis') /\ Active(clis')
      BY <2>1, <2>3, EndedAlive
    <3>2. /\ \A q \in Procs \ {p} : proc'[q] = proc[q]
          /\ proc'[p].at # "fail" /\ ~ Drives(proc[p])
      BY <1>3, <2>1, OffPlain
    <3> QED
      BY <1>1, <2>1, <3>1, <3>2, AliveStill
  <2> QED
    BY <1>14, <2>2, <2>3 DEF InterruptStops
<1>15. CASE ResumeQueue(p)
  <2>1. Plain(proc[p]) /\ Steady
    BY <1>1, <1>2, <1>15, PlainAt DEF ResumeQueue, At, Settling, Steady
  <2> QED
    BY <1>4, <1>15, <2>1 DEF ResumeQueue
<1> QED
  BY <1>7, <1>8, <1>9, <1>10, <1>11, <1>12, <1>13, <1>14, <1>15 DEF Client

LEMMA AliveCli ==
    ASSUME Typed, Alive, Well', NEW c \in Clis, Cli(c)
    PROVE  Alive'
<1>1. /\ c \in Procs /\ conv \in ConvType /\ proc[c] \in LocalType /\ Fits(proc[c])
      /\ clis \in [Clis -> [state : CliStates, events : Seq(CliEvents)]]
  BY DEF Typed, TypedConv, TypedClis, TypedProc, Procs
<1>2. CASE TurnEnds(c)
  <2>1. Sound(clis') /\ Active(clis')
    BY <1>2, EndedAlive DEF TurnEnds
  <2>2. UNCHANGED <<conv, kicks, proc>>
    BY <1>2 DEF TurnEnds
  <2> QED
    BY <2>1, <2>2 DEF Alive
<1>3. CASE CliExits(c)
  BY <1>3, HappenedIll DEF CliExits
<1>4. CASE TurnCompleted(c)
  <2>1. /\ ~ conv'.busy /\ clis' = Read(c) /\ Be(c, Unask(conv.asked, "kick"))
        /\ clis[c].events # <<>>
    <3>1. clis[c].events # <<>>
      BY <1>4, DriverAssumption DEF TurnCompleted, FirstOf
    <3> QED
      BY <1>1, <1>4, <3>1 DEF TurnCompleted, ConvType
  <2>2. /\ clis'[c].state = clis[c].state /\ clis'[c].events = Tail(clis[c].events)
        /\ \A x \in Clis \ {c} : clis'[x] = clis[x]
    BY <1>1, <2>1 DEF Read
  <2>3. In(Tail(clis[c].events)) \subseteq In(clis[c].events)
    BY <1>1, <2>1, EndsIn
  <2>4. Sound(clis')
    BY <2>2, <2>3 DEF Alive, Sound
  <2>5. Unask(conv.asked, "kick").ret = "kick" /\ Unask(conv.asked, "kick").at # "fail"
    BY DEF Unask, Settle, Off
  <2>6. proc'[c] = Unask(conv.asked, "kick") /\ \A q \in Procs \ {c} : proc'[q] = proc[q]
    BY <1>1, <2>1, BeOne
  <2> QED
    BY <1>1, <2>1, <2>4, <2>5, <2>6, AliveStill DEF Drives
<1>5. CASE PumpEnds(c)
  <2>1. FirstOf(clis[c].events) = "exited"
    BY <1>5 DEF PumpEnds
  <2>2. clis[c].events # <<>> /\ clis[c].events \in Seq(CliEvents)
    BY <1>1, <2>1, DriverAssumption DEF FirstOf
  <2>3. "exited" \in In(clis[c].events)
    BY <2>1, <2>2, EndsIn DEF FirstOf
  <2> QED
    BY <2>3 DEF Alive, Sound
<1> QED
  BY <1>2, <1>3, <1>4, <1>5 DEF Cli

LEMMA AliveOrchestrator ==
    ASSUME Typed, Alive, Orchestrator
    PROVE  Alive'
<1>1. /\ Tool \in Procs /\ Worker \in Procs /\ conv \in ConvType /\ proc[Worker] \in LocalType
  BY DEF Typed, TypedConv, TypedProc, Procs
<1>2. Off.at # "fail"
  BY OffPlain
<1>3. ASSUME NEW m \in Msgs, NEW joins \in BOOLEAN, RouteFollowUp(m, joins) PROVE Alive'
  <2>1. [Off EXCEPT !.at = "routed", !.m = m, !.steer = joins].at # "fail"
    BY DEF Off
  <2>2. proc[Tool].at = "off" /\ Steady
    BY <1>1, <1>3 DEF RouteFollowUp, At, ConvType, Steady
  <2>3. Plain(proc[Tool])
    BY <1>1, <2>2, PlainAt DEF Settling
  <2>4. proc'[Tool].at # "fail" /\ \E l : Be(Tool, l)
    BY <1>1, <1>3, <2>1, BeOne DEF RouteFollowUp
  <2> QED
    BY <1>1, <2>2, <2>3, <2>4, AliveSteady
<1>4. CASE Routed
  <2>1. [Off EXCEPT !.at = "take", !.m = proc[Tool].m, !.work = Working(board)].at # "fail"
    BY DEF Off
  <2>2. proc[Tool].at = "routed" /\ Steady
    BY <1>4 DEF Routed, At, Steady
  <2>3. Plain(proc[Tool])
    BY <1>1, <2>2, PlainAt DEF Settling
  <2>4. \E l : Be(Tool, l) /\ l.at # "fail"
    BY <1>2, <1>4, <2>1 DEF Routed
  <2>5. proc'[Tool].at # "fail"
    BY <1>1, <2>4, BeOne
  <2> QED
    BY <1>1, <2>2, <2>3, <2>4, <2>5, AliveSteady
<1>5. CASE TaskStarts
  <2>1. Steady /\ UNCHANGED proc
    BY <1>5 DEF TaskStarts, Steady
  <2> QED
    BY <1>1, <2>1, AliveSteady DEF Alive
<1>6. ASSUME NEW r \in Msgs, TaskAnnounced(r) PROVE Alive'
  <2>1. [Off EXCEPT !.at = "reported", !.work = r].at # "fail"
    BY DEF Off
  <2>2. proc[Worker].at = "off" /\ Steady
    BY <1>1, <1>6 DEF TaskAnnounced, At, ConvType, Steady
  <2>3. Plain(proc[Worker])
    BY <1>1, <2>2, PlainAt DEF Settling
  <2>4. proc'[Worker].at # "fail" /\ \E l : Be(Worker, l)
    BY <1>1, <1>6, <2>1, BeOne DEF TaskAnnounced
  <2> QED
    BY <1>1, <2>2, <2>3, <2>4, AliveSteady
<1>7. CASE TaskReported
  <2>1. Settle(proc[Worker], "envelope").at # "fail"
    BY <1>1 DEF Settle, LocalType
  <2>2. proc[Worker].at = "reported" /\ Steady
    BY <1>7 DEF TaskReported, At, Steady
  <2>3. Plain(proc[Worker])
    BY <1>1, <2>2, PlainAt DEF Settling
  <2>4. proc'[Worker].at # "fail" /\ \E l : Be(Worker, l)
    BY <1>1, <1>7, <2>1, BeOne DEF TaskReported
  <2> QED
    BY <1>1, <2>2, <2>3, <2>4, AliveSteady
<1> QED
  BY <1>3, <1>4, <1>5, <1>6, <1>7 DEF Orchestrator

(* A step that leaves the turns alone, of a task that goes on with its own. *)
LEMMA AliveGoesOn ==
    ASSUME Typed, Alive, Steady, NEW p \in Procs, NEW l, Be(p, l), l.at # "fail",
           Claimed(proc[p]) => Claimed(l), Drives(proc[p]) => Drives(l) \/ kicks' > 0
    PROVE  Alive'
<1>1. proc'[p] = l /\ \A q \in Procs \ {p} : proc'[q] = proc[q]
  BY BeOne
<1>2. (Left(conv') <=> Left(conv)) /\ Sound(clis') /\ (Active(clis') <=> Active(clis))
  BY DEF Steady, Left, Alive
<1> QED
  BY <1>1, <1>2, AliveStill DEF Steady

LEMMA AliveSettles ==
    ASSUME Typed, Alive, NEW p \in Procs,
           SettleRead(p) \/ SettleWeigh(p) \/ SettleWrite(p) \/ SettleQueued(p) \/ NoteSteered(p)
    PROVE  Alive'
<1>1. proc[p] \in LocalType /\ Fits(proc[p]) /\ kicks \in 0 .. MaxKicks /\ MaxKicks \in Nat \ {0}
  BY DriverAssumption DEF Typed, TypedRest, TypedProc
<1>2. CASE SettleRead(p)
  <2> DEFINE s == IF board.log = <<>> THEN "write" ELSE "weigh"
             x == [state |-> board.state, tasks |-> board.tasks,
                   ready |-> /\ kind = "session" /\ board.log # <<>> /\ ~ board.paused
                             /\ FirstOf(board.queue) \notin (board.deciding \union {None})]
             l == [proc[p] EXCEPT !.at = s, !.snap = x]
  <2>1. Be(p, l) /\ Steady /\ proc[p].at = "read"
    BY <1>2 DEF SettleRead, Steady, At
  <2>2. s \in {"write", "weigh"}
    OBVIOUS
  <2> HIDE DEF s, x
  <2>3. l.at = s /\ l.ret = proc[p].ret
    BY <1>1 DEF LocalType
  <2> HIDE DEF l
  <2> QED
    BY <2>1, <2>2, <2>3, AliveGoesOn DEF Claimed, Drives
<1>3. CASE SettleWeigh(p)
  <2>1. PICK x : Be(p, [proc[p] EXCEPT !.at = "write", !.snap = x])
    BY <1>3 DEF SettleWeigh
  <2> DEFINE l == [proc[p] EXCEPT !.at = "write", !.snap = x]
  <2>2. Be(p, l) /\ Steady /\ proc[p].at = "weigh"
    BY <1>3, <2>1 DEF SettleWeigh, Steady, At
  <2>3. l.at = "write" /\ l.ret = proc[p].ret
    BY <1>1 DEF LocalType
  <2> HIDE DEF l
  <2> QED
    BY <2>2, <2>3, AliveGoesOn DEF Claimed, Drives
<1>4. CASE SettleWrite(p)
  <2>1. proc[p].at = "write" /\ UNCHANGED <<conv, clis>>
    BY <1>4 DEF SettleWrite, At
  <2>2. /\ kicks > 0 => kicks' > 0
        /\ proc[p].ret = "kick" => kicks' > 0
    <3>1. PICK a \in {0, 1} : kicks' = Kicked(a + (IF proc[p].ret = "kick" THEN 1 ELSE 0))
      BY <1>4 DEF SettleWrite
    <3> QED
      BY <1>1, <3>1 DEF Kicked
  <2>3. Steady
    BY <2>1, <2>2 DEF Steady
  <2>4. CASE proc[p].ret \in {"off", "kick"}
    <3>1. Be(p, Off)
      BY <1>4, <2>4 DEF SettleWrite
    <3>2. ~ Claimed(proc[p]) /\ (Drives(proc[p]) => kicks' > 0)
      BY <2>1, <2>2, <2>4 DEF Claimed, Drives
    <3> QED
      BY <2>3, <3>1, <3>2, OffPlain, AliveGoesOn
  <2>5. CASE proc[p].ret \notin {"off", "kick"}
    <3> DEFINE l == [proc[p] EXCEPT !.at = proc[p].ret, !.ret = "off", !.snap = NoSnap]
    <3>1. Be(p, l)
      BY <1>4, <2>5 DEF SettleWrite
    <3>2. l.at = proc[p].ret
      BY <1>1 DEF LocalType
    <3>3. proc[p].ret # "fail" /\ ~ Drives(proc[p])
      BY <1>1, <2>1, <2>5 DEF LocalType, Rets, Drives
    <3> HIDE DEF l
    <3>4. Claimed(proc[p]) => Claimed(l)
      BY <2>1, <3>2 DEF Claimed
    <3> QED
      BY <2>3, <3>1, <3>2, <3>3, <3>4, AliveGoesOn
  <2> QED
    BY <2>4, <2>5
<1>5. CASE SettleQueued(p)
  <2> DEFINE l == [Settle(proc[p], proc[p].ret) EXCEPT !.asked = {}]
  <2>1. Be(p, l) /\ Steady /\ proc[p].at = "unasked"
    BY <1>5 DEF SettleQueued, Steady, At
  <2>2. l.at = "read" /\ l.ret = proc[p].ret
    BY <1>1 DEF Settle, LocalType
  <2> HIDE DEF l
  <2> QED
    BY <2>1, <2>2, AliveGoesOn DEF Claimed, Drives
<1>6. CASE NoteSteered(p)
  <2>1. Be(p, Settle(Off, proc[p].ret)) /\ Steady /\ proc[p].at = "note"
    BY <1>6 DEF NoteSteered, Steady, At
  <2>2. Settle(Off, proc[p].ret).at = "read" /\ Settle(Off, proc[p].ret).ret = proc[p].ret
    BY DEF Settle, Off
  <2> QED
    BY <2>1, <2>2, AliveGoesOn DEF Claimed, Drives
<1> QED
  BY <1>2, <1>3, <1>4, <1>5, <1>6

LEMMA AliveCommon ==
    ASSUME Typed, Alive, NEW p \in Procs, Common(p)
    PROVE  Alive'
<1>1. /\ conv \in ConvType /\ proc[p] \in LocalType /\ Fits(proc[p])
  BY DEF Typed, TypedConv, TypedProc
<1>2. CASE Deliver(p)
  <2>1. Be(p, Settle(Off, "kick")) /\ clis' = clis /\ kicks' = kicks /\ proc[p].at = "envelope"
    BY <1>2 DEF Deliver, At
  <2>2. Settle(Off, "kick").at # "fail" /\ Settle(Off, "kick").ret = "kick"
    BY DEF Settle, Off
  <2>3. proc'[p] = Settle(Off, "kick") /\ \A q \in Procs \ {p} : proc'[q] = proc[q]
    BY <2>1, BeOne
  <2>4. conv'.busy = conv.busy
    BY <1>1, <1>2 DEF Deliver, ConvType
  <2> QED
    BY <2>1, <2>2, <2>3, <2>4, AliveStill DEF Drives, Claimed, Alive
<1>3. CASE TakesQueued(p) \/ AppendsTaken(p) \/ TakenAppendFails(p)
  <2>1. proc[p].at \in {"take", "append"} /\ Steady
    BY <1>3 DEF TakesQueued, AppendsTaken, TakenAppendFails, At, Steady
  <2>2. Plain(proc[p])
    BY <2>1, PlainAt DEF Settling
  <2>3. [proc[p] EXCEPT !.at = "append"].at = "append" /\ [proc[p] EXCEPT !.at = "join"].at = "join"
    BY <1>1 DEF LocalType
  <2>4. \E l : Be(p, l) /\ l.at # "fail"
    BY <1>3, <2>3, OffPlain DEF TakesQueued, AppendsTaken, TakenAppendFails, Goto
  <2>5. proc'[p].at # "fail"
    BY <2>4, BeOne
  <2> QED
    BY <2>1, <2>2, <2>4, <2>5, AliveSteady
<1>4. CASE JoinWorking(p)
  <2>1. proc[p].at = "join" /\ kicks' = kicks
    BY <1>4 DEF JoinWorking, At
  <2>2. Plain(proc[p])
    BY <2>1, PlainAt DEF Settling
  <2>3. conv'.busy = conv.busy
    BY <1>1, <1>4 DEF JoinWorking, ConvType
  <2>4. CASE CliTakes
    <3> DEFINE l == [proc[p] EXCEPT !.at = "note", !.work = conv.request, !.ret = "off"]
    <3>1. Be(p, l) /\ clis' = Steered /\ conv.busy
      BY <1>4, <2>4 DEF JoinWorking, CliTakes
    <3>2. l.at = "note"
      BY <1>1 DEF LocalType
    <3> HIDE DEF l
    <3> QED
      BY <2>2, <2>3, <2>4, <3>1, <3>2, BeOne, SteeredAlive, AliveStill
  <2>5. CASE ~ CliTakes
    <3> DEFINE l == [proc[p] EXCEPT !.at = "note", !.ret = "kick"]
    <3>1. Be(p, l) /\ clis' = clis
      BY <1>4, <2>5 DEF JoinWorking
    <3>2. l.at = "note" /\ l.ret = "kick"
      BY <1>1 DEF LocalType
    <3> HIDE DEF l
    <3>3. Drives(l) /\ ~ Claimed(proc[p])
      BY <2>2, <3>2 DEF Drives, Plain
    <3> QED
      BY <2>3, <3>1, <3>2, <3>3, BeOne, AliveStill DEF Alive
  <2> QED
    BY <2>4, <2>5
<1> QED
  BY <1>2, <1>3, <1>4, AliveSettles DEF Common

(* Unless a CLI exits or does not start, or the daemon is killed. *)
Works == Well => Alive

LEMMA WorksStep == ASSUME Typed, Works, [Next]_vars PROVE Works'
<1> SUFFICES ASSUME Well' PROVE Alive'
  BY DEF Works
<1>1. Alive
  BY MishapsGrow DEF Works, Well
<1>2. CASE Restart
  BY <1>2, HappenedIll DEF Restart
<1>3. CASE UNCHANGED vars
  BY <1>1, <1>3 DEF vars, Alive
<1> QED
  BY <1>1, <1>2, <1>3, AliveDriver, AliveClient, AliveCli, AliveOrchestrator, AliveCommon DEF Next

-----------------------------------------------------------------------------
(* The inductive invariant, and what follows from it. *)

(* Typed: the state's types, and what a task's locals hold where it stands. *)
(* Placed: where each message is.  Locking: what the driver's lock covers.  *)
(* Queued: the queue has nothing twice, and only what is in it is judged.   *)
(* Looks: who settles a judgement.  Works: who sends what waits for a turn. *)
DriverInductive == Typed /\ Placed /\ Locking /\ Queued /\ Looks /\ Works

LEMMA DriverInductiveInit == ASSUME Init PROVE DriverInductive
<1>1. Typed
  BY TypedInit
<1>2. \A p \in Procs : proc[p] = Off
  BY DEF Init
<1>3. /\ board.queue = <<>> /\ board.deciding = {} /\ conv.pending = <<>> /\ conv.inbox = <<>>
      /\ conv.busy = FALSE
  BY DEF Init, ConvDefault
<1>4. /\ hist.sent = {} /\ hist.deleted = {} /\ hist.lost = {} /\ \A m \in Msgs : hist.given[m] = 0
  BY DEF Init
<1>5. Placed
  <2>1. ASSUME NEW m \in Msgs, NEW s \in Spots PROVE ~ Lies(m, s)
    BY <1>2, <1>3, <1>4, FreeOff, FreeHas, NothingIn DEF Lies
  <2>2. \A p \in Procs : \A m : ~ Has(proc[p], m)
    BY <1>2, FreeOff, FreeHas
  <2> QED
    BY <1>4, <2>1, <2>2 DEF Placed, InOne
<1>6. Locking
  <2>1. lock = None
    BY DEF Init
  <2> QED
    BY <1>2, <2>1, OffPlain, DriverAssumption DEF Locking, Holding, Procs
<1>7. Queued /\ Looks
  BY <1>3, NothingIn DEF Queued, Looks
<1>8. Alive
  <2>1. \A c \in Clis : clis[c] = [state |-> "none", events |-> <<>>]
    BY DEF Init
  <2>2. Sound(clis)
    BY <2>1, NothingIn DEF Sound
  <2> QED
    BY <1>2, <1>3, <2>2, OffPlain DEF Alive, Left
<1> QED
  BY <1>1, <1>5, <1>6, <1>7, <1>8 DEF DriverInductive, Works

LEMMA DriverInductiveStep == ASSUME DriverInductive, [Next]_vars PROVE DriverInductive'
BY TypedStep, PlacedStep, LockingStep, QueuedStep, LooksStep, WorksStep DEF DriverInductive

LEMMA DriverInductives == Spec => []DriverInductive
<1>1. Init => DriverInductive
  BY DriverInductiveInit
<1>2. DriverInductive /\ [Next]_vars => DriverInductive'
  BY DriverInductiveStep
<1> QED
  BY <1>1, <1>2, PTL DEF Spec

(* The conversation's state keeps its types, the locals of every task      *)
(* included, wherever next_turn, a client's call or a CLI's pump stands.   *)
THEOREM DriverTypes == Spec => []TypeOK
<1>1. DriverInductive => TypeOK
  <2> SUFFICES ASSUME DriverInductive PROVE TypeOK
    OBVIOUS
  <2>1. Typed /\ Queued
    BY DEF DriverInductive
  <2>2. /\ board \in BoardType /\ conv \in ConvType /\ board.queue \in Seq(Msgs) /\ board.log \in Seq(Msgs)
        /\ conv.inbox \in Seq(Envelopes) /\ conv.pending \in Seq(Msgs)
    BY <2>1 DEF Typed, TypedBoard, TypedConv, BoardType, ConvType
  <2>3. /\ In(board.queue) \subseteq Msgs /\ In(board.log) \subseteq Msgs
        /\ In(conv.inbox) \subseteq Envelopes /\ In(conv.pending) \subseteq Msgs
    BY <2>2, InSet
  <2>4. Len(board.queue) = Cardinality(In(board.queue)) /\ board.deciding \subseteq In(board.queue)
    BY <2>1, <2>2, NoneTwiceLength DEF Queued
  <2>5. kind \in Kinds /\ lock \in Drivers \union {None} /\ kicks \in 0 .. MaxKicks
    BY <2>1 DEF Typed, TypedRest
  <2>6. /\ board.paused \in BOOLEAN /\ board.state \in [Msgs -> States]
        /\ board.into \in [Msgs -> Msgs \union {None}] /\ board.tasks \subseteq Msgs
    BY <2>2 DEF BoardType, Maybe
  <2>7. /\ conv.cli \in Clis \union {None} /\ conv.busy \in BOOLEAN
        /\ conv.announcing \subseteq Msgs /\ conv.request \in Msgs \union {None}
        /\ conv.outcomes \in [Msgs -> {"none", "stopped", "failed"}]
        /\ conv.asking \subseteq Msgs \X Msgs /\ conv.asked \subseteq Msgs
    BY <2>2 DEF ConvType, Maybe
  <2> QED
    BY <2>3, <2>4, <2>5, <2>6, <2>7 DEF TypeOK
<1> QED
  BY <1>1, DriverInductives, PTL

(* No message is given to a CLI twice, whichever of the driver, a steer, a *)
(* follow-up or a report takes it (take_queued, deliver, join_working).    *)
THEOREM EachGivenOnce == Spec => []GivenOnce
<1>1. DriverInductive => GivenOnce
  BY DEF DriverInductive, Placed, InOne, GivenOnce
<1> QED
  BY <1>1, DriverInductives, PTL

LEMMA PlacedAccounted == ASSUME Placed, NEW m \in Msgs, m \in hist.sent
    PROVE LET Count(places) == Cardinality({x \in {"queue", "pending", "deleted", "lost"} : m \in places[x]})
              n == hist.given[m] + Cardinality({p \in Procs : Carries(p, m)})
                   + Count([queue |-> In(board.queue), pending |-> In(conv.pending),
                            deleted |-> hist.deleted, lost |-> hist.lost])
          IN  n <= 1 /\ (n = 0 => "kill" \in hist.mishaps)
<1> DEFINE hands == {p \in Procs : Carries(p, m)}
           places == [queue |-> In(board.queue), pending |-> In(conv.pending),
                      deleted |-> hist.deleted, lost |-> hist.lost]
           spots == {x \in {"queue", "pending", "deleted", "lost"} : m \in places[x]}
<1>1. InOne(m)
  BY DEF Placed
<1>2. spots = {x \in {"queue", "pending", "deleted", "lost"} : Lies(m, x)}
  BY DEF Lies
<1>3. hands = {p \in Procs : Has(proc[p], m)}
  BY CarriesHas
<1> HIDE DEF hands, places, spots
<1>4. /\ Cardinality({}) = 0 /\ \A x : Cardinality({x}) = 1
  BY FS_EmptySet, FS_Singleton
<1>5. ASSUME NEW n, n = hist.given[m] + Cardinality(hands) + Cardinality(spots)
      PROVE  n <= 1 /\ (n = 0 => "kill" \in hist.mishaps)
  <2>1. CASE \A s \in Spots : ~ Lies(m, s)
    <3>1. hands = {} /\ spots = {} /\ hist.given[m] = 0
      BY <1>2, <1>3, <2>1 DEF Spots, Lies
    <3>2. "kill" \in hist.mishaps
      BY <1>1, <2>1 DEF InOne
    <3> QED
      BY <1>4, <1>5, <3>1, <3>2
  <2>2. CASE Lies(m, "given")
    <3>1. \A s \in Spots : Lies(m, s) => s = "given"
      BY <1>1, <2>2 DEF InOne, Spots
    <3>2. hands = {} /\ spots = {} /\ hist.given[m] = 1
      BY <1>1, <1>2, <1>3, <2>2, <3>1 DEF Spots, Lies, InOne
    <3> QED
      BY <1>4, <1>5, <3>2
  <2>3. CASE Lies(m, "hand")
    <3>1. \A s \in Spots : Lies(m, s) => s = "hand"
      BY <1>1, <2>3 DEF InOne, Spots
    <3>2. PICK p \in Procs : Has(proc[p], m)
      BY <2>3 DEF Lies
    <3>3. hands = {p} /\ spots = {} /\ hist.given[m] = 0
      BY <1>1, <1>2, <1>3, <3>1, <3>2 DEF Spots, Lies, InOne
    <3>4. Cardinality(hands) = 1 /\ Cardinality(spots) = 0
      <4>1. Cardinality({p}) = 1
        BY <1>4
      <4> QED
        BY <1>4, <3>3, <4>1
    <3> QED
      BY <1>5, <3>3, <3>4
  <2>4. ASSUME NEW s \in {"queue", "pending", "deleted", "lost"}, Lies(m, s)
        PROVE  n <= 1 /\ (n = 0 => "kill" \in hist.mishaps)
    <3>1. \A t \in Spots : Lies(m, t) => t = s
      BY <1>1, <2>4 DEF InOne, Spots
    <3>2. ~ Lies(m, "given") /\ ~ Lies(m, "hand")
      BY <2>4, <3>1 DEF Spots
    <3>3. hands = {} /\ hist.given[m] = 0
      BY <1>3, <3>2 DEF Lies
    <3>4. spots = {s}
      BY <1>2, <2>4, <3>1 DEF Spots
    <3>5. Cardinality(hands) = 0 /\ Cardinality(spots) = 1
      <4>1. Cardinality({s}) = 1
        BY <1>4
      <4> QED
        BY <1>4, <3>3, <3>4, <4>1
    <3> QED
      BY <1>5, <3>3, <3>5
  <2> QED
    BY <2>1, <2>2, <2>3, <2>4 DEF Spots
<1> QED
  BY <1>5 DEF hands, places, spots

(* A message the user sent is in one place or with one task, or was given: *)
(* a failed append or a removal at an await loses or copies nothing; only  *)
(* a kill may lose what was in memory.                                     *)
THEOREM EachAccounted == Spec => []Accounted
<1>1. DriverInductive => Accounted
  <2> SUFFICES ASSUME DriverInductive, NEW m \in hist.sent
               PROVE  LET Count(places) ==
                              Cardinality({x \in {"queue", "pending", "deleted", "lost"} : m \in places[x]})
                          n == hist.given[m] + Cardinality({p \in Procs : Carries(p, m)})
                               + Count([queue |-> In(board.queue), pending |-> In(conv.pending),
                                        deleted |-> hist.deleted, lost |-> hist.lost])
                      IN  n <= 1 /\ (n = 0 => "kill" \in hist.mishaps)
    BY DEF Accounted
  <2>1. Placed /\ m \in Msgs
    BY DEF DriverInductive, Typed, TypedHist, HistType
  <2> QED
    BY <2>1, PlacedAccounted
<1> QED
  BY <1>1, DriverInductives, PTL

(* A queued message marked as being judged (ask_follow_up) has a tool call *)
(* or a task that will settle the mark, unless the daemon was killed.      *)
THEOREM EachJudged == Spec => []Judged
<1>1. DriverInductive => Judged
  <2> SUFFICES ASSUME Looks, "kill" \notin hist.mishaps, NEW m \in board.deciding
               PROVE  \/ m \in conv.asked
                      \/ m \in {pair[1] : pair \in conv.asking}
                      \/ \E p \in Procs :
                           \/ m \in proc[p].asked
                           \/ proc[p].m = m /\ proc[p].at \in {"ask", "envelope", "routed", "take"}
    BY DEF Judged, DriverInductive
  <2>1. CASE Asked(m)
    BY <2>1 DEF Asked
  <2>2. CASE \E p \in Procs : Waits(proc[p], m)
    BY <2>2 DEF Waits, Waiting
  <2> QED
    BY <2>1, <2>2 DEF Looks
<1> QED
  BY <1>1, DriverInductives, PTL

(* When everything has come to rest nothing waits for a turn, unless a CLI *)
(* exited or did not start or the daemon was killed: kick_session and the  *)
(* busy mark leave no message behind.                                      *)
THEOREM NoneStranded == Spec => []NothingStranded
<1>1. DriverInductive => NothingStranded
  <2> SUFFICES ASSUME DriverInductive, Quiet, Well PROVE ~ Left(conv)
    BY DEF NothingStranded, Well, Left
  <2>1. Alive /\ Typed
    BY DEF DriverInductive, Works
  <2>2. \A p \in Procs : proc[p] = Off
    BY <2>1, OffFree DEF Quiet
  <2>3. \A p \in Procs : ~ Claimed(proc[p]) /\ ~ Drives(proc[p])
    BY <2>2, OffPlain DEF Plain
  <2>4. ~ Active(clis)
    BY DEF Quiet, Active
  <2> QED
    BY <2>1, <2>3, <2>4 DEF Alive, Quiet
<1> QED
  BY <1>1, DriverInductives, PTL

=============================================================================

--------------------------- MODULE SettingsWrites ---------------------------
(***************************************************************************)
(* The settings are one value, written as a whole.  Clients send the copy  *)
(* their page read, changed in one place, however old it is; the daemon    *)
(* itself records the models an agent's list names and keeps new ones from *)
(* worker tasks.  A lock orders read, change and write; rebase keeps what  *)
(* the daemon recorded since a client read its copy.                       *)
(*                                                                         *)
(* Source: src/crates/core/src/sessions.rs (settings_writes) and           *)
(* src/crates/core/src/routing/availability.rs.                            *)
(***************************************************************************)
EXTENDS Integers

CONSTANTS
    Models,       \* listed models
    Providers,    \* agents
    ProviderOf,   \* the agent that lists a model
    Clients,      \* open pages, one request each
    Listers,      \* tasks that read an agent's model list
    MaxSeq        \* bound: committed settings

ASSUME SettingsAssumption ==
    /\ ProviderOf \in [Models -> Providers]
    /\ Clients \intersect Listers = {}
    /\ MaxSeq \in Nat

(* known: Settings.known_models; barred: the models with a worker rule. *)
Settings == [known : SUBSET Models, barred : SUBSET Models]
Version  == [seq : Nat, value : Settings]
Tasks    == Clients \union Listers

VARIABLES
    live,    \* Projection.settings and settings_seq
    saved,   \* the newest event of the settings stream
    page,    \* per client: the settings its page shows
    asked,   \* per client: the settings its request carries
    pc,      \* per task: idle, waiting for the lock, appending, or appended
    next,    \* per task: the settings it writes
    at       \* per task: the sequence its append was given

settingsVars == <<live, saved, page, asked, pc, next, at>>

Defaults == [known |-> {}, barred |-> {}]

SettingsInit ==
    /\ live = [seq |-> 0, value |-> Defaults]
    /\ saved = live
    /\ page = [c \in Clients |-> Defaults]
    /\ asked = [c \in Clients |-> Defaults]
    /\ pc = [t \in Tasks |-> "idle"]
    /\ next = [t \in Tasks |-> Defaults]
    /\ at = [t \in Tasks |-> 0]

-----------------------------------------------------------------------------
(* The rules for a change. *)

(* Mutant: a later model gets no rule. *)
NotedUnbarred(settings, list) == [settings EXCEPT !.known = @ \union list]

(* note_models: all of an agent's first list is taken as known; a later model is barred. *)
Noted(settings, list) ==
    LET new   == list \ settings.known
        first == \A m \in list, k \in settings.known : ProviderOf[k] # ProviderOf[m]
    IN  [known  |-> settings.known \union list,
         barred |-> IF first THEN settings.barred ELSE settings.barred \union new]

(* Mutants: the client's copy replaces the settings; or only what is known is kept. *)
NotRebased(current, incoming) == incoming
RebasedWithoutRules(current, incoming) ==
    [incoming EXCEPT !.known = @ \union current.known]

(* rebase: what was recorded since the client read its copy stays, with its rule. *)
Rebased(current, incoming) ==
    [known  |-> incoming.known \union current.known,
     barred |-> incoming.barred \union (current.barred \intersect (current.known \ incoming.known))]

-----------------------------------------------------------------------------
(* A page shows the settings the daemon has, or those of the last event it got. *)
Refresh(c) ==
    /\ page' = [page EXCEPT ![c] = saved.value] \/ page' = [page EXCEPT ![c] = live.value]
    /\ UNCHANGED <<live, saved, asked, pc, next, at>>

(* The user turns a model's switch on the page, or changes something else. *)
SendSettings(c) ==
    /\ pc[c] = "idle"
    /\ \/ asked' = [asked EXCEPT ![c] = page[c]]
       \/ \E m \in Models :
              \/ asked' = [asked EXCEPT ![c] = [page[c] EXCEPT !.barred = @ \union {m}]]
              \/ asked' = [asked EXCEPT ![c] = [page[c] EXCEPT !.barred = @ \ {m}]]
    /\ pc' = [pc EXCEPT ![c] = "waiting"]
    /\ UNCHANGED <<live, saved, page, next, at>>

Holds(t) == pc[t] \in {"appending", "appended"}

(* Mutant: writes without the lock. *)
NoLock == TRUE

(* settings_writes is free. *)
LockFree == \A t \in Tasks : ~Holds(t)

Write(t, settings) ==
    /\ next' = [next EXCEPT ![t] = settings]
    /\ pc' = [pc EXCEPT ![t] = "appending"]

(* update_settings, under the lock *)
UpdateSettings(c) ==
    /\ pc[c] = "waiting" /\ LockFree
    /\ Write(c, Rebased(live.value, asked[c]))
    /\ UNCHANGED <<live, saved, page, asked, at>>

(* note_models, under the lock; nothing is written when every model is known. *)
NoteModels(t, p) ==
    /\ pc[t] = "idle" /\ LockFree
    /\ \E list \in SUBSET {m \in Models : ProviderOf[m] = p} :
           /\ ~(list \subseteq live.value.known)
           /\ Write(t, Noted(live.value, list))
    /\ UNCHANGED <<live, saved, page, asked, at>>

(* Core::record of the new settings: append, then apply. *)
Commit(t) ==
    /\ pc[t] = "appending" /\ saved.seq < MaxSeq
    /\ saved' = [seq |-> saved.seq + 1, value |-> next[t]]
    /\ at' = [at EXCEPT ![t] = saved.seq + 1]
    /\ pc' = [pc EXCEPT ![t] = "appended"]
    /\ UNCHANGED <<live, page, asked, next>>

(* The task answers and lets go of the lock. *)
Return(t) ==
    /\ pc' = [pc EXCEPT ![t] = "idle"]
    /\ next' = [next EXCEPT ![t] = Defaults]
    /\ at' = [at EXCEPT ![t] = 0]
    /\ asked' = [c \in Clients |-> IF c = t THEN Defaults ELSE asked[c]]

AppendFails(t) ==
    /\ pc[t] = "appending"
    /\ Return(t)
    /\ UNCHANGED <<live, saved, page>>

(* Projection::apply: an older change does not win. *)
Apply(t) ==
    /\ pc[t] = "appended"
    /\ live' = IF at[t] >= live.seq THEN [seq |-> at[t], value |-> next[t]] ELSE live
    /\ Return(t)
    /\ UNCHANGED <<saved, page>>

(* The daemon is killed; it loads the newest settings.  Pages stay open. *)
SettingsRestart ==
    /\ live' = saved
    /\ pc' = [t \in Tasks |-> "idle"]
    /\ next' = [t \in Tasks |-> Defaults]
    /\ at' = [t \in Tasks |-> 0]
    /\ asked' = [c \in Clients |-> Defaults]
    /\ UNCHANGED <<saved, page>>

SettingsNext ==
    \/ \E c \in Clients : Refresh(c) \/ SendSettings(c) \/ UpdateSettings(c)
    \/ \E t \in Listers, p \in Providers : NoteModels(t, p)
    \/ \E t \in Tasks : Commit(t) \/ AppendFails(t) \/ Apply(t)
    \/ SettingsRestart

SettingsSpec == SettingsInit /\ [][SettingsNext]_settingsVars

-----------------------------------------------------------------------------
SettingsTypeOK ==
    /\ live \in Version /\ saved \in Version
    /\ page \in [Clients -> Settings] /\ asked \in [Clients -> Settings]
    /\ pc \in [Tasks -> {"idle", "waiting", "appending", "appended"}]
    /\ next \in [Tasks -> Settings] /\ at \in [Tasks -> Nat]

(* A model recorded as known stays known, whatever copy a client writes (rebase). *)
KnownKept == [][saved.value.known \subseteq saved'.value.known]_settingsVars

(***************************************************************************)
(* A model's rule goes only by a change from a page that knew the model: a *)
(* page open from before cannot give it work (rebase).                     *)
(***************************************************************************)
RuleEndsKnowingly ==
    [][\A m \in saved.value.known \intersect saved.value.barred :
           m \notin saved'.value.barred =>
               \E c \in Clients : pc[c] = "appending" /\ m \in asked[c].known]_settingsVars

(***************************************************************************)
(* A model seen after its agent's first list starts barred from worker     *)
(* tasks, also when lists and clients' changes meet (availability.rs).     *)
(***************************************************************************)
NewModelsStartBarred ==
    [][\A m \in saved'.value.known \ saved.value.known :
           (\E k \in saved.value.known : ProviderOf[k] = ProviderOf[m]) => m \in saved'.value.barred]_settingsVars

(***************************************************************************)
(* The inductive invariant: one task writes at a time, from the newest     *)
(* settings, and no page knows a model the log does not.                   *)
(***************************************************************************)
OneWriter == \A s, t \in Tasks : Holds(s) /\ Holds(t) => s = t

FromNewest ==
    /\ live = saved \/ \E t \in Tasks : pc[t] = "appended"
    /\ live.seq <= saved.seq
    /\ live.value.known \subseteq saved.value.known
    /\ \A t \in Tasks :
           /\ pc[t] = "appended" => saved.value = next[t] /\ saved.seq = at[t]
           /\ pc[t] = "appending" /\ t \in Clients => next[t] = Rebased(saved.value, asked[t])
           /\ pc[t] = "appending" /\ t \in Listers =>
                  \E p \in Providers : \E list \in SUBSET {m \in Models : ProviderOf[m] = p} :
                      next[t] = Noted(saved.value, list)

PagesBehind ==
    \A c \in Clients :
        page[c].known \subseteq saved.value.known /\ asked[c].known \subseteq saved.value.known

SettingsInductive == OneWriter /\ FromNewest /\ PagesBehind
=============================================================================

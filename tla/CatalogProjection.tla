------------------------- MODULE CatalogProjection -------------------------
(***************************************************************************)
(* The catalog: the view of projects and conversations the daemon keeps in *)
(* memory, folded from the catalog stream.  A change is appended to the    *)
(* log first and applied to the view once the writer of the change runs    *)
(* again, so changes can be applied in another order than they were        *)
(* committed.  A restart folds the log from its start.                     *)
(*                                                                         *)
(* Source: src/crates/core/src/{projection,sessions}.rs.  The log is that  *)
(* of EventStore: an append commits all of its events or none.             *)
(***************************************************************************)
EXTENDS Integers

CONSTANTS
    Conversations,   \* conversation ids a caller may pick
    Projects,        \* project ids
    Values,          \* what a field can be set to
    Initial,         \* every field's value at first
    Writers,         \* tasks that change the catalog
    MaxSeq           \* bound: committed changes

ASSUME CatalogAssumption ==
    /\ Conversations \intersect Projects = {}
    /\ Initial \in Values
    /\ MaxSeq \in Nat

(* Fields with a sequence map in Projection, and the two without one. *)
Guarded   == {"title", "pinned", "setup", "lifecycle", "project"}
Unguarded == {"fallback", "quota_wait"}
Fields    == Guarded \union Unguarded
Entities  == Conversations \union Projects

Event == [kind : {"created", "deleted"}] \union [kind : {"set"}, field : Fields, value : Values]

(***************************************************************************)
(* An entry of the view.  seqs holds, per guarded field, the sequence of   *)
(* the change that last set it; ids are never used again, so "gone" and    *)
(* "none" are both an absent entry of the map.                             *)
(***************************************************************************)
Entry == [status : {"none", "live", "gone"},
          fields : [Fields -> Values],
          seqs   : [Guarded -> Nat]]

NoEntry == [status |-> "none",
            fields |-> [f \in Fields |-> Initial],
            seqs   |-> [f \in Guarded |-> 0]]

VARIABLES
    live,       \* Core.projection
    saved,      \* the fold of the committed log, what load would build
    lastSeq,    \* sequence of the last committed change
    pc,         \* per writer: idle, appending, or appended and not yet applied
    batch,      \* per writer: its events, at most one for an entity
    at          \* per writer: the sequence its append was given

vars == <<live, saved, lastSeq, pc, batch, at>>

NoBatch == [e \in {} |-> [kind |-> "deleted"]]

Init ==
    /\ live = [e \in Entities |-> NoEntry]
    /\ saved = [e \in Entities |-> NoEntry]
    /\ lastSeq = 0
    /\ pc = [w \in Writers |-> "idle"]
    /\ batch = [w \in Writers |-> NoBatch]
    /\ at = [w \in Writers |-> 0]

-----------------------------------------------------------------------------
(* Projection::apply of one event to the entry it is about. *)

(* Mutant: the last change applied wins. *)
AlwaysLatest(entry, field, seq) == TRUE

(* latest(): whether no newer change already set the field. *)
Latest(entry, field, seq) == entry.seqs[field] <= seq

(* Mutant: the entry is replaced by what the event says. *)
SetFieldOnly(entry, field, value, seq) == [entry EXCEPT !.fields = [f \in {field} |-> value]]

SetField(entry, field, value, seq) ==
    IF field \in Guarded
      THEN IF Latest(entry, field, seq)
             THEN [entry EXCEPT !.fields = [@ EXCEPT ![field] = value],
                                !.seqs = [@ EXCEPT ![field] = seq]]
             ELSE entry
      ELSE [entry EXCEPT !.fields = [@ EXCEPT ![field] = value]]

(* Mutant: a change of an entry that is gone brings it back. *)
UpsertApplied(entry, event, seq) ==
    CASE event.kind = "created" -> [entry EXCEPT !.status = "live"]
      [] event.kind = "deleted" -> [entry EXCEPT !.status = "gone"]
      [] OTHER -> [SetField(entry, event.field, event.value, seq) EXCEPT !.status = "live"]

Applied(entry, event, seq) ==
    CASE event.kind = "created" -> [entry EXCEPT !.status = "live"]
      [] event.kind = "deleted" -> [entry EXCEPT !.status = "gone"]
      [] OTHER -> IF entry.status = "live"
                    THEN SetField(entry, event.field, event.value, seq)
                    ELSE entry

ApplyAll(view, events, seq) ==
    [e \in Entities |-> IF e \in DOMAIN events THEN Applied(view[e], events[e], seq) ELSE view[e]]

-----------------------------------------------------------------------------
(* Core::record: append, then apply. *)

(* A command validated its change against the view and calls record. *)
Record(w, events) ==
    /\ pc[w] = "idle"
    /\ pc' = [pc EXCEPT ![w] = "appending"]
    /\ batch' = [batch EXCEPT ![w] = events]
    /\ UNCHANGED <<live, saved, lastSeq, at>>

(* The store commits the append.  Its events get consecutive numbers; they are about *)
(* different entries, so one number stands for them. *)
Commit(w) ==
    /\ pc[w] = "appending" /\ lastSeq < MaxSeq
    /\ lastSeq' = lastSeq + 1
    /\ saved' = ApplyAll(saved, batch[w], lastSeq + 1)
    /\ at' = [at EXCEPT ![w] = lastSeq + 1]
    /\ pc' = [pc EXCEPT ![w] = "appended"]
    /\ UNCHANGED <<live, batch>>

Return(w) ==
    /\ pc' = [pc EXCEPT ![w] = "idle"]
    /\ batch' = [batch EXCEPT ![w] = NoBatch]
    /\ at' = [at EXCEPT ![w] = 0]

AppendFails(w) ==
    /\ pc[w] = "appending"
    /\ Return(w)
    /\ UNCHANGED <<live, saved, lastSeq>>

(* The writer runs again, takes the projection's lock and applies its events. *)
Apply(w) ==
    /\ pc[w] = "appended"
    /\ live' = ApplyAll(live, batch[w], at[w])
    /\ Return(w)
    /\ UNCHANGED <<saved, lastSeq>>

-----------------------------------------------------------------------------
(* The commands. *)

Set(field, value) == [kind |-> "set", field |-> field, value |-> value]
Only(e, event)    == [x \in {e} |-> event]

(* The session's project remembers the setup, if that changes the project. *)
Remembering(c, event, p, value) ==
    [x \in {c, p} |-> IF x = c THEN event ELSE Set("project", value)]

Exists(e) == live[e].status = "live"

(* Ids are fresh: no entry has this one and no other writer is about to create it. *)
Fresh(e) ==
    /\ live[e].status = "none" /\ saved[e].status = "none"
    /\ \A w \in Writers : pc[w] = "idle" \/ e \notin DOMAIN batch[w]

CreateProject(w, p) ==
    /\ Fresh(p)
    /\ Record(w, Only(p, [kind |-> "created"]))

(* A chat is outside any project; a session's project must exist. *)
CreateConversation(w, c) ==
    /\ Fresh(c)
    /\ \/ Record(w, Only(c, [kind |-> "created"]))
       \/ \E p \in Projects, v \in Values :
              /\ Exists(p)
              /\ Record(w, Remembering(c, [kind |-> "created"], p, v))

(* update_project reads the whole project, and writes it back after checking its folders. *)
UpdateProject(w, p, v) ==
    /\ Exists(p)
    /\ Record(w, Only(p, Set("project", v)))

SetSetup(w, c, v) ==
    /\ Exists(c)
    /\ \/ Record(w, Only(c, Set("setup", v)))
       \/ \E p \in Projects, u \in Values :
              /\ Exists(p)
              /\ Record(w, Remembering(c, Set("setup", v), p, u))

RenameConversation(w, c, v) ==
    /\ Exists(c)
    /\ Record(w, Only(c, Set("title", v)))

(* Nothing is recorded when the view already shows the value. *)
SetPinned(w, c, v) ==
    /\ Exists(c) /\ live[c].fields["pinned"] # v
    /\ Record(w, Only(c, Set("pinned", v)))

SetLifecycle(w, c, v) ==
    /\ Exists(c) /\ live[c].fields["lifecycle"] # v
    /\ Record(w, Only(c, Set("lifecycle", v)))

SetFallback(w, c, v) ==
    /\ Exists(c)
    /\ Record(w, Only(c, Set("fallback", v)))

SetConversationWait(w, c, v) ==
    /\ Exists(c)
    /\ Record(w, Only(c, Set("quota_wait", v)))

ForgetConversation(w, c) ==
    /\ Exists(c)
    /\ Record(w, Only(c, [kind |-> "deleted"]))

ForgetProject(w, p) ==
    /\ Exists(p)
    /\ Record(w, Only(p, [kind |-> "deleted"]))

(* The daemon is killed at any point and Core::load folds the log. *)
Restart ==
    /\ live' = saved
    /\ pc' = [w \in Writers |-> "idle"]
    /\ batch' = [w \in Writers |-> NoBatch]
    /\ at' = [w \in Writers |-> 0]
    /\ UNCHANGED <<saved, lastSeq>>

Command(w) ==
    \/ \E c \in Conversations :
           \/ CreateConversation(w, c) \/ ForgetConversation(w, c)
           \/ \E v \in Values :
                  \/ SetSetup(w, c, v) \/ RenameConversation(w, c, v)
                  \/ SetPinned(w, c, v) \/ SetLifecycle(w, c, v)
                  \/ SetFallback(w, c, v) \/ SetConversationWait(w, c, v)
    \/ \E p \in Projects :
           \/ CreateProject(w, p) \/ ForgetProject(w, p)
           \/ \E v \in Values : UpdateProject(w, p, v)

Next ==
    \/ \E w \in Writers : Command(w) \/ Commit(w) \/ AppendFails(w) \/ Apply(w)
    \/ Restart

Spec == Init /\ [][Next]_vars

-----------------------------------------------------------------------------
TypeOK ==
    /\ live \in [Entities -> Entry] /\ saved \in [Entities -> Entry]
    /\ lastSeq \in Nat
    /\ pc \in [Writers -> {"idle", "appending", "appended"}]
    /\ DOMAIN batch = Writers
    /\ \A w \in Writers : /\ DOMAIN batch[w] \subseteq Entities
                          /\ \A e \in DOMAIN batch[w] : batch[w][e] \in Event
    /\ at \in [Writers -> Nat]

Quiet == \A w \in Writers : pc[w] # "appended"

(***************************************************************************)
(* Once every committed change is applied, the view holds the entries and  *)
(* the values of the guarded fields that a restart would load, whatever    *)
(* the order the writers resumed in (projection.rs, the comment on the     *)
(* sequence maps).                                                         *)
(***************************************************************************)
SameAsLog(e) ==
    /\ Exists(e) <=> saved[e].status = "live"
    /\ Exists(e) => \A f \in Guarded : live[e].fields[f] = saved[e].fields[f]
LiveMatchesLog == Quiet => \A e \in Entities : SameAsLog(e)

(***************************************************************************)
(* The same for the wait, a field without a sequence map that two tasks do *)
(* write at once (a turn that ends waiting, and a retry of the wait).  The *)
(* comment on the maps speaks of "each last-writer-wins field".            *)
(***************************************************************************)
WaitMatchesLog ==
    Quiet => \A c \in Conversations :
                 Exists(c) => live[c].fields["quota_wait"] = saved[c].fields["quota_wait"]

(***************************************************************************)
(* A deleted conversation or project never comes back, neither by a change *)
(* of it that was under way nor by a restart.                              *)
(***************************************************************************)
NeverComesBack ==
    [][\A e \in Entities :
           live[e].status = "gone" \/ saved[e].status = "gone" => ~(~Exists(e) /\ Exists(e)')]_vars

(***************************************************************************)
(* The inductive invariant behind LiveMatchesLog.  A value of the log the  *)
(* view does not show is carried by a writer that has yet to apply it, and *)
(* no one else will set that field with a newer number.                    *)
(***************************************************************************)
Carries(w, e) == pc[w] # "idle" /\ e \in DOMAIN batch[w]
Pending(w, e) == pc[w] = "appended" /\ e \in DOMAIN batch[w]
Creates(w, e) == Carries(w, e) /\ batch[w][e].kind = "created"

(* A creation is the only change under way of its entry, and the entry is new. *)
CreationsAlone ==
    \A w \in Writers, e \in Entities :
        /\ Creates(w, e) =>
               /\ live[e] = NoEntry
               /\ \A v \in Writers : Carries(v, e) => v = w
               /\ pc[w] = "appending" => saved[e] = NoEntry
               /\ pc[w] = "appended" => saved[e] = [NoEntry EXCEPT !.status = "live"]
        /\ Carries(w, e) /\ ~Creates(w, e) => live[e].status # "none"

StatusPending ==
    \A e \in Entities :
        /\ saved[e].status = "none" => saved[e] = NoEntry
        /\ live[e].status = "none" =>
               /\ live[e] = NoEntry
               /\ saved[e].status # "none" => \E w \in Writers : Pending(w, e) /\ Creates(w, e)
        /\ live[e].status # "none" => saved[e].status # "none"
        /\ live[e].status = "live" /\ saved[e].status = "gone" =>
               \E w \in Writers : Pending(w, e) /\ batch[w][e].kind = "deleted"
        /\ live[e].status = "gone" => saved[e].status = "gone"
        /\ \A w \in Writers : Pending(w, e) /\ batch[w][e].kind = "deleted" => saved[e].status = "gone"

SeqsIssued ==
    /\ \A e \in Entities, f \in Guarded : saved[e].seqs[f] <= lastSeq
    /\ \A w \in Writers : at[w] <= lastSeq

PendingSet(w, e, f) == Pending(w, e) /\ batch[w][e].kind = "set" /\ batch[w][e].field = f

(* w still has to apply the log's value of the field. *)
Brings(w, e, f) ==
    /\ PendingSet(w, e, f)
    /\ at[w] = saved[e].seqs[f]
    /\ batch[w][e].value = saved[e].fields[f]

ValuesPending ==
    \A e \in Entities, f \in Guarded :
        saved[e].status = "live" /\ live[e].status = "live" =>
            /\ live[e].seqs[f] <= saved[e].seqs[f]
            /\ \/ live[e].fields[f] = saved[e].fields[f] /\ live[e].seqs[f] = saved[e].seqs[f]
               \/ \E w \in Writers : Brings(w, e, f)
            /\ \A w \in Writers :
                   PendingSet(w, e, f) =>
                       /\ at[w] <= saved[e].seqs[f]
                       /\ at[w] = saved[e].seqs[f] => batch[w][e].value = saved[e].fields[f]

Inductive == CreationsAlone /\ StatusPending /\ SeqsIssued /\ ValuesPending
=============================================================================

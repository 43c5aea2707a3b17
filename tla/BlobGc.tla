------------------------------- MODULE BlobGc -------------------------------
(***************************************************************************)
(* Blobs and their collection.  A holder (a composer with an attachment, a *)
(* worker with a result) puts a blob, may touch it, and has the writer     *)
(* append an event that mentions it.  A collector lists the blob files,    *)
(* then has the writer check and delete the stale ones in chunks.  Puts    *)
(* and touches run on a thread pool beside both; a lock orders each of     *)
(* them with one deletion.                                                 *)
(*                                                                         *)
(* Source: src/crates/store/src/{blob,lib,writer,schema}.rs.               *)
(***************************************************************************)
EXTENDS Integers, FiniteSets

CONSTANTS
    Hashes,        \* blob contents
    Holders,       \* tasks that put blobs and reference them
    Collectors,    \* calls of Store::gc_blobs in flight
    Grace,         \* BLOB_GC_GRACE
    MaxPutTime,    \* the longest a put takes from writing its file to renaming it
    Chunk,         \* GC_CHUNK
    MaxTime,       \* bound: the clock
    MaxEvents      \* bound: stored events that mention one blob

ASSUME BlobAssumption ==
    /\ Grace \in Nat /\ MaxPutTime \in Nat /\ Chunk \in Nat \ {0}
    /\ MaxTime \in Nat /\ MaxEvents \in Nat

Absent == -1

VARIABLES
    now,       \* SystemTime::now()
    file,      \* per hash: Absent, or the file's modification time
    events,    \* per hash: how many stored events mention it (rows of blob_refs)
    doing,     \* per holder: idle, writing its temp file, or holding the hash
    blob,      \* per holder: the hash it puts or holds
    stamp,     \* per holder: when its temp file was written
    since,     \* per holder: when its last put or touch returned
    gc,        \* per collector: idle, listing, or collecting
    cutoff,    \* per collector: now - grace when it started
    unlisted,  \* per collector: hashes whose directory entry it has yet to read
    stale,     \* per collector: candidates not yet sent to the writer
    chunk      \* the chunk on the writer thread: what is left of it, and whose it is

holder    == <<doing, blob, stamp, since>>
collector == <<gc, cutoff, unlisted, stale, chunk>>
blobVars == <<now, file, events, holder, collector>>

NoChunk == [left |-> {}, cutoff |-> 0]

BlobInit ==
    /\ now = 0
    /\ file = [h \in Hashes |-> Absent]
    /\ events = [h \in Hashes |-> 0]
    /\ doing = [c \in Holders |-> "idle"]
    /\ blob \in [Holders -> Hashes]
    /\ stamp = [c \in Holders |-> 0]
    /\ since = [c \in Holders |-> 0]
    /\ gc = [g \in Collectors |-> "idle"]
    /\ cutoff = [g \in Collectors |-> 0]
    /\ unlisted = [g \in Collectors |-> {}]
    /\ stale = [g \in Collectors |-> {}]
    /\ chunk = NoChunk

-----------------------------------------------------------------------------
(* Holders: BlobStore::put_blocking and touch_blocking. *)

(* BlobStore::refresh under the lock: the file's time becomes now if there is one. *)
Refreshed(h) == [file EXCEPT ![h] = IF @ = Absent THEN Absent ELSE now]

(* A put first refreshes; a blob that is already stored needs nothing else. *)
(* Otherwise its temp file is written now, and renamed into place later.   *)
StartPut(c, h) ==
    /\ doing[c] = "idle"
    /\ blob' = [blob EXCEPT ![c] = h]
    /\ file' = Refreshed(h)
    /\ IF file[h] # Absent
         THEN /\ doing' = [doing EXCEPT ![c] = "hold"]
              /\ since' = [since EXCEPT ![c] = now]
              /\ UNCHANGED stamp
         ELSE /\ doing' = [doing EXCEPT ![c] = "write"]
              /\ stamp' = [stamp EXCEPT ![c] = now]
              /\ UNCHANGED since
    /\ UNCHANGED <<now, events, collector>>

(* Rename under the lock: the blob gets the time its temp file was written. *)
RenameIntoPlace(c) ==
    /\ doing[c] = "write"
    /\ file' = [file EXCEPT ![blob[c]] = stamp[c]]
    /\ doing' = [doing EXCEPT ![c] = "hold"]
    /\ since' = [since EXCEPT ![c] = now]
    /\ UNCHANGED <<now, events, blob, stamp, collector>>

(* Writing or renaming fails: the temp file is removed. *)
PutFails(c) ==
    /\ doing[c] = "write"
    /\ doing' = [doing EXCEPT ![c] = "idle"]
    /\ UNCHANGED <<now, file, events, blob, stamp, since, collector>>

(* A touch tells whether the blob is still there; if not it must be put again. *)
Touch(c) ==
    /\ doing[c] = "hold"
    /\ file' = Refreshed(blob[c])
    /\ IF file[blob[c]] # Absent
         THEN since' = [since EXCEPT ![c] = now] /\ UNCHANGED doing
         ELSE doing' = [doing EXCEPT ![c] = "idle"] /\ UNCHANGED since
    /\ UNCHANGED <<now, events, blob, stamp, collector>>

(* Mutant: the whole grace period counts, its last moment too. *)
MayReferenceLate(c) == now <= since[c] + Grace

(* The rule on BlobStore: append the event within the grace period, or touch again first. *)
(* A put may give a file the time its writing began, so the period is that much shorter. *)
MayReference(c) == now < since[c] + Grace - MaxPutTime

(***************************************************************************)
(* The writer appends an event that mentions the held blob (between chunks *)
(* of a collection: they share its thread).  A draft's pin keeps the hold, *)
(* a sent message ends it.                                                 *)
(***************************************************************************)
AppendReference(c) ==
    /\ doing[c] = "hold" /\ MayReference(c) /\ chunk.left = {}
    /\ events[blob[c]] < MaxEvents
    /\ events' = [events EXCEPT ![blob[c]] = @ + 1]
    /\ \/ doing' = [doing EXCEPT ![c] = "idle"]
       \/ UNCHANGED doing
    /\ UNCHANGED <<now, file, blob, stamp, since, collector>>

(* The holder drops the blob without referencing it. *)
Discard(c) ==
    /\ doing[c] = "hold"
    /\ doing' = [doing EXCEPT ![c] = "idle"]
    /\ UNCHANGED <<now, file, events, blob, stamp, since, collector>>

(* Mutant: a reference is dropped that no event holds any more. *)
AlwaysMentioned(h) == TRUE

(* Whether some stored event mentions the blob: a row of blob_refs. *)
Mentioned(h) == events[h] > 0

(* A delete or a trim removes an event; its blob_refs row goes with it. *)
RemoveEvent(h) ==
    /\ Mentioned(h) /\ chunk.left = {}
    /\ events' = [events EXCEPT ![h] = @ - 1]
    /\ UNCHANGED <<now, file, holder, collector>>

-----------------------------------------------------------------------------
(* Collectors: Store::gc_blobs_with, and the writer's collect. *)

StartGc(g) ==
    /\ gc[g] = "idle"
    /\ gc' = [gc EXCEPT ![g] = "list"]
    /\ cutoff' = [cutoff EXCEPT ![g] = now - Grace]
    /\ unlisted' = [unlisted EXCEPT ![g] = Hashes]
    /\ stale' = [stale EXCEPT ![g] = {}]
    /\ UNCHANGED <<now, file, events, holder, chunk>>

(* list_blocking reads one entry: only a file last put before the cutoff is a candidate. *)
ListEntry(g, h) ==
    /\ gc[g] = "list" /\ h \in unlisted[g]
    /\ unlisted' = [unlisted EXCEPT ![g] = @ \ {h}]
    /\ stale' = [stale EXCEPT ![g] =
           IF file[h] # Absent /\ file[h] <= cutoff[g] THEN @ \union {h} ELSE @]
    /\ UNCHANGED <<now, file, events, holder, gc, cutoff, chunk>>

FinishListing(g) ==
    /\ gc[g] = "list" /\ unlisted[g] = {}
    /\ gc' = [gc EXCEPT ![g] = IF stale[g] = {} THEN "idle" ELSE "collect"]
    /\ UNCHANGED <<now, file, events, holder, cutoff, unlisted, stale, chunk>>

(* The writer takes the next chunk of candidates. *)
SendChunk(g) ==
    /\ gc[g] = "collect" /\ chunk.left = {}
    /\ IF stale[g] = {}
         THEN /\ gc' = [gc EXCEPT ![g] = "idle"]
              /\ UNCHANGED <<stale, chunk>>
         ELSE \E part \in SUBSET stale[g] :
              /\ part # {} /\ Cardinality(part) <= Chunk
              /\ Cardinality(part) < Chunk => part = stale[g]
              /\ chunk' = [left |-> part, cutoff |-> cutoff[g]]
              /\ stale' = [stale EXCEPT ![g] = @ \ part]
              /\ UNCHANGED gc
    /\ UNCHANGED <<now, file, events, holder, cutoff, unlisted>>

(* Mutants: the reference check, or the second look at the file's time, is left out. *)
CollectableUnchecked(h) == file[h] # Absent /\ file[h] <= chunk.cutoff
CollectableAsListed(h)  == events[h] = 0 /\ file[h] # Absent

(* What collect removes: no event mentions it, and (under the lock) it is still stale. *)
Collectable(h) == events[h] = 0 /\ file[h] # Absent /\ file[h] <= chunk.cutoff

(* collect() for one hash; deleting the file may fail, then the next run retries. *)
CollectBlob(h) ==
    /\ h \in chunk.left
    /\ chunk' = [chunk EXCEPT !.left = @ \ {h}]
    /\ \/ /\ Collectable(h)
          /\ file' = [file EXCEPT ![h] = Absent]
       \/ UNCHANGED file
    /\ UNCHANGED <<now, events, holder, gc, cutoff, unlisted, stale>>

-----------------------------------------------------------------------------
(* Time passes; no put takes longer than MaxPutTime. *)
Tick ==
    /\ now < MaxTime
    /\ now' = now + 1
    /\ \A c \in Holders : doing[c] = "write" => now' <= stamp[c] + MaxPutTime
    /\ UNCHANGED <<file, events, holder, collector>>

(* The daemon is killed and opens its store again: temp files are removed, a composer in *)
(* the app keeps its hold, the files and events stay. *)
BlobRestart ==
    /\ doing' = [c \in Holders |-> IF doing[c] = "write" THEN "idle" ELSE doing[c]]
    /\ gc' = [g \in Collectors |-> "idle"]
    /\ chunk' = NoChunk
    /\ UNCHANGED <<now, file, events, blob, stamp, since, cutoff, unlisted, stale>>

HolderStep(c) ==
    \/ \E h \in Hashes : StartPut(c, h)
    \/ RenameIntoPlace(c) \/ PutFails(c) \/ Touch(c) \/ AppendReference(c) \/ Discard(c)

CollectorStep(g) ==
    \/ StartGc(g) \/ FinishListing(g) \/ SendChunk(g)
    \/ \E h \in Hashes : ListEntry(g, h)

BlobNext ==
    \/ \E c \in Holders : HolderStep(c)
    \/ \E g \in Collectors : CollectorStep(g)
    \/ \E h \in Hashes : RemoveEvent(h) \/ CollectBlob(h)
    \/ Tick \/ BlobRestart

BlobSpec == BlobInit /\ [][BlobNext]_blobVars

-----------------------------------------------------------------------------
BlobTypeOK ==
    /\ now \in Nat
    /\ file \in [Hashes -> Int] /\ events \in [Hashes -> Nat]
    /\ doing \in [Holders -> {"idle", "write", "hold"}] /\ blob \in [Holders -> Hashes]
    /\ stamp \in [Holders -> Nat] /\ since \in [Holders -> Nat]
    /\ gc \in [Collectors -> {"idle", "list", "collect"}] /\ cutoff \in [Collectors -> Int]
    /\ unlisted \in [Collectors -> SUBSET Hashes] /\ stale \in [Collectors -> SUBSET Hashes]
    /\ chunk \in [left : SUBSET Hashes, cutoff : Int]
    /\ \A h \in Hashes : file[h] >= Absent

(***************************************************************************)
(* A stored event never mentions a blob that is gone: attachments and long *)
(* texts of messages can always be read back.                              *)
(***************************************************************************)
NoDanglingReference == \A h \in Hashes : events[h] > 0 => file[h] # Absent

(***************************************************************************)
(* A collection never takes a blob somebody put or touched within the      *)
(* grace period, even one listed as stale before it was put again.         *)
(***************************************************************************)
RecentlyHeld(h) == \E c \in Holders : doing[c] = "hold" /\ blob[c] = h /\ MayReference(c)
RecentKept == [][\A h \in Hashes : file[h] # Absent /\ file'[h] = Absent => ~RecentlyHeld(h)]_blobVars

(***************************************************************************)
(* The inductive invariant behind NoDanglingReference: a hold young enough *)
(* to be referenced has its file, with a time at most MaxPutTime older,    *)
(* and no collection works with a cutoff that reaches it.                  *)
(***************************************************************************)
HoldsAreFresh ==
    \A c \in Holders :
        /\ stamp[c] <= now /\ since[c] <= now
        /\ doing[c] = "write" => now <= stamp[c] + MaxPutTime
        /\ doing[c] = "hold" /\ MayReference(c) =>
               /\ file[blob[c]] # Absent
               /\ file[blob[c]] >= since[c] - MaxPutTime
CutoffsAreOld ==
    /\ \A g \in Collectors : gc[g] # "idle" => cutoff[g] <= now - Grace
    /\ chunk.left # {} => chunk.cutoff <= now - Grace
BlobInductive == HoldsAreFresh /\ CutoffsAreOld /\ NoDanglingReference
=============================================================================

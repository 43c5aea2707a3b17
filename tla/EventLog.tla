------------------------------ MODULE EventLog ------------------------------
(***************************************************************************)
(* What the event store promises, without its writer thread, its queue,    *)
(* its batches or its cache: a set of rows that changes one commit at a    *)
(* time.  A commit may remove rows and may add rows; it never changes one, *)
(* never gives out a sequence number twice, and leaves every stream        *)
(* numbered without gaps and in the order of the global numbers.           *)
(*                                                                         *)
(* The promises are those of src/crates/store/src/lib.rs (StoredEvent,     *)
(* Store::append, Store::delete_streams).  EventStore implements them.     *)
(***************************************************************************)
EXTENDS Integers

CONSTANT Streams        \* the names of streams

VARIABLES rows,         \* the rows a reader of the database sees
          issued        \* the largest sequence number ever given to a row

vars == <<rows, issued>>

Row == [seq : Nat, stream : Streams, stream_seq : Nat, call : Nat]

(***************************************************************************)
(* The rows of a stream carry consecutive positions, each once, and the    *)
(* global numbers grow with them.                                          *)
(***************************************************************************)
SeqsDistinct(R) == \A e, f \in R : e.seq = f.seq => e = f

PositionsOrdered(R) ==
    \A e, f \in R : e.stream = f.stream =>
        ((e.stream_seq <= f.stream_seq) <=> (e.seq <= f.seq))

PositionsContiguous(R) ==
    \A e, f \in R : e.stream = f.stream =>
        \A n \in e.stream_seq .. f.stream_seq :
            \E g \in R : g.stream = e.stream /\ g.stream_seq = n

WellFormed(R) ==
    /\ SeqsDistinct(R)
    /\ PositionsOrdered(R)
    /\ PositionsContiguous(R)

Init ==
    /\ rows = {}
    /\ issued = 0

Commit ==
    /\ issued' \in Nat
    /\ issued' >= issued
    /\ \A e \in rows' \ rows : e \in Row /\ e.seq > issued /\ e.seq <= issued'
    /\ WellFormed(rows')

Next == Commit

Spec == Init /\ [][Next]_vars
=============================================================================

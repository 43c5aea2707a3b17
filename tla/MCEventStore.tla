---------------------------- MODULE MCEventStore ----------------------------
(* A small event store for TLC: few callers and streams, every kind of call. *)
EXTENDS EventStore, TLC

CONSTANTS c1, c2, a, b

MCCallers == {c1, c2}
MCStreams == {a, b}

(* One event, several events of one and of two streams, with retention, a delete, a shutdown. *)
MCCalls == {
    [op |-> "append",   streams |-> <<a, b>>, keep |-> 0],
    [op |-> "append",   streams |-> <<a, a>>, keep |-> 1],
    [op |-> "delete",   streams |-> <<a>>,    keep |-> 0],
    [op |-> "shutdown", streams |-> <<>>,     keep |-> 0]}

(* The same without the append to two streams, for the run with three callers. *)
MCCallsLive == {call \in MCCalls : b \notin Elements(call.streams)}

MCSymmetry == Permutations(MCCallers)
=============================================================================

------------------------ MODULE MCConversationDriver ------------------------
(* Two messages, a driver, a client's call and two CLIs, one after the other. *)
EXTENDS ConversationDriver

CONSTANTS m1, m2, d1, p1, k1, k2

MCMsgs    == {m1, m2}
MCDrivers == {d1}
MCCallers == {p1}
MCClis    == {k1, k2}

(* No more than three of the daemon's tasks are in the middle of something. *)
MCThreeAtOnce == Cardinality({p \in Procs : proc[p].at # "off"}) <= 3
=============================================================================

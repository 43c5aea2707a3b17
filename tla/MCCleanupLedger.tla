-------------------------- MODULE MCCleanupLedger --------------------------
(* A background job and a conversation, and two tasks that use their ledger entries. *)
EXTENDS CleanupLedger, TLC

CONSTANTS brain, orch, t1, t2, pid, dir, file, tree

MCOwners == {brain, orch}
MCJobs == {brain}
MCTasks == {t1, t2}
MCArtifacts == {pid, dir, file, tree}
MCPids == {pid}
MCDirs == {dir}
MCWorktrees == {tree}
MCReused == {dir, tree}
MCSymmetry == Permutations(MCTasks)

(* Owners share nothing but the tasks: the job and the conversation are explored one by one. *)
MCUsed == {o \in Owners :
              \/ o \in asked \/ exists[o] \union held[o] \union logged[o] \union ever[o] # {}
              \/ \E t \in Tasks : pc[t] # "idle" /\ job[t].owner = o}
MCOneByOne ==
    /\ \A o, u \in MCUsed : o = u
    /\ MCUsed = {orch} => dir \notin logged[orch] \union exists[orch]
=============================================================================

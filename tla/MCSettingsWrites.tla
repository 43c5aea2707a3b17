-------------------------- MODULE MCSettingsWrites --------------------------
(* Two models of one agent, two open pages, one task that reads the agent's list. *)
EXTENDS SettingsWrites, TLC

CONSTANTS m1, m2, p1, c1, c2, l1

MCModels == {m1, m2}
MCProviders == {p1}
MCProviderOf == [m \in MCModels |-> p1]
MCClients == {c1, c2}
MCListers == {l1}
MCSymmetry == Permutations(MCModels) \union Permutations(MCClients)
=============================================================================

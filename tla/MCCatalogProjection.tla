------------------------ MODULE MCCatalogProjection ------------------------
(* One conversation and its project, and two writers that change them. *)
EXTENDS CatalogProjection, TLC

CONSTANTS c, p, w1, w2

MCConversations == {c}
MCProjects == {p}
MCWriters == {w1, w2}
MCSymmetry == Permutations(MCWriters)
=============================================================================

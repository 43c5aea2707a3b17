------------------------------ MODULE MCBlobGc ------------------------------
(* Two holders of two contents, two collections, and a clock that outlives the grace period. *)
EXTENDS BlobGc, TLC

CONSTANTS h1, h2, c1, c2, g1

MCHashes == {h1, h2}
MCHolders == {c1, c2}
MCCollectors == {g1}
MCSymmetry == Permutations(MCHashes) \union Permutations(MCHolders)
=============================================================================

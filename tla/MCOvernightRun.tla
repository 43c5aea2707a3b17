--------------------------- MODULE MCOvernightRun ---------------------------
(***************************************************************************)
(* OvernightRun on a plan whose phases do not build on each other.         *)
(***************************************************************************)
EXTENDS OvernightRun

NoDeps == [p \in Phases |-> {}]
=============================================================================

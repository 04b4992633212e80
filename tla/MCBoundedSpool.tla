--------------------------- MODULE MCBoundedSpool ---------------------------
(***************************************************************************)
(* A small instance of BoundedSpool for TLC.                               *)
(***************************************************************************)
EXTENDS BoundedSpool, TLC

\* Spools are interchangeable.
Symmetry == Permutations(Spool)
=============================================================================

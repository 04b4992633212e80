--------------------------- MODULE MCLodResidency ---------------------------
(***************************************************************************)
(* A small instance of LodResidency for TLC.                               *)
(***************************************************************************)
EXTENDS LodResidency, TLC

\* A chunk that takes more memory decoded than it uploads.
MCChunks == {[points |-> 1, host |-> 2, upload |-> 1]}

\* Leases are interchangeable.
Symmetry == Permutations(Lease)
=============================================================================

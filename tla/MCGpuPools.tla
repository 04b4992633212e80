------------------------------ MODULE MCGpuPools ------------------------------
(***************************************************************************)
(* A small instance of GpuPools for TLC.                                   *)
(***************************************************************************)
EXTENDS GpuPools, TLC

\* Batches are interchangeable.
Symmetry == Permutations(Batch)
=============================================================================

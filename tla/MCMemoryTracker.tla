--------------------------- MODULE MCMemoryTracker ---------------------------
(***************************************************************************)
(* Small instances of MemoryTracker for TLC.                               *)
(***************************************************************************)
EXTENDS MemoryTracker, TLC

\* Nothing, one byte, a large part of the budget, and more than the budget.
MCRequest == {0, 1, 3, 5}

\* Clients are interchangeable.
Symmetry == Permutations(Client)
=============================================================================

------------------------------ MODULE ByteSum ------------------------------
(***************************************************************************)
(* The total of the bytes a family of holders owns, as a set of cells      *)
(* <<holder, i>>: holder h that owns f[h] bytes owns the cells             *)
(* <<h, 1>> .. <<h, f[h]>>.  The total is the number of cells, so facts    *)
(* about it follow from facts about finite sets, for any set of holders.   *)
(* The tracker of spatialrust-records keeps this total in one counter.     *)
(*                                                                         *)
(* Total is for holders whose bytes have a common bound; Sum needs none,   *)
(* so the set of holders may shrink and grow.                              *)
(***************************************************************************)
EXTENDS Integers, FiniteSets

\* The cells owned under f, when no holder owns more than top bytes.
Cells(f, Holders, top) == {c \in Holders \X (1..top) : c[2] <= f[c[1]]}

Total(f, Holders, top) == Cardinality(Cells(f, Holders, top))

\* The cells owned under f.
AllCells(f, Holders) == UNION {{h} \X (1..f[h]) : h \in Holders}

Sum(f, Holders) == Cardinality(AllCells(f, Holders))
=============================================================================

--------------------------- MODULE ByteSumProofs ---------------------------
(***************************************************************************)
(* Facts about Total and Sum for every finite set of holders: what a       *)
(* change of one holder, or of the set of holders, does to them.           *)
(***************************************************************************)
EXTENDS ByteSum, FiniteSetTheorems, TLAPS

\* The cells of one holder that owns n bytes.
Stack(h, n) == {h} \X (1..n)

\* The cells of everyone else.
Rest(f, Holders, top, h) == {c \in Cells(f, Holders, top) : c[1] # h}

\* A holder of n bytes owns n cells.
LEMMA StackSize ==
  ASSUME NEW h, NEW n \in Nat
  PROVE  IsFiniteSet(Stack(h, n)) /\ Cardinality(Stack(h, n)) = n
<1>1. IsFiniteSet({h}) /\ Cardinality({h}) = 1
  BY FS_Singleton
<1>2. IsFiniteSet(1..n) /\ Cardinality(1..n) = n
  BY FS_Interval
<1>3. Cardinality(Stack(h, n)) = Cardinality({h}) * Cardinality(1..n)
  BY <1>1, <1>2, FS_Product DEF Stack
<1>4. IsFiniteSet(Stack(h, n))
  BY <1>1, <1>2, FS_Product DEF Stack
<1> QED
  BY <1>1, <1>2, <1>3, <1>4

\* Finitely many holders own finitely many cells.
LEMMA CellsFinite ==
  ASSUME NEW Holders, IsFiniteSet(Holders), NEW top \in Nat, NEW f
  PROVE  IsFiniteSet(Cells(f, Holders, top)) /\ Total(f, Holders, top) \in Nat
<1>1. IsFiniteSet(1..top)
  BY FS_Interval
<1>2. IsFiniteSet(Holders \X (1..top))
  BY <1>1, FS_Product
<1>3. Cells(f, Holders, top) \in SUBSET (Holders \X (1..top))
  BY DEF Cells
<1>4. IsFiniteSet(Cells(f, Holders, top))
  BY <1>2, <1>3, FS_Subset
<1> QED
  BY <1>4, FS_CardinalityType DEF Total

\* The total is one holder's bytes and everyone else's cells.
LEMMA TotalSplits ==
  ASSUME NEW Holders, IsFiniteSet(Holders), NEW top \in Nat,
         NEW f \in [Holders -> 0..top], NEW h \in Holders
  PROVE  /\ IsFiniteSet(Rest(f, Holders, top, h))
         /\ Cardinality(Rest(f, Holders, top, h)) \in Nat
         /\ Total(f, Holders, top) = Cardinality(Rest(f, Holders, top, h)) + f[h]
<1> DEFINE R == Rest(f, Holders, top, h)
           S == Stack(h, f[h])
<1>1. f[h] \in 0..top
  OBVIOUS
<1>2. IsFiniteSet(S) /\ Cardinality(S) = f[h]
  BY <1>1, StackSize
<1>3. IsFiniteSet(R) /\ Cardinality(R) \in Nat
  <2>1. R \in SUBSET Cells(f, Holders, top)
    BY DEF Rest
  <2> QED
    BY <2>1, CellsFinite, FS_Subset, FS_CardinalityType
<1>4. Cells(f, Holders, top) = R \cup S
  <2>1. ASSUME NEW c \in Cells(f, Holders, top) PROVE c \in R \cup S
    <3>1. CASE c[1] = h
      BY <3>1, <2>1, <1>1 DEF Cells, Stack
    <3>2. CASE c[1] # h
      BY <3>2, <2>1 DEF Rest
    <3> QED
      BY <3>1, <3>2
  <2>2. ASSUME NEW c \in S PROVE c \in Cells(f, Holders, top)
    BY <2>2, <1>1 DEF Cells, Stack
  <2>3. R \subseteq Cells(f, Holders, top)
    BY DEF Rest
  <2> QED
    BY <2>1, <2>2, <2>3
<1>5. R \cap S = {}
  BY DEF Rest, Stack
<1>6. Cardinality(R \cup S) = Cardinality(R) + Cardinality(S)
  <2>1. Cardinality(R \cap S) = 0
    BY <1>5, FS_EmptySet
  <2>2. Cardinality(R \cup S) = Cardinality(R) + Cardinality(S) - Cardinality(R \cap S)
    BY <1>2, <1>3, FS_Union
  <2> QED
    BY <1>1, <1>2, <1>3, <2>1, <2>2
<1> QED
  BY <1>2, <1>3, <1>4, <1>6 DEF Total

\* When only one holder's bytes change, the total changes by the difference.
LEMMA TotalUpdate ==
  ASSUME NEW Holders, IsFiniteSet(Holders), NEW top \in Nat,
         NEW f \in [Holders -> 0..top], NEW g \in [Holders -> 0..top],
         NEW h \in Holders, \A k \in Holders : k # h => g[k] = f[k]
  PROVE  Total(g, Holders, top) = (Total(f, Holders, top) - f[h]) + g[h]
<1>1. Rest(g, Holders, top, h) = Rest(f, Holders, top, h)
  BY DEF Rest, Cells
<1>2. Total(f, Holders, top) = Cardinality(Rest(f, Holders, top, h)) + f[h]
  BY TotalSplits
<1>3. Total(g, Holders, top) = Cardinality(Rest(g, Holders, top, h)) + g[h]
  BY TotalSplits
<1>4. Cardinality(Rest(f, Holders, top, h)) \in Nat /\ f[h] \in Nat /\ g[h] \in Nat
  BY TotalSplits
<1> QED
  BY <1>1, <1>2, <1>3, <1>4

\* No holder owns more than the total.
LEMMA TotalCoversEach ==
  ASSUME NEW Holders, IsFiniteSet(Holders), NEW top \in Nat,
         NEW f \in [Holders -> 0..top], NEW h \in Holders
  PROVE  f[h] <= Total(f, Holders, top)
<1>1. Total(f, Holders, top) = Cardinality(Rest(f, Holders, top, h)) + f[h]
  BY TotalSplits
<1>2. Cardinality(Rest(f, Holders, top, h)) \in Nat /\ f[h] \in Nat
  BY TotalSplits
<1> QED
  BY <1>1, <1>2

\* Nobody owns anything: the total is zero.
LEMMA TotalOfNothing ==
  ASSUME NEW Holders, NEW top \in Nat
  PROVE  Total([h \in Holders |-> 0], Holders, top) = 0
<1>1. Cells([h \in Holders |-> 0], Holders, top) = {}
  BY DEF Cells
<1> QED
  BY <1>1, FS_EmptySet DEF Total

-----------------------------------------------------------------------------
(* Sum *)

LEMMA SumIsNat ==
  ASSUME NEW H, IsFiniteSet(H), NEW f, \A h \in H : f[h] \in Nat
  PROVE  IsFiniteSet(AllCells(f, H)) /\ Sum(f, H) \in Nat
<1> DEFINE stack == [h \in H |-> {h} \X (1..f[h])]
           stacks == {{h} \X (1..f[h]) : h \in H}
<1>1. stack \in Surjection(H, stacks)
  BY DEF Surjection
<1>2. IsFiniteSet(stacks)
  <2> HIDE DEF stack, stacks
  <2> QED
    BY <1>1, FS_Surjection
<1>3. \A s \in stacks : IsFiniteSet(s)
  <2>1. ASSUME NEW h \in H PROVE IsFiniteSet({h} \X (1..f[h]))
    BY StackSize DEF Stack
  <2> QED
    BY <2>1
<1>4. IsFiniteSet(UNION stacks)
  <2> HIDE DEF stacks
  <2> QED
    BY <1>2, <1>3, FS_UNION
<1> QED
  BY <1>4, FS_CardinalityType DEF AllCells, Sum

\* Two disjoint sets of holders own together what each owns.
LEMMA SumOfUnion ==
  ASSUME NEW H, NEW K, IsFiniteSet(H), IsFiniteSet(K), H \cap K = {},
         NEW f, \A h \in H \cup K : f[h] \in Nat
  PROVE  Sum(f, H \cup K) = Sum(f, H) + Sum(f, K)
<1>1. AllCells(f, H \cup K) = AllCells(f, H) \cup AllCells(f, K)
  BY DEF AllCells
<1>2. AllCells(f, H) \cap AllCells(f, K) = {}
  BY DEF AllCells
<1>3. /\ IsFiniteSet(AllCells(f, H)) /\ Sum(f, H) \in Nat
      /\ IsFiniteSet(AllCells(f, K)) /\ Sum(f, K) \in Nat
  BY SumIsNat
<1>4. Cardinality(AllCells(f, H) \cap AllCells(f, K)) = 0
  BY <1>2, FS_EmptySet
<1>5. Cardinality(AllCells(f, H) \cup AllCells(f, K))
        = Sum(f, H) + Sum(f, K) - Cardinality(AllCells(f, H) \cap AllCells(f, K))
  BY <1>3, FS_Union DEF Sum
<1>6. Sum(f, H \cup K) = Sum(f, H) + Sum(f, K) - 0
  BY <1>1, <1>4, <1>5 DEF Sum
<1> QED
  BY <1>3, <1>6

LEMMA SumOfNone ==
  ASSUME NEW f
  PROVE  Sum(f, {}) = 0
BY FS_EmptySet DEF Sum, AllCells

LEMMA SumOfOne ==
  ASSUME NEW f, NEW h, f[h] \in Nat
  PROVE  Sum(f, {h}) = f[h]
<1>1. AllCells(f, {h}) = Stack(h, f[h])
  BY DEF AllCells, Stack
<1> QED
  BY <1>1, StackSize DEF Sum

\* Only what the holders own counts.
LEMMA SumOfSame ==
  ASSUME NEW H, NEW f, NEW g, \A h \in H : f[h] = g[h]
  PROVE  Sum(f, H) = Sum(g, H)
<1>1. AllCells(f, H) = AllCells(g, H)
  BY DEF AllCells
<1> QED
  BY <1>1 DEF Sum

LEMMA SumAdds ==
  ASSUME NEW H, IsFiniteSet(H), NEW h, h \notin H,
         NEW f, f[h] \in Nat, \A k \in H : f[k] \in Nat
  PROVE  Sum(f, H \cup {h}) = Sum(f, H) + f[h]
<1>1. IsFiniteSet({h})
  BY FS_Singleton
<1>2. Sum(f, H \cup {h}) = Sum(f, H) + Sum(f, {h})
  BY <1>1, SumOfUnion
<1> QED
  BY <1>2, SumOfOne

\* Holders that go take what they own.
LEMMA SumWithout ==
  ASSUME NEW H, IsFiniteSet(H), NEW K \in SUBSET H, NEW f, \A h \in H : f[h] \in Nat
  PROVE  /\ Sum(f, K) \in Nat /\ Sum(f, H \ K) \in Nat
         /\ Sum(f, H) = Sum(f, H \ K) + Sum(f, K)
<1>1. IsFiniteSet(K) /\ IsFiniteSet(H \ K)
  BY FS_Subset, FS_Difference
<1>2. (H \ K) \cup K = H /\ (H \ K) \cap K = {}
  OBVIOUS
<1>3. Sum(f, (H \ K) \cup K) = Sum(f, H \ K) + Sum(f, K)
  BY <1>1, <1>2, SumOfUnion
<1> QED
  BY <1>1, <1>2, <1>3, SumIsNat

LEMMA SumRemoves ==
  ASSUME NEW H, IsFiniteSet(H), NEW h \in H, NEW f, \A k \in H : f[k] \in Nat
  PROVE  Sum(f, H) = Sum(f, H \ {h}) + f[h] /\ Sum(f, H \ {h}) \in Nat
<1>1. {h} \in SUBSET H
  OBVIOUS
<1>2. Sum(f, {h}) = f[h]
  BY SumOfOne
<1> QED
  BY <1>1, <1>2, SumWithout

\* When one holder's bytes change, the sum changes by the difference.
LEMMA SumUpdate ==
  ASSUME NEW H, IsFiniteSet(H), NEW h \in H, NEW f, NEW g,
         \A k \in H : f[k] \in Nat /\ g[k] \in Nat,
         \A k \in H : k # h => g[k] = f[k]
  PROVE  /\ Sum(g, H) = (Sum(f, H) - f[h]) + g[h]
         /\ Sum(f, H) \in Nat /\ f[h] <= Sum(f, H)
<1>1. Sum(f, H) = Sum(f, H \ {h}) + f[h] /\ Sum(f, H \ {h}) \in Nat
  BY SumRemoves
<1>2. Sum(g, H) = Sum(g, H \ {h}) + g[h]
  BY SumRemoves
<1>3. Sum(g, H \ {h}) = Sum(f, H \ {h})
  BY SumOfSame
<1> QED
  BY <1>1, <1>2, <1>3

\* So many holders of at most so much.
LEMMA SumIsBounded ==
  ASSUME NEW H, IsFiniteSet(H), NEW top \in Nat, NEW f, \A h \in H : f[h] \in 0..top
  PROVE  Sum(f, H) <= Cardinality(H) * top
<1>1. IsFiniteSet(1..top) /\ Cardinality(1..top) = top
  BY FS_Interval
<1>2. IsFiniteSet(H \X (1..top)) /\ Cardinality(H \X (1..top)) = Cardinality(H) * top
  BY <1>1, FS_Product
<1>3. AllCells(f, H) \in SUBSET (H \X (1..top))
  BY DEF AllCells
<1> QED
  BY <1>2, <1>3, FS_Subset DEF Sum

\* Renaming the holders one to one does not change the sum.
LEMMA SumOfRenamed ==
  ASSUME NEW H, IsFiniteSet(H), NEW K, NEW name \in Bijection(H, K),
         NEW f, NEW g, \A h \in H : f[h] \in Nat /\ g[name[h]] = f[h]
  PROVE  Sum(g, K) = Sum(f, H)
<1> DEFINE cell == [c \in AllCells(f, H) |-> <<name[c[1]], c[2]>>]
<1>1. /\ \A h \in H : name[h] \in K
      /\ \A h, k \in H : name[h] = name[k] => h = k
      /\ \A k \in K : \E h \in H : name[h] = k
  BY DEF Bijection, Injection, Surjection, IsInjective
<1>2. \A c \in AllCells(f, H) : c[1] \in H /\ c[2] \in 1..f[c[1]] /\ c = <<c[1], c[2]>>
  BY DEF AllCells
<1>3. \A c \in AllCells(f, H) : cell[c] \in AllCells(g, K)
  BY <1>1, <1>2 DEF AllCells
<1>4. \A c, d \in AllCells(f, H) : cell[c] = cell[d] => c = d
  BY <1>1, <1>2
<1>5. \A d \in AllCells(g, K) : \E c \in AllCells(f, H) : cell[c] = d
  <2> SUFFICES ASSUME NEW d \in AllCells(g, K) PROVE \E c \in AllCells(f, H) : cell[c] = d
    OBVIOUS
  <2>1. d[1] \in K /\ d[2] \in 1..g[d[1]] /\ d = <<d[1], d[2]>>
    BY DEF AllCells
  <2>2. PICK h \in H : name[h] = d[1]
    BY <1>1, <2>1
  <2>3. <<h, d[2]>> \in AllCells(f, H)
    BY <2>1, <2>2 DEF AllCells
  <2>4. cell[<<h, d[2]>>] = d
    BY <2>1, <2>2, <2>3
  <2> QED
    BY <2>3, <2>4
<1>6. cell \in Bijection(AllCells(f, H), AllCells(g, K))
  BY <1>3, <1>4, <1>5 DEF Bijection, Injection, Surjection, IsInjective
<1>7. IsFiniteSet(AllCells(f, H))
  BY SumIsNat
<1> QED
  <2> HIDE DEF cell
  <2>1. ExistsBijection(AllCells(f, H), AllCells(g, K))
    BY <1>6 DEF ExistsBijection
  <2> QED
    BY <1>7, <2>1, FS_Bijection DEF Sum
=============================================================================

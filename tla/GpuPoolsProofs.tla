---------------------------- MODULE GpuPoolsProofs ----------------------------
(***************************************************************************)
(* Proofs about GpuPools for any users, sizes and budgets: the counters of *)
(* a pool are what it retains and its limits hold, no buffer is lost or    *)
(* handed out twice or ever returns to a pool that let it go, and commands *)
(* read what their own batch uploaded.                                     *)
(***************************************************************************)
EXTENDS GpuPools, ByteSumProofs

Item == [buffer : Nat, size : Keys, tag : Nat]

PoolType ==
    [free : [Keys -> Seq(Nat)], budget : Nat, bytes : Nat, resources : Nat,
     allocations : Nat, reuses : Nat, discards : Nat]

BatchType ==
    [pool : Pools \cup {"none"}, held : Seq(Item), open : BOOLEAN, recycling : BOOLEAN]

-----------------------------------------------------------------------------
(* One pool *)

\* No buffer is retained twice.
EachOnce(c) ==
    \A k, l \in Keys : \A i \in DOMAIN c.free[k], j \in DOMAIN c.free[l] :
        c.free[k][i] = c.free[l][j] => k = l /\ i = j

Sound(c) ==
    /\ c \in PoolType
    /\ EachOnce(c)
    /\ IsFiniteSet(Retained(c)) /\ c.resources = Cardinality(Retained(c))
    /\ c.bytes = RetainedBytes(c) /\ c.bytes <= c.budget
    /\ \A k \in Keys : Len(c.free[k]) <= MaxPerKey

LEMMA KeysFinite == IsFiniteSet(Keys) /\ Keys \subseteq Nat
<1> DEFINE size == [s \in Sizes |-> Bytes(s)]
<1>1. size \in Surjection(Sizes, Keys)
  BY DEF Surjection, Keys
<1>2. Keys \subseteq Nat
  BY PoolAssumption DEF Keys, Bytes
<1> QED BY <1>1, <1>2, FS_Surjection, PoolAssumption

LEMMA TimesMore ==
  ASSUME NEW a \in Nat, NEW b \in Nat
  PROVE  a * b \in Nat /\ a * (b + 1) = a * b + a
OBVIOUS

LEMMA FunctionIsSeq ==
  ASSUME NEW n \in Nat, NEW f \in [1..n -> Nat]
  PROVE  f \in Seq(Nat) /\ Len(f) = n
OBVIOUS

LEMMA RetainedIs ==
  ASSUME NEW c, NEW x
  PROVE  x \in Retained(c) <=> \E k \in Keys : \E i \in DOMAIN c.free[k] : c.free[k][i] = x
BY DEF Retained

\* Only the free lists decide what is retained.
LEMMA SameFree ==
  ASSUME NEW c, NEW d, c.free = d.free
  PROVE  Retained(c) = Retained(d) /\ RetainedBytes(c) = RetainedBytes(d)
BY DEF Retained, RetainedBytes

\* What a pool retains in one list that grows or shrinks at its end.
LEMMA BytesChange ==
  ASSUME NEW c \in PoolType, NEW d \in PoolType, NEW key \in Keys,
         \A k \in Keys : k # key => d.free[k] = c.free[k]
  PROVE  /\ RetainedBytes(c) \in Nat
         /\ key * Len(c.free[key]) <= RetainedBytes(c)
         /\ RetainedBytes(d) =
              (RetainedBytes(c) - key * Len(c.free[key])) + key * Len(d.free[key])
<1> DEFINE f == [k \in Keys |-> k * Len(c.free[k])]
           g == [k \in Keys |-> k * Len(d.free[k])]
<1>1. \A k \in Keys : f[k] \in Nat /\ g[k] \in Nat
  <2> SUFFICES ASSUME NEW k \in Keys PROVE f[k] \in Nat /\ g[k] \in Nat
    OBVIOUS
  <2>1. k \in Nat /\ Len(c.free[k]) \in Nat /\ Len(d.free[k]) \in Nat
    <3>1. c.free \in [Keys -> Seq(Nat)] /\ d.free \in [Keys -> Seq(Nat)]
      BY DEF PoolType
    <3>2. c.free[k] \in Seq(Nat) /\ d.free[k] \in Seq(Nat)
      BY <3>1
    <3> QED BY <3>2, KeysFinite
  <2> QED BY <2>1
<1>2. \A k \in Keys : k # key => g[k] = f[k]
  OBVIOUS
<1>3. f[key] = key * Len(c.free[key]) /\ g[key] = key * Len(d.free[key])
  OBVIOUS
<1> HIDE DEF f, g
<1>4. /\ Sum(g, Keys) = (Sum(f, Keys) - f[key]) + g[key]
      /\ Sum(f, Keys) \in Nat /\ f[key] <= Sum(f, Keys)
  BY <1>1, <1>2, KeysFinite, SumUpdate
<1>5. RetainedBytes(c) = Sum(f, Keys) /\ RetainedBytes(d) = Sum(g, Keys)
  BY DEF RetainedBytes, f, g
<1> QED BY <1>3, <1>4, <1>5

LEMMA EmptySound ==
  ASSUME NEW c \in PoolType,
         c.free = [k \in Keys |-> <<>>], c.resources = 0, c.bytes = 0
  PROVE  Sound(c) /\ Retained(c) = {}
<1>1. \A k \in Keys : c.free[k] = <<>> /\ DOMAIN c.free[k] = {} /\ Len(c.free[k]) = 0
  OBVIOUS
<1>2. Retained(c) = {}
  BY <1>1 DEF Retained
<1>3. RetainedBytes(c) = 0
  <2> DEFINE f == [k \in Keys |-> k * Len(c.free[k])]
  <2>1. \A k \in Keys : f[k] = 0
    <3> SUFFICES ASSUME NEW k \in Keys PROVE k * Len(c.free[k]) = 0
      OBVIOUS
    <3> QED BY <1>1, KeysFinite
  <2>2. AllCells(f, Keys) = {}
    BY <2>1 DEF AllCells
  <2> QED BY <2>2, FS_EmptySet DEF RetainedBytes, Sum
<1>4. c.bytes <= c.budget /\ \A k \in Keys : Len(c.free[k]) <= MaxPerKey
  BY <1>1, PoolAssumption DEF PoolType
<1> QED BY <1>1, <1>2, <1>3, <1>4, FS_EmptySet DEF Sound, EachOnce

\* Take removes the buffer it returns, and nothing else changes hands.
LEMMA TakeSound ==
  ASSUME NEW c, Sound(c), NEW key \in Keys, c.free[key] # <<>>
  PROVE  LET d == Take(c, key)
             x == c.free[key][Len(c.free[key])]
         IN  /\ Sound(d)
             /\ x \in Retained(c) /\ x \in Nat
             /\ Retained(d) = Retained(c) \ {x}
             /\ c.resources = d.resources + 1
             /\ d.reuses = c.reuses + 1
             /\ d.allocations = c.allocations /\ d.discards = c.discards
<1> DEFINE s == c.free[key]
           n == Len(s)
           x == s[n]
           d == Take(c, key)
<1>1. /\ c \in PoolType /\ s \in Seq(Nat) /\ n \in Nat /\ n > 0
      /\ x \in Nat /\ n \in DOMAIN s
  BY DEF Sound, PoolType
<1>2. /\ d.free = [c.free EXCEPT ![key] = SubSeq(s, 1, n - 1)]
      /\ d.bytes = c.bytes - key /\ d.resources = c.resources - 1 /\ d.budget = c.budget
      /\ d.reuses = c.reuses + 1 /\ d.allocations = c.allocations /\ d.discards = c.discards
  BY <1>1 DEF Take, PoolType
<1>3. /\ SubSeq(s, 1, n - 1) \in Seq(Nat) /\ Len(SubSeq(s, 1, n - 1)) = n - 1
      /\ \A i \in 1..(n - 1) : SubSeq(s, 1, n - 1)[i] = s[i]
      /\ DOMAIN SubSeq(s, 1, n - 1) = 1..(n - 1)
  BY <1>1
<1>4. /\ d.free[key] = SubSeq(s, 1, n - 1)
      /\ \A k \in Keys : k # key => d.free[k] = c.free[k]
  BY <1>1, <1>2 DEF PoolType
<1>5. x \in Retained(c)
  BY <1>1, RetainedIs
<1>6. IsFiniteSet(Retained(c)) /\ c.resources = Cardinality(Retained(c)) /\ c.resources \in Nat
  BY DEF Sound, PoolType
<1>7. c.resources > 0
  BY <1>5, <1>6, FS_EmptySet
<1>8. key \in Nat /\ key * (n - 1) \in Nat /\ key * n = key * (n - 1) + key
  <2>1. n - 1 \in Nat /\ (n - 1) + 1 = n /\ key \in Nat
    BY <1>1, KeysFinite
  <2> QED BY <2>1, TimesMore
<1>9. /\ key * n <= RetainedBytes(c) /\ RetainedBytes(c) \in Nat
      /\ c.bytes = RetainedBytes(c) /\ c.bytes <= c.budget /\ c.budget \in Nat
  BY <1>1, BytesChange DEF Sound, PoolType
<1>10. d.bytes \in Nat /\ d.bytes <= d.budget
  BY <1>2, <1>8, <1>9
<1>11. d \in PoolType
  <2>1. d.free \in [Keys -> Seq(Nat)]
    BY <1>1, <1>2, <1>3 DEF PoolType
  <2>2. c.resources - 1 \in Nat /\ c.reuses + 1 \in Nat /\ c.bytes - key \in Nat
    <3>1. c.reuses \in Nat /\ c.bytes \in Nat
      BY <1>1 DEF PoolType
    <3> HIDE DEF d
    <3> QED BY <3>1, <1>2, <1>6, <1>7, <1>10
  <2> QED BY <2>1, <2>2, <1>1, <1>2 DEF Take, PoolType
<1> HIDE DEF d
<1>12. RetainedBytes(d) = d.bytes
  <2>1. RetainedBytes(d) =
          (RetainedBytes(c) - key * Len(c.free[key])) + key * Len(d.free[key])
    BY <1>1, <1>11, <1>4, BytesChange
  <2>2. Len(d.free[key]) = n - 1
    BY <1>3, <1>4
  <2> QED BY <2>1, <2>2, <1>2, <1>8, <1>9
<1> HIDE DEF s, n, x
<1>13. \A k \in Keys : \A i \in DOMAIN d.free[k] :
           i \in DOMAIN c.free[k] /\ d.free[k][i] = c.free[k][i] /\ (k = key => i < n)
  <2> SUFFICES ASSUME NEW k \in Keys, NEW i \in DOMAIN d.free[k]
               PROVE  /\ i \in DOMAIN c.free[k] /\ d.free[k][i] = c.free[k][i]
                      /\ k = key => i < n
    OBVIOUS
  <2>1. CASE k = key
    <3>1. i \in 1..(n - 1) /\ d.free[k] = SubSeq(s, 1, n - 1)
      BY <2>1, <1>3, <1>4
    <3>2. i \in 1..n /\ i < n
      BY <3>1, <1>1
    <3>3. DOMAIN s = 1..n /\ c.free[k] = s
      BY <2>1, <1>1 DEF s, n
    <3> QED BY <3>1, <3>2, <3>3, <1>3
  <2>2. CASE k # key
    BY <2>2, <1>4
  <2> QED BY <2>1, <2>2
<1>14. \A k \in Keys : \A i \in DOMAIN c.free[k] :
           ~(k = key /\ i = n) => i \in DOMAIN d.free[k] /\ d.free[k][i] = c.free[k][i]
  <2> SUFFICES ASSUME NEW k \in Keys, NEW i \in DOMAIN c.free[k], ~(k = key /\ i = n)
               PROVE  i \in DOMAIN d.free[k] /\ d.free[k][i] = c.free[k][i]
    OBVIOUS
  <2>1. CASE k = key
    <3>1. DOMAIN s = 1..n /\ c.free[k] = s
      BY <2>1, <1>1 DEF s, n
    <3>2. i \in 1..(n - 1)
      BY <3>1, <2>1, <1>1
    <3> QED BY <2>1, <3>1, <3>2, <1>3, <1>4
  <2>2. CASE k # key
    BY <2>2, <1>4
  <2> QED BY <2>1, <2>2
<1>15. EachOnce(c)
  BY DEF Sound
<1>16. EachOnce(d)
  BY <1>13, <1>15 DEF EachOnce
<1>0. x = c.free[key][n] /\ n \in DOMAIN c.free[key]
  BY <1>1 DEF x, s
<1>17. Retained(d) = Retained(c) \ {x}
  <2>1. ASSUME NEW y \in Retained(d) PROVE y \in Retained(c) \ {x}
    <3>1. PICK k \in Keys : \E i \in DOMAIN d.free[k] : d.free[k][i] = y
      BY <2>1, RetainedIs
    <3>2. PICK i \in DOMAIN d.free[k] : d.free[k][i] = y
      BY <3>1
    <3>3. i \in DOMAIN c.free[k] /\ c.free[k][i] = y /\ (k = key => i < n)
      BY <1>13, <3>2
    <3>4. y # x
      BY <3>3, <1>15, <1>0, <1>1 DEF EachOnce
    <3> QED BY <3>3, <3>4, RetainedIs
  <2>2. ASSUME NEW y \in Retained(c), y # x PROVE y \in Retained(d)
    <3>1. PICK k \in Keys : \E i \in DOMAIN c.free[k] : c.free[k][i] = y
      BY <2>2, RetainedIs
    <3>2. PICK i \in DOMAIN c.free[k] : c.free[k][i] = y
      BY <3>1
    <3>3. ~(k = key /\ i = n)
      BY <3>2, <2>2, <1>0
    <3> QED BY <3>2, <3>3, <1>14, RetainedIs
  <2> QED BY <2>1, <2>2
<1>18. IsFiniteSet(Retained(d)) /\ Cardinality(Retained(d)) = c.resources - 1
  BY <1>5, <1>6, <1>17, FS_RemoveElement
<1>19. \A k \in Keys : Len(d.free[k]) <= MaxPerKey
  <2> SUFFICES ASSUME NEW k \in Keys PROVE Len(d.free[k]) <= MaxPerKey
    OBVIOUS
  <2>1. Len(c.free[k]) <= MaxPerKey
    BY DEF Sound
  <2>2. CASE k = key
    <3>1. Len(c.free[key]) = n /\ Len(d.free[key]) = n - 1
      BY <1>3, <1>4 DEF n, s
    <3> QED BY <2>1, <2>2, <3>1, <1>1, PoolAssumption
  <2>3. CASE k # key
    BY <2>1, <2>3, <1>4
  <2> QED BY <2>2, <2>3
<1>20. Sound(d)
  BY <1>2, <1>10, <1>11, <1>12, <1>16, <1>18, <1>19 DEF Sound
<1>21. c.resources = d.resources + 1
  BY <1>2, <1>6
<1> QED BY <1>1, <1>2, <1>5, <1>21, <1>17, <1>20 DEF d, s, n, x

\* A discarded buffer is counted, and nothing else happens.
LEMMA DiscardSound ==
  ASSUME NEW c, Sound(c)
  PROVE  LET d == Discard(c, 1)
         IN  /\ Sound(d) /\ Retained(d) = Retained(c)
             /\ d.resources + d.discards = c.resources + c.discards + 1
             /\ d.allocations = c.allocations /\ d.reuses = c.reuses
<1> DEFINE d == Discard(c, 1)
<1>1. c \in PoolType /\ c.resources \in Nat /\ c.discards \in Nat /\ c.discards + 1 \in Nat
  BY DEF Sound, PoolType
<1>2. /\ d.free = c.free /\ d.bytes = c.bytes /\ d.resources = c.resources
      /\ d.budget = c.budget /\ d.discards = c.discards + 1
      /\ d.allocations = c.allocations /\ d.reuses = c.reuses
  BY <1>1 DEF Discard, PoolType
<1>3. d \in PoolType
  BY <1>1 DEF Discard, PoolType
<1> HIDE DEF d
<1>4. Retained(d) = Retained(c) /\ RetainedBytes(d) = RetainedBytes(c)
  BY <1>2, SameFree
<1>5. Sound(d)
  BY <1>2, <1>3, <1>4 DEF Sound, EachOnce
<1> QED BY <1>1, <1>2, <1>4, <1>5 DEF d

\* Put retains the buffer or counts it as discarded.
LEMMA PutSound ==
  ASSUME NEW c, Sound(c), NEW key \in Keys, NEW x \in Nat, x \notin Retained(c)
  PROVE  LET d == Put(c, key, x)
         IN  /\ Sound(d)
             /\ Retained(d) \subseteq Retained(c) \cup {x}
             /\ d.resources + d.discards = c.resources + c.discards + 1
             /\ d.allocations = c.allocations /\ d.reuses = c.reuses
<1> DEFINE d == Put(c, key, x)
           s == c.free[key]
           n == Len(s)
<1>1. /\ c \in PoolType /\ s \in Seq(Nat) /\ n \in Nat /\ DOMAIN s = 1..n
      /\ c.free \in [Keys -> Seq(Nat)]
      /\ c.resources \in Nat /\ c.discards \in Nat /\ c.bytes \in Nat /\ c.budget \in Nat
      /\ c.resources = Cardinality(Retained(c)) /\ IsFiniteSet(Retained(c))
      /\ c.bytes = RetainedBytes(c) /\ c.bytes <= c.budget /\ key \in Nat
  BY KeysFinite DEF Sound, PoolType
<1>2. CASE ~Fits(c, key)
  BY <1>2, DiscardSound DEF Put
<1>3. CASE Fits(c, key)
  <2>1. key <= c.budget - c.bytes /\ n < MaxPerKey
    BY <1>3 DEF Fits
  <2>2. /\ d.free = [c.free EXCEPT ![key] = Append(s, x)]
        /\ d.bytes = c.bytes + key /\ d.resources = c.resources + 1
        /\ d.budget = c.budget /\ d.discards = c.discards
        /\ d.allocations = c.allocations /\ d.reuses = c.reuses
    BY <1>1, <1>3 DEF Put, PoolType
  <2>3. d \in PoolType
    <3>1. c.bytes + key \in Nat /\ c.resources + 1 \in Nat
      BY <1>1
    <3>2. [c.free EXCEPT ![key] = Append(s, x)] \in [Keys -> Seq(Nat)]
      BY <1>1
    <3>3. d = [c EXCEPT !.free = [c.free EXCEPT ![key] = Append(s, x)],
                        !.bytes = c.bytes + key, !.resources = c.resources + 1]
      BY <1>1, <1>3 DEF Put, PoolType
    <3> HIDE DEF d, s
    <3> QED BY <3>1, <3>2, <3>3, <1>1 DEF PoolType
  <2> HIDE DEF d
  <2>4. /\ d.free[key] = Append(s, x)
        /\ \A k \in Keys : k # key => d.free[k] = c.free[k]
    BY <1>1, <2>2
  <2>5. /\ Len(Append(s, x)) = n + 1 /\ DOMAIN Append(s, x) = 1..(n + 1)
        /\ Append(s, x)[n + 1] = x
        /\ \A i \in 1..n : Append(s, x)[i] = s[i]
    BY <1>1
  <2>6. RetainedBytes(d) = d.bytes
    <3>1. /\ RetainedBytes(d) =
                (RetainedBytes(c) - key * Len(c.free[key])) + key * Len(d.free[key])
          /\ RetainedBytes(c) \in Nat
      BY <1>1, <2>3, <2>4, BytesChange
    <3>2. Len(d.free[key]) = n + 1 /\ Len(c.free[key]) = n
      BY <2>4, <2>5
    <3>3. key * n \in Nat /\ key * (n + 1) = key * n + key
      BY <1>1, TimesMore
    <3> QED BY <3>1, <3>2, <3>3, <1>1, <2>2
  <2> HIDE DEF s, n
  <2>7. \A k \in Keys : \A i \in DOMAIN d.free[k] :
            IF k = key /\ i = n + 1 THEN d.free[k][i] = x
            ELSE i \in DOMAIN c.free[k] /\ d.free[k][i] = c.free[k][i]
    <3> SUFFICES ASSUME NEW k \in Keys, NEW i \in DOMAIN d.free[k]
                 PROVE  IF k = key /\ i = n + 1 THEN d.free[k][i] = x
                        ELSE i \in DOMAIN c.free[k] /\ d.free[k][i] = c.free[k][i]
      OBVIOUS
    <3>1. CASE k # key
      BY <3>1, <2>4
    <3>2. CASE k = key /\ i = n + 1
      BY <3>2, <2>4, <2>5
    <3>3. CASE k = key /\ i # n + 1
      <4>1. i \in 1..(n + 1) /\ c.free[k] = s
        BY <3>3, <2>4, <2>5 DEF s
      <4>2. i \in 1..n
        <5>1. n \in Nat
          BY <1>1
        <5> QED BY <4>1, <3>3, <5>1
      <4> QED BY <3>3, <4>1, <4>2, <1>1, <2>4, <2>5
    <3> QED BY <3>1, <3>2, <3>3
  <2>8. \A k \in Keys : \A i \in DOMAIN c.free[k] :
            i \in DOMAIN d.free[k] /\ d.free[k][i] = c.free[k][i]
    <3> SUFFICES ASSUME NEW k \in Keys, NEW i \in DOMAIN c.free[k]
                 PROVE  i \in DOMAIN d.free[k] /\ d.free[k][i] = c.free[k][i]
      OBVIOUS
    <3>1. CASE k # key
      BY <3>1, <2>4
    <3>2. CASE k = key
      <4>1. i \in 1..n /\ c.free[k] = s
        BY <3>2, <1>1 DEF s
      <4>2. i \in 1..(n + 1)
        BY <4>1, <1>1
      <4> QED BY <3>2, <4>1, <4>2, <2>4, <2>5
    <3> QED BY <3>1, <3>2
  <2>9. Retained(d) = Retained(c) \cup {x}
    <3>1. ASSUME NEW y \in Retained(d) PROVE y \in Retained(c) \cup {x}
      <4>1. PICK k \in Keys : \E i \in DOMAIN d.free[k] : d.free[k][i] = y
        BY <3>1, RetainedIs
      <4>2. PICK i \in DOMAIN d.free[k] : d.free[k][i] = y
        BY <4>1
      <4> QED BY <4>2, <2>7, RetainedIs
    <3>2. ASSUME NEW y \in Retained(c) PROVE y \in Retained(d)
      <4>1. PICK k \in Keys : \E i \in DOMAIN c.free[k] : c.free[k][i] = y
        BY <3>2, RetainedIs
      <4>2. PICK i \in DOMAIN c.free[k] : c.free[k][i] = y
        BY <4>1
      <4> QED BY <4>2, <2>8, RetainedIs
    <3>3. x \in Retained(d)
      <4>1. n + 1 \in DOMAIN d.free[key] /\ d.free[key][n + 1] = x
        BY <1>1, <2>4, <2>5
      <4> QED BY <4>1, RetainedIs
    <3> QED BY <3>1, <3>2, <3>3
  <2>10. IsFiniteSet(Retained(d)) /\ Cardinality(Retained(d)) = c.resources + 1
    BY <1>1, <2>9, FS_AddElement
  <2>11. EachOnce(d)
    <3>1. EachOnce(c)
      BY DEF Sound
    <3>2. \A k \in Keys : \A i \in DOMAIN c.free[k] : c.free[k][i] # x
      BY RetainedIs
    <3> QED BY <3>1, <3>2, <2>7 DEF EachOnce
  <2>12. \A k \in Keys : Len(d.free[k]) <= MaxPerKey
    <3> SUFFICES ASSUME NEW k \in Keys PROVE Len(d.free[k]) <= MaxPerKey
      OBVIOUS
    <3>1. CASE k = key
      BY <3>1, <2>1, <2>4, <2>5, <1>1, PoolAssumption
    <3>2. CASE k # key
      BY <3>2, <2>4 DEF Sound
    <3> QED BY <3>1, <3>2
  <2>13. d.bytes <= d.budget
    BY <1>1, <2>1, <2>2
  <2>14. Sound(d)
    BY <2>2, <2>3, <2>6, <2>10, <2>11, <2>12, <2>13 DEF Sound
  <2>15. d.resources + d.discards = c.resources + c.discards + 1
    <3>1. c.resources \in Nat /\ c.discards \in Nat
      BY <1>1
    <3>2. d.resources = c.resources + 1 /\ d.discards = c.discards
      BY <2>2
    <3> QED BY <3>1, <3>2
  <2> QED BY <2>2, <2>9, <2>14, <2>15 DEF d
<1> QED BY <1>2, <1>3

\* recycle retains a buffer only under its own size.
LEMMA RecycledSound ==
  ASSUME NEW c, Sound(c), NEW length, NEW size \in Keys, NEW compatible \in BOOLEAN,
         NEW x \in Nat, x \notin Retained(c)
  PROVE  LET d == Recycled(c, length, size, compatible, x)
         IN  /\ Sound(d)
             /\ Retained(d) \subseteq Retained(c) \cup {x}
             /\ length # size => x \notin Retained(d)
             /\ d.resources + d.discards = c.resources + c.discards + 1
             /\ d.allocations = c.allocations /\ d.reuses = c.reuses
<1>1. CASE length # size \/ ~compatible
  BY <1>1, DiscardSound DEF Recycled
<1>2. CASE length = size /\ compatible
  BY <1>2, PutSound DEF Recycled
<1> QED BY <1>1, <1>2

LEMMA ClearedSound ==
  ASSUME NEW c \in PoolType
  PROVE  LET d == Cleared(c)
         IN  /\ Sound(d) /\ Retained(d) = {}
             /\ d.resources + d.discards = c.resources + c.discards
             /\ d.allocations = c.allocations /\ d.reuses = c.reuses
<1> DEFINE d == Cleared(c)
<1>1. /\ d.free = [k \in Keys |-> <<>>] /\ d.resources = 0 /\ d.bytes = 0
      /\ d.discards = c.discards + c.resources
      /\ d.allocations = c.allocations /\ d.reuses = c.reuses
  BY DEF Cleared, Discard, PoolType
<1>2. c.discards \in Nat /\ c.resources \in Nat /\ c.discards + c.resources \in Nat
  BY DEF PoolType
<1>3. [k \in Keys |-> <<>>] \in [Keys -> Seq(Nat)]
  OBVIOUS
<1>4. d \in PoolType
  BY <1>2, <1>3 DEF Cleared, Discard, PoolType
<1> HIDE DEF d
<1>5. Sound(d) /\ Retained(d) = {}
  BY <1>1, <1>4, EmptySound
<1> QED BY <1>1, <1>2, <1>5 DEF d

\* A pool in which only the budget and the count of allocations change.
LEMMA SoundUnder ==
  ASSUME NEW c, NEW d \in PoolType, Sound(c),
         d.free = c.free, d.bytes = c.bytes, d.resources = c.resources, c.bytes <= d.budget
  PROVE  Sound(d) /\ Retained(d) = Retained(c)
<1>1. Retained(d) = Retained(c) /\ RetainedBytes(d) = RetainedBytes(c)
  BY SameFree
<1> QED BY <1>1 DEF Sound, EachOnce

-----------------------------------------------------------------------------
(* The items a batch holds *)

\* No buffer is held twice.
HeldOnce(items) ==
    \A i, j \in DOMAIN items : items[i].buffer = items[j].buffer => i = j

LEMMA BuffersOfAppend ==
  ASSUME NEW items \in Seq(Item), NEW item \in Item
  PROVE  /\ Buffers(Append(items, item)) = Buffers(items) \cup {item.buffer}
         /\ HeldOnce(items) /\ item.buffer \notin Buffers(items) =>
                HeldOnce(Append(items, item))
<1> DEFINE n == Len(items)
           more == Append(items, item)
<1>1. /\ n \in Nat /\ DOMAIN items = 1..n /\ DOMAIN more = 1..(n + 1)
      /\ more[n + 1] = item /\ \A i \in 1..n : more[i] = items[i]
      /\ \A i \in 1..(n + 1) : i \in 1..n \/ i = n + 1
      /\ n + 1 \in 1..(n + 1) /\ 1..n \subseteq 1..(n + 1)
  OBVIOUS
<1> HIDE DEF n, more
<1>2. Buffers(more) = Buffers(items) \cup {item.buffer}
  <2>1. ASSUME NEW y \in Buffers(more) PROVE y \in Buffers(items) \cup {item.buffer}
    BY <2>1, <1>1 DEF Buffers
  <2>2. ASSUME NEW y \in Buffers(items) PROVE y \in Buffers(more)
    BY <2>2, <1>1 DEF Buffers
  <2>3. item.buffer \in Buffers(more)
    BY <1>1 DEF Buffers
  <2> QED BY <2>1, <2>2, <2>3
<1>3. ASSUME HeldOnce(items), item.buffer \notin Buffers(items) PROVE HeldOnce(more)
  <2>1. \A i \in 1..n : items[i].buffer # item.buffer
    BY <1>1, <1>3 DEF Buffers
  <2> QED BY <1>1, <1>3, <2>1 DEF HeldOnce
<1> QED BY <1>2, <1>3 DEF more

LEMMA BuffersOfTail ==
  ASSUME NEW items \in Seq(Item), items # <<>>, HeldOnce(items)
  PROVE  /\ Head(items) \in Item /\ Tail(items) \in Seq(Item)
         /\ Buffers(Tail(items)) = Buffers(items) \ {Head(items).buffer}
         /\ Head(items).buffer \in Buffers(items)
         /\ HeldOnce(Tail(items))
         /\ \A i \in DOMAIN Tail(items) : \E j \in DOMAIN items : Tail(items)[i] = items[j]
<1> DEFINE n == Len(items)
           rest == Tail(items)
<1>1. /\ n \in Nat /\ n > 0 /\ DOMAIN items = 1..n /\ DOMAIN rest = 1..(n - 1)
      /\ Head(items) = items[1] /\ Head(items) \in Item /\ rest \in Seq(Item)
      /\ \A i \in 1..(n - 1) : rest[i] = items[i + 1]
  OBVIOUS
<1>2. /\ 1 \in 1..n
      /\ \A i \in 1..(n - 1) : i + 1 \in 1..n /\ i + 1 # 1
      /\ \A i \in 1..n : i # 1 => i - 1 \in 1..(n - 1) /\ (i - 1) + 1 = i
      /\ \A i, j \in 1..(n - 1) : i + 1 = j + 1 => i = j
  BY <1>1
<1> HIDE DEF n, rest
<1>3. Buffers(rest) = Buffers(items) \ {Head(items).buffer}
  <2>1. ASSUME NEW y \in Buffers(rest) PROVE y \in Buffers(items) \ {Head(items).buffer}
    <3>1. PICK i \in 1..(n - 1) : y = items[i + 1].buffer
      BY <2>1, <1>1 DEF Buffers
    <3>2. y # items[1].buffer
      BY <3>1, <1>1, <1>2 DEF HeldOnce
    <3> QED BY <3>1, <3>2, <1>1, <1>2 DEF Buffers
  <2>2. ASSUME NEW y \in Buffers(items), y # Head(items).buffer PROVE y \in Buffers(rest)
    <3>1. PICK i \in 1..n : y = items[i].buffer
      BY <2>2, <1>1 DEF Buffers
    <3>2. i - 1 \in 1..(n - 1) /\ rest[i - 1] = items[i]
      <4>1. i # 1
        BY <3>1, <2>2, <1>1
      <4>2. i - 1 \in 1..(n - 1) /\ (i - 1) + 1 = i
        BY <4>1, <1>2
      <4>3. rest[i - 1] = items[(i - 1) + 1]
        BY <4>2, <1>1
      <4> QED BY <4>2, <4>3
    <3> QED BY <3>1, <3>2, <1>1 DEF Buffers
  <2> QED BY <2>1, <2>2
<1>4. Head(items).buffer \in Buffers(items)
  BY <1>1, <1>2 DEF Buffers
<1>5. HeldOnce(rest)
  <2> SUFFICES ASSUME NEW i \in 1..(n - 1), NEW j \in 1..(n - 1), rest[i].buffer = rest[j].buffer
               PROVE  i = j
    BY <1>1 DEF HeldOnce
  <2>1. rest[i] = items[i + 1] /\ rest[j] = items[j + 1] /\ i + 1 \in 1..n /\ j + 1 \in 1..n
    BY <1>1, <1>2
  <2>2. i + 1 = j + 1
    BY <2>1, <1>1 DEF HeldOnce
  <2> QED BY <2>2, <1>2
<1>6. \A i \in DOMAIN rest : \E j \in DOMAIN items : rest[i] = items[j]
  BY <1>1, <1>2
<1> QED BY <1>1, <1>3, <1>4, <1>5, <1>6 DEF rest

\* A batch holds as many buffers as items.
LEMMA BuffersCount ==
  ASSUME NEW items \in Seq(Item), HeldOnce(items)
  PROVE  IsFiniteSet(Buffers(items)) /\ Cardinality(Buffers(items)) = Len(items)
<1> DEFINE n == Len(items)
           name == [i \in 1..n |-> items[i].buffer]
<1>1. n \in Nat /\ DOMAIN items = 1..n
  OBVIOUS
<1> HIDE DEF n
<1>2. \A i \in 1..n : name[i] = items[i].buffer /\ name[i] \in Buffers(items)
  BY <1>1 DEF Buffers
<1>3. name \in [1..n -> Buffers(items)]
  BY <1>2
<1>4. name \in Surjection(1..n, Buffers(items))
  BY <1>1, <1>2, <1>3 DEF Surjection, Buffers
<1>5. name \in Injection(1..n, Buffers(items))
  BY <1>1, <1>2, <1>3 DEF Injection, IsInjective, HeldOnce
<1>6. IsFiniteSet(1..n) /\ Cardinality(1..n) = n
  BY <1>1, FS_Interval
<1> QED BY <1>4, <1>5, <1>6, FS_Surjection DEF n

-----------------------------------------------------------------------------
(* The invariant *)

Typed ==
    /\ pool \in [Pools -> PoolType]
    /\ batch \in [Batch -> BatchType]
    /\ orphans \in SUBSET BatchType
    /\ content \in Seq(Nat) /\ staged \in Seq(Nat) /\ Len(staged) = Len(content)
    /\ acquires \in Nat /\ misread \in BOOLEAN /\ misfiled \in BOOLEAN
    /\ lost \in [Pools -> Nat] /\ foreign \in [Pools -> Nat]

\* Every pool's counters are what it retains.
PoolsSound == \A p \in Pools : Sound(pool[p])

\* A batch that has a pool, an encoder or something to recycle holds buffers.
WellFormed(e) ==
    /\ e.pool = "none" <=> e.held = <<>>
    /\ e.open \/ e.recycling => e.held # <<>>
    /\ HeldOnce(e.held)

BatchesFormed == \A b \in Batch : WellFormed(batch[b])

\* Whatever is retained or used has been created.
AllCreated ==
    /\ \A p \in Pools : Retained(pool[p]) \subseteq 1..Len(content)
    /\ \A b \in Batch : Buffers(batch[b].held) \subseteq 1..Len(content)
    /\ \A o \in orphans : Buffers(o.held) \subseteq 1..Len(content)

Apart ==
    /\ Retained(pool["scratch"]) \cap Retained(pool["upload"]) = {}
    /\ \A p \in Pools :
          /\ \A b \in Batch : Retained(pool[p]) \cap Buffers(batch[b].held) = {}
          /\ \A o \in orphans : Retained(pool[p]) \cap Buffers(o.held) = {}
    /\ \A b, c \in Batch : b # c => Buffers(batch[b].held) \cap Buffers(batch[c].held) = {}
    /\ \A o \in orphans, b \in Batch : Buffers(o.held) \cap Buffers(batch[b].held) = {}
    /\ \A o, q \in orphans : o # q => Buffers(o.held) \cap Buffers(q.held) = {}

\* What every buffer holds when the staged writes have been applied.
LandedAll == [x \in 1..Len(content) |-> Landed(x)]

\* The uploads of a batch are what its commands would read now.
Reads(e, landed) ==
    e.pool = "upload" => \A i \in DOMAIN e.held : e.held[i].tag = landed[e.held[i].buffer]

Fresh ==
    /\ \A b \in Batch : Reads(batch[b], LandedAll)
    /\ \A o \in orphans : Reads(o, LandedAll)

\* Every buffer a pool created or was given is retained, in use, discarded or lost.
Conserved(p) ==
    pool[p].allocations + foreign[p] =
        pool[p].resources + Cardinality(Held(p)) + pool[p].discards + lost[p]

AcquiresCounted ==
    acquires = pool["scratch"].allocations + pool["scratch"].reuses
               + pool["upload"].allocations + pool["upload"].reuses

IInv ==
    /\ Typed
    /\ PoolsSound
    /\ BatchesFormed
    /\ AllCreated /\ Apart
    /\ Fresh /\ ~misread /\ ~misfiled
    /\ \A p \in Pools : Conserved(p)
    /\ AcquiresCounted

LEMMA InvImplies == IInv => RetentionExact /\ BuffersHaveOneUser
BY DEF IInv, Typed, PoolsSound, Sound, Apart, Conserved, AcquiresCounted, RetentionExact,
       BuffersHaveOneUser

LEMMA HeldIs ==
  ASSUME NEW p, NEW x
  PROVE  x \in Held(p) <=> \E b \in Batch : batch[b].pool = p /\ x \in Buffers(batch[b].held)
BY DEF Held

LEMMA HeldFinite ==
  ASSUME Typed, AllCreated, NEW p \in Pools
  PROVE  IsFiniteSet(Held(p)) /\ Cardinality(Held(p)) \in Nat
<1>1. Held(p) \subseteq 1..Len(content)
  BY HeldIs DEF AllCreated
<1>2. Len(content) \in Nat
  BY DEF Typed
<1>3. IsFiniteSet(1..Len(content))
  BY <1>2, FS_Interval
<1>4. IsFiniteSet(Held(p))
  BY <1>1, <1>3, FS_Subset
<1> QED BY <1>4, FS_CardinalityType

LEMMA InitHolds ==
  ASSUME Init
  PROVE  IInv
<1>1. PICK budget \in Budgets : pool = [p \in Pools |-> EmptyPool(budget)]
  BY DEF Init
<1>2. budget \in Nat
  BY PoolAssumption
<1>3. [k \in Keys |-> <<>>] \in [Keys -> Seq(Nat)]
  OBVIOUS
<1>4. \A p \in Pools :
        /\ pool[p] \in PoolType /\ pool[p].free = [k \in Keys |-> <<>>]
        /\ pool[p].resources = 0 /\ pool[p].bytes = 0 /\ pool[p].allocations = 0
        /\ pool[p].discards = 0 /\ pool[p].reuses = 0
  BY <1>1, <1>2, <1>3 DEF EmptyPool, PoolType
<1>5. \A p \in Pools : Sound(pool[p]) /\ Retained(pool[p]) = {}
  BY <1>4, EmptySound
<1>6. \A b \in Batch : batch[b] = Idle
  BY DEF Init
<1>7. Buffers(<<>>) = {} /\ HeldOnce(<<>>)
  BY DEF Buffers, HeldOnce
<1>8. Idle \in BatchType /\ Idle.held = <<>> /\ Idle.pool = "none" /\ ~Idle.open /\ ~Idle.recycling
  BY DEF Idle, BatchType
<1>9. orphans = {} /\ content = <<>> /\ staged = <<>> /\ acquires = 0 /\ ~misread
      /\ misread \in BOOLEAN /\ lost = [p \in Pools |-> 0] /\ batch = [b \in Batch |-> Idle]
      /\ foreign = [p \in Pools |-> 0] /\ ~misfiled /\ misfiled \in BOOLEAN
  BY DEF Init
<1>10. Typed
  <2>1. pool \in [Pools -> PoolType]
    BY <1>1, <1>4
  <2> QED BY <2>1, <1>8, <1>9 DEF Typed
<1>11. \A p \in Pools : Held(p) = {}
  BY <1>6, <1>7, <1>8, HeldIs
<1>12. \A p \in Pools : Conserved(p)
  <2> SUFFICES ASSUME NEW p \in Pools PROVE Conserved(p)
    OBVIOUS
  <2>1. Cardinality(Held(p)) = 0 /\ lost[p] = 0 /\ foreign[p] = 0
    BY <1>9, <1>11, FS_EmptySet
  <2> QED BY <1>4, <2>1 DEF Conserved
<1>13. AcquiresCounted
  BY <1>4, <1>9 DEF AcquiresCounted, Pools
<1>14. AllCreated /\ Apart /\ Fresh
  BY <1>5, <1>6, <1>7, <1>8, <1>9 DEF AllCreated, Apart, Fresh, Reads, Pools
<1>15. BatchesFormed
  BY <1>6, <1>7, <1>8 DEF BatchesFormed, WellFormed
<1> QED BY <1>5, <1>9, <1>10, <1>12, <1>13, <1>14, <1>15 DEF IInv, PoolsSound

-----------------------------------------------------------------------------
(* Steps that give no buffer to anybody *)

\* Users that only lose buffers stay apart.
LEMMA ApartShrinks ==
  ASSUME AllCreated, Apart,
         Len(content) \in Nat, Len(content') = Len(content),
         \A p \in Pools : Retained(pool'[p]) \subseteq Retained(pool[p]),
         \A b \in Batch : Buffers(batch'[b].held) \subseteq Buffers(batch[b].held),
         orphans' \subseteq orphans
  PROVE  AllCreated' /\ Apart'
<1>1. AllCreated'
  BY DEF AllCreated
<1>2. Apart'
  <2>1. (Retained(pool["scratch"]) \cap Retained(pool["upload"]) = {})'
    BY DEF Apart, Pools
  <2>2. \A p \in Pools : \A b \in Batch :
           Retained(pool'[p]) \cap Buffers(batch'[b].held) = {}
    BY DEF Apart
  <2>3. \A p \in Pools : \A o \in orphans' : Retained(pool'[p]) \cap Buffers(o.held) = {}
    BY DEF Apart
  <2>4. \A b, c \in Batch :
           b # c => Buffers(batch'[b].held) \cap Buffers(batch'[c].held) = {}
    BY DEF Apart
  <2>5. \A o \in orphans', b \in Batch : Buffers(o.held) \cap Buffers(batch'[b].held) = {}
    BY DEF Apart
  <2>6. \A o, q \in orphans' : o # q => Buffers(o.held) \cap Buffers(q.held) = {}
    BY DEF Apart
  <2> QED BY <2>1, <2>2, <2>3, <2>4, <2>5, <2>6 DEF Apart
<1> QED BY <1>1, <1>2

\* Who holds what decides what a pool has in use.
LEMMA HeldStays ==
  ASSUME NEW p, \A b \in Batch : batch'[b].held = batch[b].held /\ batch'[b].pool = batch[b].pool
  PROVE  Held(p)' = Held(p)
BY DEF Held

\* A pool that is emptied.
LEMMA ClearsPool ==
  ASSUME IInv, NEW p \in Pools, NEW c,
         pool' = [pool EXCEPT ![p] = c],
         Sound(c), Retained(c) \subseteq Retained(pool[p]),
         c.resources + c.discards = pool[p].resources + pool[p].discards,
         c.allocations = pool[p].allocations, c.reuses = pool[p].reuses,
         UNCHANGED <<batch, orphans, staged, content, acquires, foreign, misread, misfiled, lost>>
  PROVE  IInv'
<1>1. /\ c \in PoolType /\ pool' \in [Pools -> PoolType] /\ pool \in [Pools -> PoolType]
      /\ pool'[p] = c /\ \A q \in Pools : q # p => pool'[q] = pool[q]
  BY DEF IInv, Typed, Sound
<1>2. Typed'
  BY <1>1 DEF IInv, Typed
<1>3. PoolsSound'
  BY <1>1 DEF IInv, PoolsSound
<1>4. AllCreated' /\ Apart'
  <2>1. Len(content) \in Nat
    BY DEF IInv, Typed
  <2>2. \A q \in Pools : Retained(pool'[q]) \subseteq Retained(pool[q])
    BY <1>1
  <2> QED BY <2>1, <2>2, ApartShrinks DEF IInv
<1>5. Fresh'
  BY DEF IInv, Fresh, LandedAll, Landed
<1>6. \A q \in Pools : Conserved(q)'
  <2> SUFFICES ASSUME NEW q \in Pools PROVE Conserved(q)'
    OBVIOUS
  <2>1. Held(q)' = Held(q)
    BY HeldStays
  <2>2. Conserved(q) /\ Cardinality(Held(q)) \in Nat /\ lost[q] \in Nat /\ foreign[q] \in Nat
    BY HeldFinite DEF IInv, Typed
  <2>3. CASE q # p
    BY <2>1, <2>2, <2>3, <1>1 DEF Conserved
  <2>4. CASE q = p
    <3>1. /\ pool[p].resources \in Nat /\ pool[p].discards \in Nat
          /\ c.resources \in Nat /\ c.discards \in Nat /\ c.allocations \in Nat
      BY <1>1 DEF PoolType
    <3> QED BY <3>1, <2>1, <2>2, <2>4, <1>1 DEF Conserved
  <2> QED BY <2>3, <2>4
<1>7. AcquiresCounted'
  BY <1>1 DEF IInv, AcquiresCounted, Pools
<1>8. BatchesFormed'
  BY DEF IInv, BatchesFormed
<1> QED BY <1>2, <1>3, <1>4, <1>5, <1>6, <1>7, <1>8 DEF IInv

LEMMA ClearPoolHolds ==
  ASSUME IInv, NEW p \in Pools, ClearPool(p)
  PROVE  IInv'
<1>1. pool[p] \in PoolType
  BY DEF IInv, Typed
<1>2. pool' = [pool EXCEPT ![p] = Cleared(pool[p])]
  BY DEF ClearPool
<1> QED BY <1>1, <1>2, ClearedSound, ClearsPool DEF ClearPool

LEMMA SetBudgetHolds ==
  ASSUME IInv, NEW p \in Pools, NEW budget \in Budgets, SetBudget(p, budget)
  PROVE  IInv'
<1> DEFINE c == [pool[p] EXCEPT !.budget = budget]
           d == IF c.bytes > budget THEN Cleared(c) ELSE c
<1>1. pool[p] \in PoolType /\ Sound(pool[p]) /\ budget \in Nat
  BY PoolAssumption DEF IInv, Typed, PoolsSound
<1>2. /\ c \in PoolType /\ c.free = pool[p].free /\ c.bytes = pool[p].bytes
      /\ c.resources = pool[p].resources /\ c.discards = pool[p].discards
      /\ c.allocations = pool[p].allocations /\ c.reuses = pool[p].reuses
      /\ c.budget = budget /\ c.bytes \in Nat
  BY <1>1 DEF PoolType
<1>3. pool' = [pool EXCEPT ![p] = d]
  BY DEF SetBudget
<1> HIDE DEF c
<1>4. /\ Sound(d) /\ Retained(d) \subseteq Retained(pool[p])
      /\ d.resources + d.discards = pool[p].resources + pool[p].discards
      /\ d.allocations = pool[p].allocations /\ d.reuses = pool[p].reuses
  <2>1. CASE c.bytes > budget
    BY <2>1, <1>2, ClearedSound
  <2>2. CASE ~(c.bytes > budget)
    <3>1. pool[p].bytes <= c.budget
      BY <2>2, <1>1, <1>2
    <3>2. Sound(c) /\ Retained(c) = Retained(pool[p])
      BY <3>1, <1>1, <1>2, SoundUnder
    <3> QED BY <2>2, <3>2, <1>2
  <2> QED BY <2>1, <2>2
<1> HIDE DEF d
<1> QED BY <1>3, <1>4, ClearsPool DEF SetBudget

LEMMA ReadsSame ==
  ASSUME NEW e, NEW f, NEW g, Reads(e, f), \A x \in Buffers(e.held) : g[x] = f[x]
  PROVE  Reads(e, g)
BY DEF Reads, Buffers

\* Nobody acquires or returns anything.
LEMMA SameUsers ==
  ASSUME IInv,
         UNCHANGED <<pool, acquires, foreign, misfiled, lost>>,
         batch' \in [Batch -> BatchType],
         \A b \in Batch :
            /\ batch'[b].held = batch[b].held /\ batch'[b].pool = batch[b].pool
            /\ batch'[b].open \/ batch'[b].recycling => batch[b].open \/ batch[b].recycling
                                                        \/ batch[b].pool # "none",
         orphans' \subseteq orphans,
         content' \in Seq(Nat), staged' \in Seq(Nat),
         Len(content') = Len(content), Len(staged') = Len(content),
         Fresh', misread' \in BOOLEAN, ~misread'
  PROVE  IInv'
<1>1. Typed'
  BY DEF IInv, Typed
<1>2. PoolsSound' /\ AcquiresCounted'
  BY DEF IInv, PoolsSound, AcquiresCounted
<1>3. BatchesFormed'
  BY DEF IInv, BatchesFormed, WellFormed
<1>4. AllCreated' /\ Apart'
  <2>1. Len(content) \in Nat
    BY DEF IInv, Typed
  <2> QED BY <2>1, ApartShrinks DEF IInv
<1>5. \A p \in Pools : Conserved(p)'
  <2> SUFFICES ASSUME NEW p \in Pools PROVE Conserved(p)'
    OBVIOUS
  <2>1. Held(p)' = Held(p)
    BY HeldStays
  <2> QED BY <2>1 DEF IInv, Conserved
<1> QED BY <1>1, <1>2, <1>3, <1>4, <1>5 DEF IInv

LEMMA BatchFields ==
  ASSUME Typed, NEW b \in Batch
  PROVE  /\ batch[b] \in BatchType /\ batch[b].pool \in Pools \cup {"none"}
         /\ batch[b].held \in Seq(Item)
         /\ batch[b].open \in BOOLEAN /\ batch[b].recycling \in BOOLEAN
BY DEF Typed, BatchType

\* Of an encoder only its flags change.
LEMMA FlagsHold ==
  ASSUME IInv, NEW b \in Batch, batch[b].pool # "none",
         NEW open \in BOOLEAN, NEW recycling \in BOOLEAN,
         batch' = [batch EXCEPT ![b].open = open, ![b].recycling = recycling],
         UNCHANGED <<pool, orphans, staged, content, acquires, foreign, misread, misfiled, lost>>
  PROVE  IInv'
<1>1. Typed
  BY DEF IInv
<1> DEFINE e == [batch[b] EXCEPT !.open = open, !.recycling = recycling]
<1>2. batch' \in [Batch -> BatchType]
  <2>1. batch[b] \in BatchType
    BY <1>1 DEF Typed
  <2>2. e \in BatchType
    BY <2>1 DEF BatchType
  <2>3. batch' = [batch EXCEPT ![b] = e]
    BY <1>1 DEF Typed
  <2> HIDE DEF e
  <2> QED BY <1>1, <2>2, <2>3 DEF Typed
<1>3. \A c \in Batch :
         /\ batch'[c].held = batch[c].held /\ batch'[c].pool = batch[c].pool
         /\ c # b => batch'[c] = batch[c]
  <2>1. batch'[b] = [batch[b] EXCEPT !.open = open, !.recycling = recycling]
    BY <1>1 DEF Typed
  <2>2. \A c \in Batch : c # b => batch'[c] = batch[c]
    BY <1>1 DEF Typed
  <2>3. batch'[b].held = batch[b].held /\ batch'[b].pool = batch[b].pool
    BY <1>1, <2>1 DEF Typed, BatchType
  <2> QED BY <2>2, <2>3
<1>4. Fresh'
  <2>1. LandedAll' = LandedAll
    BY DEF LandedAll, Landed
  <2>2. ASSUME NEW c \in Batch PROVE Reads(batch'[c], LandedAll)
    <3>1. Reads(batch[c], LandedAll)
      BY DEF IInv, Fresh
    <3> QED BY <3>1, <1>3 DEF Reads
  <2> QED BY <2>1, <2>2 DEF IInv, Fresh
<1> QED BY <1>1, <1>2, <1>3, <1>4, SameUsers DEF IInv, Typed

LEMMA EncodeHolds ==
  ASSUME IInv, NEW b \in Batch, Encode(b)
  PROVE  IInv'
<1>1. batch[b].pool = "upload" /\ Typed
  BY DEF Encode, IInv
<1>2. batch' = [batch EXCEPT ![b].open = TRUE, ![b].recycling = batch[b].recycling]
  BY <1>1 DEF Encode, Typed, BatchType
<1> QED BY <1>1, <1>2, BatchFields, FlagsHold DEF Encode

LEMMA GiveUpHolds ==
  ASSUME IInv, NEW b \in Batch, GiveUp(b)
  PROVE  IInv'
<1>1. batch[b].pool = "upload" /\ Typed
  BY DEF GiveUp, IInv
<1>2. batch' = [batch EXCEPT ![b].open = batch[b].open, ![b].recycling = TRUE]
  BY <1>1 DEF GiveUp, Typed, BatchType
<1> QED BY <1>1, <1>2, BatchFields, FlagsHold DEF GiveUp

LEMMA DropOrphanHolds ==
  ASSUME IInv, NEW o \in orphans, DropOrphan(o)
  PROVE  IInv'
<1>1. orphans' \subseteq orphans
  BY DEF DropOrphan
<1>2. LandedAll' = LandedAll
  BY DEF DropOrphan, LandedAll, Landed
<1>3. Fresh'
  BY <1>1, <1>2 DEF DropOrphan, IInv, Fresh
<1> QED BY <1>1, <1>3, SameUsers DEF DropOrphan, IInv, Typed

-----------------------------------------------------------------------------
(* Submissions *)

\* A submission changes what lands only in the scratch of its own commands, and
\* reads what it uploaded.
LEMMA ExecuteEffect ==
  ASSUME Typed, NEW e \in BatchType, Execute(e),
         Buffers(e.held) \subseteq 1..Len(content), Reads(e, LandedAll), ~misread
  PROVE  /\ content' \in Seq(Nat) /\ staged' \in Seq(Nat)
         /\ Len(content') = Len(content) /\ Len(staged') = Len(content)
         /\ ~misread' /\ misread' \in BOOLEAN
         /\ \A x \in 1..Len(content) :
               (e.pool = "scratch" => x \notin Buffers(e.held)) =>
                  LandedAll'[x] = LandedAll[x]
<1> DEFINE n == Len(content)
<1>1. /\ n \in Nat /\ DOMAIN content = 1..n /\ DOMAIN staged = 1..n
      /\ \A x \in 1..n : content[x] \in Nat /\ staged[x] \in Nat
  BY DEF Typed
<1>2. \A x \in 1..n : Landed(x) \in Nat /\ LandedAll[x] = Landed(x)
  BY <1>1 DEF Landed, LandedAll
<1>3. \A x \in Buffers(e.held) : TagOf(e.held, x) \in Nat
  <2> SUFFICES ASSUME NEW x \in Buffers(e.held) PROVE TagOf(e.held, x) \in Nat
    OBVIOUS
  <2>1. \E i \in DOMAIN e.held : e.held[i].buffer = x
    BY DEF Buffers
  <2>2. \A i \in DOMAIN e.held : e.held[i] \in Item
    BY DEF BatchType
  <2> QED BY <2>1, <2>2 DEF TagOf, Item
<1>4. content' = [x \in 1..n |->
                    IF e.pool = "scratch" /\ x \in Buffers(e.held) THEN TagOf(e.held, x)
                    ELSE Landed(x)]
  BY <1>1 DEF Execute
<1>5. staged' = [x \in 1..n |-> 0]
  BY <1>1 DEF Execute
<1>6. content' \in [1..n -> Nat] /\ staged' \in [1..n -> Nat]
  BY <1>2, <1>3, <1>4, <1>5
<1>7. /\ content' \in Seq(Nat) /\ staged' \in Seq(Nat)
      /\ Len(content') = n /\ Len(staged') = n
  BY <1>1, <1>6, FunctionIsSeq
<1>8. \A x \in 1..n : (e.pool = "scratch" => x \notin Buffers(e.held)) =>
                          LandedAll'[x] = LandedAll[x]
  <2> SUFFICES ASSUME NEW x \in 1..n, e.pool = "scratch" => x \notin Buffers(e.held)
               PROVE  LandedAll'[x] = LandedAll[x]
    OBVIOUS
  <2>1. LandedAll'[x] = content'[x]
    BY <1>5, <1>7 DEF LandedAll, Landed
  <2> QED BY <2>1, <1>2, <1>4
<1>9. ~misread' /\ misread' \in BOOLEAN
  <2>1. ASSUME e.pool = "upload", NEW i \in DOMAIN e.held
        PROVE  e.held[i].tag = Landed(e.held[i].buffer)
    <3>1. e.held[i].buffer \in 1..n
      BY DEF Buffers
    <3> QED BY <2>1, <3>1, <1>2 DEF Reads
  <2> QED BY <2>1 DEF Execute
<1> QED BY <1>7, <1>8, <1>9

LEMMA SubmitHolds ==
  ASSUME IInv, NEW b \in Batch, Submit(b)
  PROVE  IInv'
<1> DEFINE e == batch[b]
<1>1. /\ Typed /\ e \in BatchType /\ e.open /\ Execute(e) /\ ~misread
      /\ Buffers(e.held) \subseteq 1..Len(content) /\ Reads(e, LandedAll)
  BY BatchFields DEF Submit, IInv, AllCreated, Fresh
<1>2. e.pool # "none"
  BY <1>1 DEF IInv, BatchesFormed, WellFormed
<1>3. batch' \in [Batch -> BatchType]
  BY <1>1 DEF Submit, Typed, BatchType
<1>4. \A c \in Batch :
         /\ batch'[c].held = batch[c].held /\ batch'[c].pool = batch[c].pool
         /\ c # b => batch'[c] = batch[c]
  BY <1>1 DEF Submit, Typed, BatchType
<1>5. /\ content' \in Seq(Nat) /\ staged' \in Seq(Nat)
      /\ Len(content') = Len(content) /\ Len(staged') = Len(content)
      /\ ~misread' /\ misread' \in BOOLEAN
      /\ \A x \in 1..Len(content) :
            (e.pool = "scratch" => x \notin Buffers(e.held)) => LandedAll'[x] = LandedAll[x]
  BY <1>1, ExecuteEffect
<1>6. Fresh'
  <2>1. ASSUME NEW c \in Batch PROVE Reads(batch'[c], LandedAll')
    <3>1. batch[c].pool = "upload" =>
            \A x \in Buffers(batch[c].held) : LandedAll'[x] = LandedAll[x]
      <4> SUFFICES ASSUME batch[c].pool = "upload", NEW x \in Buffers(batch[c].held)
                   PROVE  LandedAll'[x] = LandedAll[x]
        OBVIOUS
      <4>1. x \in 1..Len(content)
        BY DEF IInv, AllCreated
      <4>2. e.pool = "scratch" => x \notin Buffers(e.held)
        BY DEF IInv, Apart
      <4> QED BY <4>1, <4>2, <1>5
    <3>2. Reads(batch[c], LandedAll)
      BY DEF IInv, Fresh
    <3> QED BY <3>1, <3>2, <1>4 DEF Reads, Buffers
  <2>2. ASSUME NEW o \in orphans PROVE Reads(o, LandedAll')
    <3>1. \A x \in Buffers(o.held) : LandedAll'[x] = LandedAll[x]
      BY <1>5 DEF IInv, AllCreated, Apart
    <3> QED BY <3>1, ReadsSame DEF IInv, Fresh
  <2> QED BY <2>1, <2>2 DEF Fresh, Submit
<1> QED BY <1>2, <1>3, <1>4, <1>5, <1>6, SameUsers DEF Submit

LEMMA SubmitOrphanHolds ==
  ASSUME IInv, NEW e \in orphans, SubmitOrphan(e)
  PROVE  IInv'
<1>1. /\ Typed /\ e \in BatchType /\ Execute(e) /\ ~misread
      /\ Buffers(e.held) \subseteq 1..Len(content) /\ Reads(e, LandedAll)
  BY DEF SubmitOrphan, IInv, AllCreated, Fresh, Typed
<1>2. /\ content' \in Seq(Nat) /\ staged' \in Seq(Nat)
      /\ Len(content') = Len(content) /\ Len(staged') = Len(content)
      /\ ~misread' /\ misread' \in BOOLEAN
      /\ \A x \in 1..Len(content) :
            (e.pool = "scratch" => x \notin Buffers(e.held)) => LandedAll'[x] = LandedAll[x]
  BY <1>1, ExecuteEffect
<1>3. Fresh'
  <2>1. ASSUME NEW c \in Batch PROVE Reads(batch[c], LandedAll')
    <3>1. \A x \in Buffers(batch[c].held) : LandedAll'[x] = LandedAll[x]
      BY <1>2 DEF IInv, AllCreated, Apart
    <3> QED BY <3>1, ReadsSame DEF IInv, Fresh
  <2>2. ASSUME NEW o \in orphans, o # e PROVE Reads(o, LandedAll')
    <3>1. \A x \in Buffers(o.held) : LandedAll'[x] = LandedAll[x]
      BY <2>2, <1>2 DEF IInv, AllCreated, Apart
    <3> QED BY <3>1, ReadsSame DEF IInv, Fresh
  <2> QED BY <2>1, <2>2 DEF Fresh, SubmitOrphan
<1> QED BY <1>1, <1>2, <1>3, SameUsers DEF SubmitOrphan, Typed

-----------------------------------------------------------------------------
(* Acquisitions *)

\* Nobody has the buffer.
Unused(x) ==
    /\ \A b \in Batch : x \notin Buffers(batch[b].held)
    /\ \A o \in orphans : x \notin Buffers(o.held)

\* Batch b takes the buffer x, which was retained by the pool or is new.
Takes(b, p, size, x) ==
    /\ Unused(x)
    /\ x \in Retained(pool[p]) \/ x \notin 1..Len(content)
    /\ \A q \in Pools : q # p => x \notin Retained(pool[q]) /\ pool'[q] = pool[q]
    /\ Sound(pool'[p]) /\ pool' \in [Pools -> PoolType]
    /\ Retained(pool'[p]) \subseteq Retained(pool[p]) \ {x}
    /\ pool'[p].allocations + pool[p].resources
          = pool[p].allocations + pool'[p].resources + 1
    /\ pool'[p].allocations + pool'[p].reuses
          = pool[p].allocations + pool[p].reuses + 1
    /\ pool'[p].discards = pool[p].discards
    /\ content' \in Seq(Nat) /\ Len(content) <= Len(content')
    /\ x \in 1..Len(content')
    /\ \A y \in 1..Len(content) : content'[y] = content[y]
    /\ batch' = [batch EXCEPT ![b] =
          Holding(@, p, [buffer |-> x, size |-> Bytes(size), tag |-> acquires + 1])]
    /\ staged' = [y \in 1..Len(content') |->
                     IF y = x /\ p = "upload" THEN acquires + 1
                     ELSE IF y \in 1..Len(content) THEN staged[y] ELSE 0]

\* An acquisition takes a retained buffer or creates one, and counts it.
LEMMA AcquireTakes ==
  ASSUME IInv, NEW b \in Batch, NEW p \in Pools, NEW size \in Sizes, Acquire(b, p, size)
  PROVE  \E x \in Nat : Takes(b, p, size, x)
<1> DEFINE n == Len(content)
           free == pool[p].free[size]
           x == IF Reuses(p, size) THEN free[Len(free)] ELSE n + 1
<1>1. /\ Typed /\ n \in Nat /\ DOMAIN content = 1..n /\ DOMAIN staged = 1..n
      /\ pool \in [Pools -> PoolType] /\ pool[p] \in PoolType /\ Sound(pool[p])
      /\ content \in Seq(Nat)
  BY DEF IInv, Typed, PoolsSound
<1>2. /\ pool' = [pool EXCEPT ![p] = IF Reuses(p, size) THEN Take(pool[p], size)
                        ELSE Allocated(pool[p])]
      /\ content' = IF Reuses(p, size) THEN content ELSE Append(content, 0)
      /\ acquires' = acquires + 1
  <2>1. acquires' = acquires + 1
    BY DEF Acquire
  <2>2. content' = IF Reuses(p, size) THEN content ELSE Append(content, 0)
    BY DEF Acquire
  <2>3. pool' = [pool EXCEPT ![p] = IF Reuses(p, size) THEN Take(pool[p], size)
                        ELSE Allocated(pool[p])]
    BY DEF Acquire
  <2> QED BY <2>1, <2>2, <2>3
<1>3. /\ batch' = [batch EXCEPT ![b] =
             Holding(@, p, [buffer |-> x, size |-> Bytes(size), tag |-> acquires + 1])]
      /\ staged' = [y \in DOMAIN content' |->
                        IF y = x /\ p = "upload" THEN acquires + 1
                        ELSE IF y \in DOMAIN staged THEN staged[y] ELSE 0]
  BY <1>2 DEF Acquire
<1>4. \A q \in Pools : q # p => pool'[q] = pool[q]
  BY <1>1, <1>2
<1>5. CASE Reuses(p, size)
  <2>1. size \in Keys /\ free # <<>>
    BY <1>5 DEF Reuses, Keys, Bytes
  <2>2. x = free[Len(free)] /\ pool'[p] = Take(pool[p], size) /\ content' = content
    BY <1>1, <1>2, <1>5
  <2>3. /\ Sound(pool'[p]) /\ x \in Retained(pool[p]) /\ x \in Nat
        /\ Retained(pool'[p]) = Retained(pool[p]) \ {x}
        /\ pool[p].resources = pool'[p].resources + 1
        /\ pool'[p].reuses = pool[p].reuses + 1
        /\ pool'[p].allocations = pool[p].allocations
        /\ pool'[p].discards = pool[p].discards
    BY <1>1, <2>1, <2>2, TakeSound
  <2>4. pool'[p] \in PoolType /\ pool' \in [Pools -> PoolType]
    BY <1>1, <1>2, <1>5, <2>3, <2>2 DEF Sound
  <2>5. Unused(x) /\ \A q \in Pools : q # p => x \notin Retained(pool[q])
    BY <2>3 DEF IInv, Apart, Unused, Pools
  <2>6. x \in 1..n
    BY <2>3 DEF IInv, AllCreated
  <2>7. DOMAIN content' = 1..n /\ Len(content') = n /\ n <= n
    BY <1>1, <2>2
  <2>8. /\ pool'[p].allocations + pool[p].resources
              = pool[p].allocations + pool'[p].resources + 1
        /\ pool'[p].allocations + pool'[p].reuses
              = pool[p].allocations + pool[p].reuses + 1
    <3>1. /\ pool[p].allocations \in Nat /\ pool'[p].resources \in Nat
          /\ pool[p].reuses \in Nat
      BY <1>1, <2>4 DEF PoolType
    <3> HIDE DEF x
    <3> QED BY <3>1, <2>3
  <2>9. staged' = [y \in 1..Len(content') |->
                      IF y = x /\ p = "upload" THEN acquires + 1
                      ELSE IF y \in 1..Len(content) THEN staged[y] ELSE 0]
    BY <1>1, <1>3, <2>7
  <2> HIDE DEF x
  <2>10. /\ content' \in Seq(Nat) /\ Len(content) <= Len(content')
         /\ x \in 1..Len(content')
         /\ \A y \in 1..Len(content) : content'[y] = content[y]
    BY <1>1, <2>2, <2>6, <2>7
  <2>11. Retained(pool'[p]) \subseteq Retained(pool[p]) \ {x}
    BY <2>3
  <2> HIDE DEF n
  <2>12. Takes(b, p, size, x)
    BY <1>3, <1>4, <2>3, <2>4, <2>5, <2>8, <2>9, <2>10, <2>11 DEF Takes
  <2> QED BY <2>3, <2>12
<1>6. CASE ~Reuses(p, size)
  <2> DEFINE d == Allocated(pool[p])
  <2>1. x = n + 1 /\ pool'[p] = d /\ content' = Append(content, 0)
    BY <1>1, <1>2, <1>6
  <2>2. /\ d \in PoolType /\ d.free = pool[p].free /\ d.bytes = pool[p].bytes
        /\ d.resources = pool[p].resources /\ d.budget = pool[p].budget
        /\ d.discards = pool[p].discards /\ d.reuses = pool[p].reuses
        /\ d.allocations = pool[p].allocations + 1
        /\ pool[p].allocations \in Nat /\ pool[p].resources \in Nat /\ pool[p].reuses \in Nat
    <3>1. pool[p].allocations \in Nat /\ pool[p].allocations + 1 \in Nat
      BY <1>1 DEF PoolType
    <3> QED BY <1>1, <3>1 DEF PoolType, Allocated
  <2> HIDE DEF d
  <2>3. Sound(d) /\ Retained(d) = Retained(pool[p])
    <3>1. pool[p].bytes <= d.budget
      BY <1>1, <2>2 DEF Sound
    <3> QED BY <1>1, <2>2, <3>1, SoundUnder
  <2>4. pool' \in [Pools -> PoolType]
    BY <1>1, <1>2, <1>6, <2>2 DEF d
  <2>5. n + 1 \notin 1..n
    BY <1>1
  <2>6. Unused(x) /\ \A q \in Pools : x \notin Retained(pool[q])
    BY <2>1, <2>5 DEF IInv, AllCreated, Unused
  <2>14. x \notin 1..Len(content)
    BY <2>1, <2>5
  <2>7. /\ content' \in Seq(Nat) /\ DOMAIN content' = 1..(n + 1) /\ Len(content') = n + 1
        /\ n <= n + 1 /\ x \in 1..(n + 1) /\ x \in Nat
        /\ \A y \in 1..n : content'[y] = content[y]
    BY <1>1, <2>1
  <2>8. /\ pool'[p].allocations + pool[p].resources
              = pool[p].allocations + pool'[p].resources + 1
        /\ pool'[p].allocations + pool'[p].reuses
              = pool[p].allocations + pool[p].reuses + 1
    <3>1. /\ pool'[p].allocations = pool[p].allocations + 1
          /\ pool'[p].resources = pool[p].resources /\ pool'[p].reuses = pool[p].reuses
      BY <2>1, <2>2
    <3>2. /\ pool[p].allocations \in Nat /\ pool[p].resources \in Nat
          /\ pool[p].reuses \in Nat
      BY <2>2
    <3> QED BY <3>1, <3>2
  <2>9. staged' = [y \in 1..Len(content') |->
                      IF y = x /\ p = "upload" THEN acquires + 1
                      ELSE IF y \in 1..Len(content) THEN staged[y] ELSE 0]
    BY <1>1, <1>3, <2>7
  <2>10. pool'[p] = d
    BY <2>1
  <2> HIDE DEF x
  <2>11. /\ Sound(pool'[p]) /\ pool'[p].discards = pool[p].discards
         /\ Retained(pool'[p]) \subseteq Retained(pool[p]) \ {x}
    BY <2>2, <2>3, <2>6, <2>10
  <2>12. /\ content' \in Seq(Nat) /\ Len(content) <= Len(content')
         /\ x \in 1..Len(content')
         /\ \A y \in 1..Len(content) : content'[y] = content[y]
    BY <2>7
  <2> HIDE DEF n
  <2>13. Takes(b, p, size, x)
    BY <1>3, <1>4, <2>4, <2>6, <2>8, <2>9, <2>11, <2>12, <2>14 DEF Takes
  <2> QED BY <2>7, <2>13
<1> QED BY <1>5, <1>6

LEMMA AcquireHolds ==
  ASSUME IInv, NEW b \in Batch, NEW p \in Pools, NEW size \in Sizes, Acquire(b, p, size)
  PROVE  IInv'
<1>1. PICK x \in Nat : Takes(b, p, size, x)
  BY AcquireTakes
<1> DEFINE n == Len(content)
           tag == acquires + 1
           item == [buffer |-> x, size |-> Bytes(size), tag |-> tag]
           e == Holding(batch[b], p, item)
<1>2. /\ Typed /\ n \in Nat /\ Len(content') \in Nat /\ n <= Len(content')
      /\ tag \in Nat /\ acquires' = tag /\ item \in Item /\ item.buffer = x /\ item.tag = tag
      /\ content' \in Seq(Nat) /\ x \in 1..Len(content')
      /\ batch[b].pool = "none" \/ batch[b].pool = p
      /\ 1..n \subseteq 1..Len(content')
  <2>1. n \in Nat /\ tag \in Nat /\ Typed
    BY DEF IInv, Typed
  <2>2. Bytes(size) \in Keys
    BY DEF Keys
  <2>3. /\ content' \in Seq(Nat) /\ n <= Len(content') /\ x \in 1..Len(content')
    BY <1>1 DEF Takes
  <2>4. acquires' = tag /\ batch[b].pool \in {"none", p}
    BY DEF Acquire
  <2>5. item \in Item /\ item.buffer = x /\ item.tag = tag
    BY <2>1, <2>2 DEF Item
  <2>6. Len(content') \in Nat
    BY <2>3
  <2>7. 1..n \subseteq 1..Len(content')
    BY <2>1, <2>3, <2>6
  <2> HIDE DEF n, tag, item
  <2> QED BY <2>1, <2>3, <2>4, <2>5, <2>6, <2>7
<1>3. batch[b] \in BatchType /\ batch[b].held \in Seq(Item)
  BY <1>2, BatchFields
<1> HIDE DEF item, tag, n
<1>4. /\ e \in BatchType /\ e.pool = p /\ e.held = Append(batch[b].held, item)
      /\ e.open = (batch[b].open \/ p = "scratch") /\ e.recycling = batch[b].recycling
  <2>1. Append(batch[b].held, item) \in Seq(Item)
    BY <1>2, <1>3
  <2>2. (batch[b].open \/ p = "scratch") \in BOOLEAN
    OBVIOUS
  <2>3. e = [batch[b] EXCEPT !.pool = p, !.held = Append(batch[b].held, item),
                             !.open = batch[b].open \/ p = "scratch"]
    BY DEF Holding
  <2> HIDE DEF e
  <2> QED BY <2>1, <2>2, <2>3, <1>3 DEF BatchType
<1>5. /\ batch' = [batch EXCEPT ![b] = e]
      /\ batch' \in [Batch -> BatchType] /\ batch'[b] = e
      /\ \A c \in Batch : c # b => batch'[c] = batch[c]
  <2>1. batch' = [batch EXCEPT ![b] = e]
    BY <1>1 DEF Takes, item, tag
  <2> HIDE DEF e
  <2> QED BY <2>1, <1>2, <1>4 DEF Typed
<1> HIDE DEF e
<1>6. Buffers(e.held) = Buffers(batch[b].held) \cup {x}
  BY <1>2, <1>3, <1>4, BuffersOfAppend
<1>7. Unused(x)
  BY <1>1 DEF Takes
<1>8. UNCHANGED <<orphans, foreign, misread, misfiled, lost>>
  BY DEF Acquire
<1>9. /\ Sound(pool'[p]) /\ pool' \in [Pools -> PoolType]
      /\ Retained(pool'[p]) \subseteq Retained(pool[p]) \ {x}
      /\ \A q \in Pools : q # p => x \notin Retained(pool[q]) /\ pool'[q] = pool[q]
  BY <1>1 DEF Takes
<1>10. \A q \in Pools : x \notin Retained(pool'[q])
                       /\ Retained(pool'[q]) \subseteq Retained(pool[q])
  BY <1>9
<1>11. Typed'
  <2>1. \A y \in 1..Len(content') :
           (IF y = x /\ p = "upload" THEN tag ELSE IF y \in 1..n THEN staged[y] ELSE 0) \in Nat
    <3>1. \A y \in 1..n : staged[y] \in Nat
      <4>1. staged \in Seq(Nat) /\ Len(staged) = n
        BY <1>2 DEF Typed, n
      <4> HIDE DEF n
      <4> QED BY <4>1
    <3>2. tag \in Nat
      BY <1>2
    <3> QED BY <3>1, <3>2
  <2>2. staged' = [y \in 1..Len(content') |->
             IF y = x /\ p = "upload" THEN tag ELSE IF y \in 1..n THEN staged[y] ELSE 0]
    BY <1>1 DEF Takes, n, tag
  <2>3. staged' \in [1..Len(content') -> Nat]
    BY <2>1, <2>2
  <2>4. staged' \in Seq(Nat) /\ Len(staged') = Len(content')
    BY <2>3, <1>2, FunctionIsSeq
  <2> QED BY <2>4, <1>2, <1>5, <1>8, <1>9 DEF Typed
<1>12. PoolsSound'
  BY <1>9 DEF IInv, PoolsSound
<1>13. BatchesFormed'
  <2> SUFFICES ASSUME NEW c \in Batch PROVE WellFormed(batch'[c])
    BY DEF BatchesFormed
  <2>1. WellFormed(batch[c])
    BY DEF IInv, BatchesFormed
  <2>2. CASE c = b
    <3>1. HeldOnce(batch[b].held) /\ x \notin Buffers(batch[b].held)
      BY <1>7, <2>1, <2>2 DEF WellFormed, Unused
    <3>2. HeldOnce(e.held)
      BY <3>1, <1>2, <1>3, <1>4, BuffersOfAppend
    <3>3. e.held # <<>> /\ e.pool # "none"
      <4>1. Append(batch[b].held, item) # <<>>
        <5>1. Len(Append(batch[b].held, item)) # 0
          BY <1>2, <1>3
        <5>2. Len(<<>>) = 0
          OBVIOUS
        <5> QED BY <5>1, <5>2
      <4> QED BY <4>1, <1>4 DEF Pools
    <3> QED BY <3>2, <3>3, <2>2, <1>5 DEF WellFormed
  <2>3. CASE c # b
    BY <2>1, <2>3, <1>5
  <2> QED BY <2>2, <2>3
<1>14. AllCreated'
  <2>1. \A q \in Pools : Retained(pool'[q]) \subseteq 1..Len(content')
    BY <1>2, <1>10 DEF IInv, AllCreated, n
  <2>2. \A c \in Batch : Buffers(batch'[c].held) \subseteq 1..Len(content')
    BY <1>2, <1>5, <1>6 DEF IInv, AllCreated, n
  <2>3. \A o \in orphans : Buffers(o.held) \subseteq 1..Len(content')
    BY <1>2 DEF IInv, AllCreated, n
  <2> QED BY <2>1, <2>2, <2>3, <1>8 DEF AllCreated
<1>15. Apart'
  <2>1. Retained(pool'["scratch"]) \cap Retained(pool'["upload"]) = {}
    BY <1>10 DEF IInv, Apart, Pools
  <2>2. \A q \in Pools : \A c \in Batch :
           Retained(pool'[q]) \cap Buffers(batch'[c].held) = {}
    BY <1>5, <1>6, <1>10 DEF IInv, Apart
  <2>3. \A q \in Pools : \A o \in orphans : Retained(pool'[q]) \cap Buffers(o.held) = {}
    BY <1>10 DEF IInv, Apart
  <2>4. \A c, d \in Batch :
           c # d => Buffers(batch'[c].held) \cap Buffers(batch'[d].held) = {}
    BY <1>5, <1>6, <1>7 DEF IInv, Apart, Unused
  <2>5. \A o \in orphans, c \in Batch : Buffers(o.held) \cap Buffers(batch'[c].held) = {}
    BY <1>5, <1>6, <1>7 DEF IInv, Apart, Unused
  <2>6. \A o, q \in orphans : o # q => Buffers(o.held) \cap Buffers(q.held) = {}
    BY DEF IInv, Apart
  <2> QED BY <2>1, <2>2, <2>3, <2>4, <2>5, <2>6, <1>8 DEF Apart
<1>16. /\ \A y \in 1..n : y # x => LandedAll'[y] = LandedAll[y]
       /\ p = "upload" => LandedAll'[x] = tag
  <2>1. staged' = [y \in 1..Len(content') |->
             IF y = x /\ p = "upload" THEN tag ELSE IF y \in 1..n THEN staged[y] ELSE 0]
    BY <1>1 DEF Takes, n, tag
  <2>2. \A y \in 1..n : content'[y] = content[y]
    BY <1>1 DEF Takes, n
  <2>3. tag # 0
    BY <1>2 DEF tag, Typed
  <2>4. ASSUME NEW y \in 1..n, y # x PROVE LandedAll'[y] = LandedAll[y]
    <3>1. y \in 1..Len(content') /\ staged'[y] = staged[y] /\ content'[y] = content[y]
      BY <2>1, <2>2, <2>4, <1>2
    <3> QED BY <3>1 DEF LandedAll, Landed, n
  <2>5. ASSUME p = "upload" PROVE LandedAll'[x] = tag
    <3>1. staged'[x] = tag /\ x \in 1..Len(content')
      BY <2>1, <2>5, <1>2
    <3> QED BY <3>1, <2>3 DEF LandedAll, Landed
  <2> QED BY <2>4, <2>5
<1>17. Fresh'
  <2>1. ASSUME NEW c \in Batch, c # b PROVE Reads(batch'[c], LandedAll')
    <3>1. \A y \in Buffers(batch[c].held) : LandedAll'[y] = LandedAll[y]
      BY <1>16, <1>7 DEF IInv, AllCreated, Unused, n
    <3>2. Reads(batch[c], LandedAll)
      BY DEF IInv, Fresh
    <3> QED BY <3>1, <3>2, <2>1, <1>5, ReadsSame
  <2>2. Reads(batch'[b], LandedAll')
    <3> SUFFICES ASSUME p = "upload", NEW i \in DOMAIN e.held
                 PROVE  e.held[i].tag = LandedAll'[e.held[i].buffer]
      BY <1>4, <1>5 DEF Reads
    <3>1. DOMAIN e.held = 1..(Len(batch[b].held) + 1) /\ Len(batch[b].held) \in Nat
          /\ DOMAIN batch[b].held = 1..Len(batch[b].held)
      BY <1>2, <1>3, <1>4
    <3>2. CASE i = Len(batch[b].held) + 1
      <4>1. e.held[i] = item
        BY <3>2, <1>2, <1>3, <1>4
      <4> QED BY <4>1, <1>2, <1>16
    <3>3. CASE i # Len(batch[b].held) + 1
      <4>1. i \in DOMAIN batch[b].held
        BY <3>1, <3>3
      <4>2. e.held[i] = batch[b].held[i]
        BY <4>1, <1>2, <1>3, <1>4
      <4>3. batch[b].pool = "upload"
        <5>1. batch[b].held # <<>>
          BY <4>1
        <5> QED BY <5>1, <1>2 DEF IInv, BatchesFormed, WellFormed
      <4>4. batch[b].held[i].tag = LandedAll[batch[b].held[i].buffer]
        BY <4>1, <4>3 DEF IInv, Fresh, Reads
      <4>5. batch[b].held[i].buffer \in Buffers(batch[b].held)
        BY <4>1 DEF Buffers
      <4>6. batch[b].held[i].buffer \in 1..n /\ batch[b].held[i].buffer # x
        BY <4>5, <1>7 DEF IInv, AllCreated, Unused, n
      <4> QED BY <4>2, <4>4, <4>6, <1>16
    <3> QED BY <3>2, <3>3
  <2>3. ASSUME NEW o \in orphans PROVE Reads(o, LandedAll')
    <3>1. \A y \in Buffers(o.held) : LandedAll'[y] = LandedAll[y]
      BY <1>16, <1>7 DEF IInv, AllCreated, Unused, n
    <3> QED BY <3>1, ReadsSame DEF IInv, Fresh
  <2> QED BY <2>1, <2>2, <2>3, <1>8 DEF Fresh
<1>18. \A q \in Pools : Conserved(q)'
  <2> SUFFICES ASSUME NEW q \in Pools PROVE Conserved(q)'
    OBVIOUS
  <2>1. /\ Conserved(q) /\ IsFiniteSet(Held(q)) /\ Cardinality(Held(q)) \in Nat
        /\ lost[q] \in Nat /\ lost'[q] = lost[q] /\ foreign[q] \in Nat /\ foreign'[q] = foreign[q]
    BY <1>8, HeldFinite DEF IInv, Typed
  <2>2. CASE q # p
    <3>1. Held(q)' = Held(q)
      <4>1. batch[b].pool # q
        BY <2>2, <1>2 DEF Pools
      <4>2. \A c \in Batch : \A y : batch'[c].pool = q /\ y \in Buffers(batch'[c].held)
                                <=> batch[c].pool = q /\ y \in Buffers(batch[c].held)
        BY <4>1, <2>2, <1>4, <1>5
      <4> QED BY <4>2 DEF Held
    <3> QED BY <3>1, <2>1, <2>2, <1>9 DEF Conserved
  <2>3. CASE q = p
    <3>1. Held(p)' = Held(p) \cup {x}
      <4>1. batch[b].pool # p => Buffers(batch[b].held) = {}
        <5>1. batch[b].pool # p => batch[b].held = <<>>
          BY <1>2 DEF IInv, BatchesFormed, WellFormed
        <5> QED BY <5>1 DEF Buffers
      <4>2. \A c \in Batch : c # b =>
               \A y : batch'[c].pool = p /\ y \in Buffers(batch'[c].held)
                       <=> batch[c].pool = p /\ y \in Buffers(batch[c].held)
        BY <1>5
      <4>3. \A y : batch'[b].pool = p /\ y \in Buffers(batch'[b].held)
                   <=> (batch[b].pool = p /\ y \in Buffers(batch[b].held)) \/ y = x
        BY <4>1, <1>4, <1>5, <1>6
      <4> QED BY <4>2, <4>3 DEF Held
    <3>2. x \notin Held(p)
      BY <1>7, HeldIs DEF Unused
    <3>3. Cardinality(Held(p)') = Cardinality(Held(p)) + 1
      BY <3>1, <3>2, <2>1, <2>3, FS_AddElement
    <3>4. /\ pool'[p].allocations + pool[p].resources
                = pool[p].allocations + pool'[p].resources + 1
          /\ pool'[p].discards = pool[p].discards
      BY <1>1 DEF Takes
    <3>5. /\ pool[p].allocations \in Nat /\ pool'[p].allocations \in Nat
          /\ pool[p].resources \in Nat /\ pool'[p].resources \in Nat
          /\ pool[p].discards \in Nat
      BY <1>2, <1>9 DEF Typed, PoolType
    <3>6. pool[p].allocations + foreign[p] =
             pool[p].resources + Cardinality(Held(p)) + pool[p].discards + lost[p]
      BY <2>1, <2>3 DEF Conserved
    <3>7. pool'[p].allocations + foreign[p] =
             pool'[p].resources + (Cardinality(Held(p)) + 1) + pool[p].discards + lost[p]
      BY <2>1, <2>3, <3>4, <3>5, <3>6
    <3> QED BY <2>1, <2>3, <3>3, <3>4, <3>7 DEF Conserved
  <2> QED BY <2>2, <2>3
<1>19. AcquiresCounted'
  <2>1. pool'[p].allocations + pool'[p].reuses
          = pool[p].allocations + pool[p].reuses + 1
    BY <1>1 DEF Takes
  <2>2. \A q \in Pools : /\ pool[q].allocations \in Nat /\ pool[q].reuses \in Nat
                        /\ pool'[q].allocations \in Nat /\ pool'[q].reuses \in Nat
    BY <1>2, <1>9 DEF Typed, PoolType
  <2>3. acquires' = acquires + 1 /\ AcquiresCounted
    BY <1>2 DEF tag, IInv
  <2>4. CASE p = "scratch"
    <3>1. pool'["upload"] = pool["upload"]
      BY <2>4, <1>9 DEF Pools
    <3> QED BY <3>1, <2>1, <2>2, <2>3, <2>4 DEF AcquiresCounted, Pools
  <2>5. CASE p = "upload"
    <3>1. pool'["scratch"] = pool["scratch"]
      BY <2>5, <1>9 DEF Pools
    <3> QED BY <3>1, <2>1, <2>2, <2>3, <2>5 DEF AcquiresCounted, Pools
  <2> QED BY <2>4, <2>5 DEF Pools
<1>20. ~misread' /\ ~misfiled'
  BY <1>8 DEF IInv
<1> QED BY <1>11, <1>12, <1>13, <1>14, <1>15, <1>17, <1>18, <1>19, <1>20 DEF IInv

-----------------------------------------------------------------------------
(* Returns *)

LEMMA RecycleHolds ==
  ASSUME IInv, NEW b \in Batch, Recycle(b)
  PROVE  IInv'
<1> DEFINE p == batch[b].pool
           items == batch[b].held
           item == Head(items)
           rest == Tail(items)
           x == item.buffer
           e == IF rest = <<>> THEN Idle ELSE [batch[b] EXCEPT !.held = rest]
<1>1. Typed /\ batch[b] \in BatchType /\ items \in Seq(Item) /\ batch[b].recycling
  BY BatchFields DEF IInv, Recycle
<1>2. items # <<>> /\ HeldOnce(items) /\ p \in Pools
  BY <1>1, BatchFields DEF IInv, BatchesFormed, WellFormed
<1>3. /\ item \in Item /\ rest \in Seq(Item)
      /\ Buffers(rest) = Buffers(items) \ {x} /\ x \in Buffers(items) /\ HeldOnce(rest)
      /\ \A i \in DOMAIN rest : \E j \in DOMAIN items : rest[i] = items[j]
  BY <1>1, <1>2, BuffersOfTail
<1>4. item.size \in Keys /\ x \in Nat
  BY <1>3 DEF Item
<1>5. PICK length : /\ Return(p, length, item.size, TRUE, x)
                    /\ batch' = [batch EXCEPT ![b] = e]
  BY DEF Recycle
<1>6. UNCHANGED <<orphans, staged, content, acquires, foreign, misread, lost>>
  BY DEF Recycle
<1>7. Idle \in BatchType /\ Idle.held = <<>> /\ Idle.pool = "none" /\ ~Idle.open /\ ~Idle.recycling
  BY DEF Idle, BatchType
<1>8. /\ e \in BatchType /\ e.held = rest
      /\ e.pool = IF rest = <<>> THEN "none" ELSE p
      /\ rest # <<>> => e.open = batch[b].open /\ e.recycling = batch[b].recycling
      /\ rest = <<>> => ~e.open /\ ~e.recycling
  <2>1. CASE rest = <<>>
    BY <2>1, <1>7
  <2>2. CASE rest # <<>>
    <3>1. e = [batch[b] EXCEPT !.held = rest]
      BY <2>2
    <3> HIDE DEF e
    <3> QED BY <2>2, <3>1, <1>1, <1>3 DEF BatchType
  <2> QED BY <2>1, <2>2
<1>9. x \notin Retained(pool[p])
  BY <1>2, <1>3 DEF IInv, Apart
<1> DEFINE d == Recycled(pool[p], length, item.size, TRUE, x)
<1>10. /\ Sound(d) /\ Retained(d) \subseteq Retained(pool[p]) \cup {x}
       /\ length # item.size => x \notin Retained(d)
       /\ d.resources + d.discards = pool[p].resources + pool[p].discards + 1
       /\ d.allocations = pool[p].allocations /\ d.reuses = pool[p].reuses
  <2>1. Sound(pool[p])
    BY <1>2 DEF IInv, PoolsSound
  <2> DEFINE c == pool[p]
             size == item.size
             compatible == TRUE
  <2>2. /\ x \in Nat /\ size \in Keys /\ Sound(c) /\ x \notin Retained(c)
        /\ compatible \in BOOLEAN /\ d = Recycled(c, length, size, compatible, x)
    BY <2>1, <1>4, <1>9
  <2> HIDE DEF d, c, size, compatible, x
  <2>3. /\ Sound(d) /\ Retained(d) \subseteq Retained(c) \cup {x}
        /\ length # size => x \notin Retained(d)
        /\ d.resources + d.discards = c.resources + c.discards + 1
        /\ d.allocations = c.allocations /\ d.reuses = c.reuses
    BY <2>2, RecycledSound
  <2> QED BY <2>3 DEF c, size
<1>23. /\ pool' = [pool EXCEPT ![p] = d]
       /\ misfiled' = (misfiled \/ (length # item.size /\ x \in Retained(pool'[p])))
       /\ batch' = [batch EXCEPT ![b] = e]
  BY <1>5 DEF Return
<1> HIDE DEF d, e, rest, x, item
<1>11. /\ pool' \in [Pools -> PoolType] /\ pool'[p] = d /\ Sound(pool'[p])
       /\ Retained(pool'[p]) \subseteq Retained(pool[p]) \cup {x}
       /\ pool'[p].resources + pool'[p].discards = pool[p].resources + pool[p].discards + 1
       /\ pool'[p].allocations = pool[p].allocations /\ pool'[p].reuses = pool[p].reuses
       /\ \A q \in Pools : q # p => pool'[q] = pool[q]
  <2>1. pool'[p] = d /\ \A q \in Pools : q # p => pool'[q] = pool[q]
    BY <1>1, <1>2, <1>23 DEF Typed
  <2>2. d \in PoolType
    BY <1>10 DEF Sound
  <2>3. pool' \in [Pools -> PoolType]
    BY <1>1, <1>2, <1>23, <2>2 DEF Typed
  <2> QED BY <2>1, <2>3, <1>10
<1>12. /\ batch' \in [Batch -> BatchType] /\ batch'[b] = e
       /\ \A c \in Batch : c # b => batch'[c] = batch[c]
       /\ Buffers(batch'[b].held) = Buffers(items) \ {x}
  BY <1>1, <1>3, <1>23, <1>8 DEF Typed
<1>13. Typed'
  <2>1. misfiled' \in BOOLEAN
    BY <1>23
  <2> QED BY <2>1, <1>1, <1>6, <1>11, <1>12 DEF Typed
<1>14. PoolsSound'
  BY <1>11 DEF IInv, PoolsSound
<1>15. BatchesFormed'
  <2>1. WellFormed(e)
    <3>1. rest = <<>> \/ (rest # <<>> /\ p # "none")
      BY <1>2 DEF Pools
    <3> QED BY <3>1, <1>3, <1>8 DEF WellFormed
  <2> QED BY <2>1, <1>12 DEF IInv, BatchesFormed
<1>16. AllCreated'
  <2>1. x \in 1..Len(content)
    BY <1>3 DEF IInv, AllCreated
  <2>2. \A q \in Pools : Retained(pool'[q]) \subseteq 1..Len(content)
    BY <2>1, <1>11 DEF IInv, AllCreated
  <2>3. \A c \in Batch : Buffers(batch'[c].held) \subseteq 1..Len(content)
    BY <1>12 DEF IInv, AllCreated
  <2> QED BY <2>2, <2>3, <1>6 DEF IInv, AllCreated
<1>17. /\ \A c \in Batch : x \notin Buffers(batch'[c].held)
       /\ \A c \in Batch : Buffers(batch'[c].held) \subseteq Buffers(batch[c].held)
       /\ \A o \in orphans : x \notin Buffers(o.held)
       /\ \A q \in Pools : x \notin Retained(pool[q])
  BY <1>3, <1>12 DEF IInv, Apart
<1>18. Apart'
  <2>1. Retained(pool'["scratch"]) \cap Retained(pool'["upload"]) = {}
    BY <1>2, <1>11, <1>17 DEF IInv, Apart, Pools
  <2>2. \A q \in Pools : \A c \in Batch :
           Retained(pool'[q]) \cap Buffers(batch'[c].held) = {}
    BY <1>11, <1>17 DEF IInv, Apart
  <2>3. \A q \in Pools : \A o \in orphans : Retained(pool'[q]) \cap Buffers(o.held) = {}
    BY <1>11, <1>17 DEF IInv, Apart
  <2>4. \A c, k \in Batch :
           c # k => Buffers(batch'[c].held) \cap Buffers(batch'[k].held) = {}
    BY <1>17 DEF IInv, Apart
  <2>5. \A o \in orphans, c \in Batch : Buffers(o.held) \cap Buffers(batch'[c].held) = {}
    BY <1>17 DEF IInv, Apart
  <2>6. \A o, q \in orphans : o # q => Buffers(o.held) \cap Buffers(q.held) = {}
    BY DEF IInv, Apart
  <2> QED BY <2>1, <2>2, <2>3, <2>4, <2>5, <2>6, <1>6 DEF Apart
<1>19. Fresh'
  <2>1. LandedAll' = LandedAll
    BY <1>6 DEF LandedAll, Landed
  <2>2. Reads(e, LandedAll)
    <3>1. Reads(batch[b], LandedAll)
      BY DEF IInv, Fresh
    <3> QED BY <3>1, <1>3, <1>8 DEF Reads
  <2>3. \A c \in Batch : Reads(batch'[c], LandedAll)
    BY <2>2, <1>12 DEF IInv, Fresh
  <2>4. \A o \in orphans : Reads(o, LandedAll)
    BY DEF IInv, Fresh
  <2> QED BY <2>1, <2>3, <2>4, <1>6 DEF Fresh
<1>20. \A q \in Pools : Conserved(q)'
  <2> SUFFICES ASSUME NEW q \in Pools PROVE Conserved(q)'
    OBVIOUS
  <2>1. /\ Conserved(q) /\ IsFiniteSet(Held(q)) /\ Cardinality(Held(q)) \in Nat
        /\ lost[q] \in Nat /\ lost'[q] = lost[q] /\ foreign[q] \in Nat /\ foreign'[q] = foreign[q]
    BY <1>6, HeldFinite DEF IInv, Typed
  <2>2. rest = <<>> => Buffers(rest) = {}
    BY DEF Buffers
  <2>3. CASE q # p
    <3>1. Held(q)' = Held(q)
      <4>1. batch'[b].pool # q
        BY <2>3, <1>8, <1>12 DEF Pools
      <4>2. \A c \in Batch : \A y : batch'[c].pool = q /\ y \in Buffers(batch'[c].held)
                                <=> batch[c].pool = q /\ y \in Buffers(batch[c].held)
        BY <4>1, <2>3, <1>12
      <4> QED BY <4>2 DEF Held
    <3> QED BY <3>1, <2>1, <2>3, <1>11 DEF Conserved
  <2>4. CASE q = p
    <3>1. Held(q)' = Held(q) \ {x}
      <4>1. \A c \in Batch : c # b => x \notin Buffers(batch[c].held)
        BY <1>3 DEF IInv, Apart
      <4>2. \A y : batch'[b].pool = q /\ y \in Buffers(batch'[b].held)
                   <=> y \in Buffers(items) /\ y # x
        BY <2>2, <2>4, <1>3, <1>8, <1>12
      <4>3. \A c \in Batch : \A y : batch'[c].pool = q /\ y \in Buffers(batch'[c].held)
               <=> batch[c].pool = q /\ y \in Buffers(batch[c].held) /\ y # x
        BY <2>4, <4>1, <4>2, <1>12
      <4> HIDE DEF p
      <4> QED BY <4>3 DEF Held
    <3>2. x \in Held(q)
      BY <1>3, <2>4, HeldIs
    <3>3. Cardinality(Held(q)') = Cardinality(Held(q)) - 1
      <4>1. Cardinality(Held(q) \ {x}) = Cardinality(Held(q)) - 1
        BY <3>2, <2>1, FS_RemoveElement
      <4> QED BY <4>1, <3>1
    <3>4. /\ pool[q].allocations \in Nat
          /\ pool[q].resources \in Nat /\ pool'[q].resources \in Nat
          /\ pool[q].discards \in Nat /\ pool'[q].discards \in Nat
      BY <1>1, <1>11 DEF Typed, PoolType
    <3>5. pool[q].allocations + foreign[q] =
             pool[q].resources + Cardinality(Held(q)) + pool[q].discards + lost[q]
      BY <2>1 DEF Conserved
    <3>6. pool'[q].resources + pool'[q].discards = pool[q].resources + pool[q].discards + 1
          /\ pool'[q].allocations = pool[q].allocations
      BY <2>4, <1>11
    <3>7. pool'[q].allocations + foreign[q] = pool'[q].resources + (Cardinality(Held(q)) - 1)
                                 + pool'[q].discards + lost[q]
      <4> DEFINE a == pool[q].allocations
                 f == foreign[q]
                 r == pool[q].resources
                 h == Cardinality(Held(q))
                 dd == pool[q].discards
                 l == lost[q]
                 s == pool'[q].resources
                 t == pool'[q].discards
      <4>1. /\ a \in Nat /\ r \in Nat /\ h \in Nat /\ dd \in Nat /\ l \in Nat
            /\ s \in Nat /\ t \in Nat /\ f \in Nat
        BY <2>1, <3>4
      <4>2. a + f = r + h + dd + l /\ s + t = r + dd + 1
        BY <3>5, <3>6
      <4> HIDE DEF a, f, r, h, dd, l, s, t
      <4>3. a + f = s + (h - 1) + t + l
        BY <4>1, <4>2
      <4> QED BY <4>3, <3>6 DEF a, f, h, l, s, t
    <3>8. pool'[q].allocations + foreign'[q] = pool'[q].resources + Cardinality(Held(q)')
                                 + pool'[q].discards + lost'[q]
      BY <2>1, <3>3, <3>7
    <3> QED BY <3>8 DEF Conserved
  <2> QED BY <2>3, <2>4
<1>21. AcquiresCounted'
  <2>1. \A q \in Pools : pool'[q].allocations = pool[q].allocations
                        /\ pool'[q].reuses = pool[q].reuses
    BY <1>11
  <2> QED BY <2>1, <1>6 DEF IInv, AcquiresCounted, Pools
<1>22. ~misread' /\ ~misfiled'
  BY <1>6, <1>10, <1>11, <1>23 DEF IInv
<1> QED BY <1>13, <1>14, <1>15, <1>16, <1>18, <1>19, <1>20, <1>21, <1>22 DEF IInv

\* A buffer that nobody in the model has had before.
LEMMA RecycleForeignHolds ==
  ASSUME IInv, NEW length, NEW size \in Keys, NEW compatible \in BOOLEAN,
         RecycleForeign(length, size, compatible)
  PROVE  IInv'
<1> DEFINE n == Len(content)
           p == "upload"
           d == Recycled(pool[p], length, size, compatible, n + 1)
<1>1. /\ Typed /\ n \in Nat /\ n + 1 \in Nat /\ p \in Pools /\ Sound(pool[p])
      /\ content \in Seq(Nat) /\ staged \in Seq(Nat) /\ Len(staged) = n
      /\ n + 1 \notin 1..n
  BY DEF IInv, Typed, PoolsSound, Pools
<1>2. /\ \A q \in Pools : n + 1 \notin Retained(pool[q])
      /\ \A b \in Batch : n + 1 \notin Buffers(batch[b].held)
      /\ \A o \in orphans : n + 1 \notin Buffers(o.held)
  BY <1>1 DEF IInv, AllCreated
<1>3. /\ Sound(d) /\ Retained(d) \subseteq Retained(pool[p]) \cup {n + 1}
      /\ length # size => n + 1 \notin Retained(d)
      /\ d.resources + d.discards = pool[p].resources + pool[p].discards + 1
      /\ d.allocations = pool[p].allocations /\ d.reuses = pool[p].reuses
  <2>1. n + 1 \in Nat /\ Sound(pool[p]) /\ n + 1 \notin Retained(pool[p])
    BY <1>1, <1>2
  <2> DEFINE x == n + 1
             c == pool[p]
  <2> HIDE DEF n, p, x, c
  <2>2. x \in Nat /\ Sound(c) /\ x \notin Retained(c) /\ d = Recycled(c, length, size, compatible, x)
    BY <2>1 DEF x, c
  <2> HIDE DEF d
  <2>3. /\ Sound(d) /\ Retained(d) \subseteq Retained(c) \cup {x}
        /\ length # size => x \notin Retained(d)
        /\ d.resources + d.discards = c.resources + c.discards + 1
        /\ d.allocations = c.allocations /\ d.reuses = c.reuses
    BY <2>2, RecycledSound
  <2> QED BY <2>3 DEF x, c
<1>4. /\ pool' = [pool EXCEPT ![p] = d]
      /\ misfiled' = (misfiled \/ (length # size /\ n + 1 \in Retained(pool'[p])))
      /\ foreign' = [foreign EXCEPT ![p] = foreign[p] + 1]
      /\ content' = Append(content, 0) /\ staged' = Append(staged, 0)
      /\ UNCHANGED <<batch, orphans, acquires, misread, lost>>
  BY DEF RecycleForeign, Return
<1> HIDE DEF d
<1>5. /\ content' \in Seq(Nat) /\ staged' \in Seq(Nat)
      /\ Len(content') = n + 1 /\ Len(staged') = n + 1
      /\ \A y \in 1..n : content'[y] = content[y] /\ staged'[y] = staged[y]
  BY <1>1, <1>4
<1>6. 1..n \subseteq 1..(n + 1) /\ n + 1 \in 1..(n + 1)
  BY <1>1
<1> HIDE DEF n
<1>7. /\ pool' \in [Pools -> PoolType] /\ pool'[p] = d
      /\ \A q \in Pools : q # p => pool'[q] = pool[q]
  <2>1. d \in PoolType
    BY <1>3 DEF Sound
  <2> QED BY <2>1, <1>1, <1>4 DEF Typed
<1>8. /\ foreign' \in [Pools -> Nat] /\ foreign'[p] = foreign[p] + 1 /\ foreign[p] \in Nat
      /\ \A q \in Pools : q # p => foreign'[q] = foreign[q]
  BY <1>1, <1>4 DEF Typed
<1>9. Typed'
  <2>1. misfiled' \in BOOLEAN
    BY <1>4
  <2> QED BY <2>1, <1>1, <1>4, <1>5, <1>7, <1>8 DEF Typed
<1>10. PoolsSound' /\ BatchesFormed'
  BY <1>3, <1>4, <1>7 DEF IInv, PoolsSound, BatchesFormed
<1>11. \A q \in Pools : Retained(pool'[q]) \subseteq Retained(pool[q]) \cup {n + 1}
                        /\ (q # p => Retained(pool'[q]) = Retained(pool[q]))
  BY <1>3, <1>7
<1>12. AllCreated'
  <2>1. \A q \in Pools : Retained(pool'[q]) \subseteq 1..(n + 1)
    BY <1>6, <1>11 DEF IInv, AllCreated, n
  <2>2. \A b \in Batch : Buffers(batch[b].held) \subseteq 1..(n + 1)
    BY <1>6 DEF IInv, AllCreated, n
  <2>3. \A o \in orphans : Buffers(o.held) \subseteq 1..(n + 1)
    BY <1>6 DEF IInv, AllCreated, n
  <2> QED BY <2>1, <2>2, <2>3, <1>4, <1>5 DEF AllCreated
<1>13. Apart'
  <2>1. Retained(pool'["scratch"]) \cap Retained(pool'["upload"]) = {}
    BY <1>2, <1>11 DEF IInv, Apart, Pools
  <2>2. \A q \in Pools : \A b \in Batch : Retained(pool'[q]) \cap Buffers(batch[b].held) = {}
    BY <1>2, <1>11 DEF IInv, Apart
  <2>3. \A q \in Pools : \A o \in orphans : Retained(pool'[q]) \cap Buffers(o.held) = {}
    BY <1>2, <1>11 DEF IInv, Apart
  <2> QED BY <2>1, <2>2, <2>3, <1>4 DEF IInv, Apart
<1>14. Fresh'
  <2>1. \A y \in 1..n : LandedAll'[y] = LandedAll[y]
    BY <1>5, <1>6 DEF LandedAll, Landed, n
  <2>2. ASSUME NEW b \in Batch PROVE Reads(batch[b], LandedAll')
    <3>1. \A y \in Buffers(batch[b].held) : LandedAll'[y] = LandedAll[y]
      BY <2>1 DEF IInv, AllCreated, n
    <3> QED BY <3>1, ReadsSame DEF IInv, Fresh
  <2>3. ASSUME NEW o \in orphans PROVE Reads(o, LandedAll')
    <3>1. \A y \in Buffers(o.held) : LandedAll'[y] = LandedAll[y]
      BY <2>1 DEF IInv, AllCreated, n
    <3> QED BY <3>1, ReadsSame DEF IInv, Fresh
  <2> QED BY <2>2, <2>3, <1>4 DEF Fresh
<1>15. \A q \in Pools : Conserved(q)'
  <2> SUFFICES ASSUME NEW q \in Pools PROVE Conserved(q)'
    OBVIOUS
  <2>1. /\ Conserved(q) /\ Cardinality(Held(q)) \in Nat /\ Held(q)' = Held(q)
        /\ lost[q] \in Nat /\ lost' = lost
    BY <1>4, HeldFinite, HeldStays DEF IInv, Typed
  <2>2. CASE q # p
    BY <2>1, <2>2, <1>7, <1>8 DEF Conserved
  <2>3. CASE q = p
    <3>1. /\ pool[p].resources \in Nat /\ pool[p].discards \in Nat
          /\ d.resources \in Nat /\ d.discards \in Nat /\ pool[p].allocations \in Nat
      BY <1>1, <1>3 DEF Sound, PoolType
    <3>2. /\ pool[p].allocations + foreign[p]
                = pool[p].resources + Cardinality(Held(p)) + pool[p].discards + lost[p]
          /\ d.resources + d.discards = pool[p].resources + pool[p].discards + 1
          /\ d.allocations = pool[p].allocations /\ foreign'[p] = foreign[p] + 1
      BY <2>1, <2>3, <1>3, <1>8 DEF Conserved
    <3>3. d.allocations + foreign'[p]
             = d.resources + Cardinality(Held(p)) + d.discards + lost[p]
      BY <3>1, <3>2, <2>1, <2>3, <1>8
    <3> QED BY <3>3, <2>1, <2>3, <1>7 DEF Conserved
  <2> QED BY <2>2, <2>3
<1>16. AcquiresCounted'
  <2>1. \A q \in Pools : pool'[q].allocations = pool[q].allocations
                         /\ pool'[q].reuses = pool[q].reuses
    BY <1>3, <1>7
  <2> QED BY <2>1, <1>4 DEF IInv, AcquiresCounted, Pools
<1>17. ~misread' /\ ~misfiled'
  BY <1>3, <1>4, <1>7 DEF IInv
<1> QED BY <1>9, <1>10, <1>12, <1>13, <1>14, <1>15, <1>16, <1>17 DEF IInv

LEMMA AbandonHolds ==
  ASSUME IInv, NEW b \in Batch, Abandon(b)
  PROVE  IInv'
<1> DEFINE p == batch[b].pool
           items == batch[b].held
<1>1. Typed /\ batch[b] \in BatchType /\ items \in Seq(Item) /\ items # <<>>
  BY BatchFields DEF IInv, Abandon
<1>2. HeldOnce(items) /\ p \in Pools
  BY <1>1, BatchFields DEF IInv, BatchesFormed, WellFormed
<1>3. /\ batch' = [batch EXCEPT ![b] = Idle] /\ orphans' \subseteq orphans \cup {batch[b]}
      /\ lost' = [lost EXCEPT ![p] = lost[p] + Len(items)]
      /\ UNCHANGED <<pool, staged, content, acquires, foreign, misread, misfiled>>
  BY DEF Abandon
<1>4. Idle \in BatchType /\ Idle.held = <<>> /\ Idle.pool = "none" /\ ~Idle.open /\ ~Idle.recycling
  BY DEF Idle, BatchType
<1>5. Buffers(<<>>) = {} /\ HeldOnce(<<>>)
  BY DEF Buffers, HeldOnce
<1>6. /\ batch' \in [Batch -> BatchType] /\ batch'[b] = Idle
      /\ \A c \in Batch : c # b => batch'[c] = batch[c]
      /\ Buffers(batch'[b].held) = {}
  BY <1>1, <1>3, <1>4, <1>5 DEF Typed
<1>7. IsFiniteSet(Buffers(items)) /\ Cardinality(Buffers(items)) = Len(items) /\ Len(items) \in Nat
  BY <1>1, <1>2, BuffersCount
<1>8. lost' \in [Pools -> Nat] /\ lost'[p] = lost[p] + Len(items) /\ lost[p] \in Nat
      /\ \A q \in Pools : q # p => lost'[q] = lost[q]
  BY <1>1, <1>2, <1>3, <1>7 DEF Typed
<1>9. Typed'
  <2>1. orphans' \in SUBSET BatchType
    BY <1>1, <1>3 DEF Typed
  <2> QED BY <2>1, <1>1, <1>3, <1>6, <1>8 DEF Typed
<1>10. BatchesFormed'
  BY <1>4, <1>5, <1>6 DEF IInv, BatchesFormed, WellFormed
<1>11. AllCreated'
  <2>1. \A c \in Batch : Buffers(batch'[c].held) \subseteq 1..Len(content)
    BY <1>6 DEF IInv, AllCreated
  <2>2. \A o \in orphans' : Buffers(o.held) \subseteq 1..Len(content)
    BY <1>3 DEF IInv, AllCreated
  <2> QED BY <2>1, <2>2, <1>3 DEF IInv, AllCreated
<1>12. Apart'
  <2>1. Retained(pool["scratch"]) \cap Retained(pool["upload"]) = {}
    BY DEF IInv, Apart
  <2>2. \A q \in Pools : \A c \in Batch :
           Retained(pool[q]) \cap Buffers(batch'[c].held) = {}
    BY <1>6 DEF IInv, Apart
  <2>3. \A q \in Pools : \A o \in orphans' : Retained(pool[q]) \cap Buffers(o.held) = {}
    BY <1>3 DEF IInv, Apart
  <2>4. \A c, d \in Batch :
           c # d => Buffers(batch'[c].held) \cap Buffers(batch'[d].held) = {}
    BY <1>6 DEF IInv, Apart
  <2>5. \A o \in orphans', c \in Batch : Buffers(o.held) \cap Buffers(batch'[c].held) = {}
    BY <1>3, <1>6 DEF IInv, Apart
  <2>6. \A o, q \in orphans' : o # q => Buffers(o.held) \cap Buffers(q.held) = {}
    BY <1>3 DEF IInv, Apart
  <2> QED BY <2>1, <2>2, <2>3, <2>4, <2>5, <2>6, <1>3 DEF Apart
<1>13. Fresh'
  <2>1. LandedAll' = LandedAll
    BY <1>3 DEF LandedAll, Landed
  <2>2. Reads(Idle, LandedAll)
    BY <1>4 DEF Reads
  <2>3. \A c \in Batch : Reads(batch'[c], LandedAll)
    BY <2>2, <1>6 DEF IInv, Fresh
  <2>4. \A o \in orphans' : Reads(o, LandedAll)
    BY <1>3 DEF IInv, Fresh
  <2> QED BY <2>1, <2>3, <2>4 DEF Fresh
<1>14. \A q \in Pools : Conserved(q)'
  <2> SUFFICES ASSUME NEW q \in Pools PROVE Conserved(q)'
    OBVIOUS
  <2>1. Conserved(q) /\ IsFiniteSet(Held(q)) /\ Cardinality(Held(q)) \in Nat
    BY HeldFinite DEF IInv
  <2>2. CASE q # p
    <3>1. Held(q)' = Held(q)
      <4>1. \A c \in Batch : \A y : batch'[c].pool = q /\ y \in Buffers(batch'[c].held)
                                <=> batch[c].pool = q /\ y \in Buffers(batch[c].held)
        BY <2>2, <1>6
      <4> QED BY <4>1 DEF Held
    <3> QED BY <3>1, <2>1, <2>2, <1>3, <1>8 DEF Conserved
  <2>3. CASE q = p
    <3>1. Held(q)' = Held(q) \ Buffers(items)
      <4>1. \A c \in Batch : c # b => Buffers(items) \cap Buffers(batch[c].held) = {}
        BY DEF IInv, Apart
      <4>2. \A c \in Batch : \A y : batch'[c].pool = q /\ y \in Buffers(batch'[c].held)
               <=> batch[c].pool = q /\ y \in Buffers(batch[c].held) /\ y \notin Buffers(items)
        BY <2>3, <4>1, <1>6
      <4> HIDE DEF p, items
      <4> QED BY <4>2 DEF Held
    <3>2. Buffers(items) \subseteq Held(q)
      BY <2>3, HeldIs
    <3>3. Cardinality(Held(q)') = Cardinality(Held(q)) - Len(items)
      <4>1. Held(q) \cap Buffers(items) = Buffers(items)
        BY <3>2
      <4>2. Cardinality(Held(q) \ Buffers(items))
              = Cardinality(Held(q)) - Cardinality(Held(q) \cap Buffers(items))
        BY <2>1, FS_Difference
      <4> QED BY <4>1, <4>2, <3>1, <1>7
    <3>4. /\ pool[q].allocations \in Nat /\ pool[q].resources \in Nat
          /\ pool[q].discards \in Nat
      BY <1>1 DEF Typed, PoolType
    <3>5. pool[q].allocations + foreign[q] =
             pool[q].resources + Cardinality(Held(q)) + pool[q].discards + lost[q]
      BY <2>1 DEF Conserved
    <3>6. /\ lost'[q] = lost[q] + Len(items) /\ lost[q] \in Nat
          /\ foreign'[q] = foreign[q] /\ foreign[q] \in Nat
      BY <2>3, <1>1, <1>3, <1>8 DEF Typed
    <3> HIDE DEF items
    <3>7. pool[q].allocations + foreign[q] = pool[q].resources + (Cardinality(Held(q)) - Len(items))
                                + pool[q].discards + (lost[q] + Len(items))
      <4> DEFINE a == pool[q].allocations
                 f == foreign[q]
                 r == pool[q].resources
                 h == Cardinality(Held(q))
                 d == pool[q].discards
                 l == lost[q]
                 k == Len(items)
      <4>1. /\ a \in Nat /\ r \in Nat /\ h \in Nat /\ d \in Nat /\ l \in Nat
            /\ k \in Nat /\ f \in Nat
        BY <2>1, <3>4, <3>6, <1>7
      <4>2. a + f = r + h + d + l
        BY <3>5
      <4> HIDE DEF a, f, r, h, d, l, k
      <4>3. a + f = r + (h - k) + d + (l + k)
        BY <4>1, <4>2
      <4> QED BY <4>3 DEF a, f, r, h, d, l, k
    <3>8. pool'[q].allocations + foreign'[q] = pool'[q].resources + Cardinality(Held(q)')
                                 + pool'[q].discards + lost'[q]
      BY <3>3, <3>6, <3>7, <1>3
    <3> QED BY <3>8 DEF Conserved
  <2> QED BY <2>2, <2>3
<1> QED BY <1>3, <1>9, <1>10, <1>11, <1>12, <1>13, <1>14
        DEF IInv, PoolsSound, AcquiresCounted

-----------------------------------------------------------------------------
(* The theorems *)

LEMMA StutterHolds ==
  ASSUME IInv, UNCHANGED vars
  PROVE  IInv'
<1>1. UNCHANGED <<pool, batch, orphans, staged, content, acquires, foreign, misread, misfiled, lost>>
  BY DEF vars
<1>2. \A p \in Pools : Held(p)' = Held(p)
  BY <1>1 DEF Held
<1>3. LandedAll' = LandedAll
  BY <1>1 DEF LandedAll, Landed
<1> QED BY <1>1, <1>2, <1>3
        DEF IInv, Typed, PoolsSound, BatchesFormed, AllCreated, Apart, Fresh, Conserved,
            AcquiresCounted

\* Every step keeps the invariant.
THEOREM SpecInvariant == Spec => []IInv
<1>1. Init => IInv
  BY InitHolds
<1>2. IInv /\ [Next]_vars => IInv'
  <2> SUFFICES ASSUME IInv, [Next]_vars PROVE IInv'
    OBVIOUS
  <2>1. ASSUME NEW b \in Batch, NEW p \in Pools, NEW size \in Sizes, Acquire(b, p, size)
        PROVE  IInv'
    BY <2>1, AcquireHolds
  <2>2. ASSUME NEW b \in Batch, Encode(b) PROVE IInv'
    BY <2>2, EncodeHolds
  <2>3. ASSUME NEW b \in Batch, Submit(b) PROVE IInv'
    BY <2>3, SubmitHolds
  <2>4. ASSUME NEW b \in Batch, GiveUp(b) PROVE IInv'
    BY <2>4, GiveUpHolds
  <2>5. ASSUME NEW b \in Batch, Recycle(b) PROVE IInv'
    BY <2>5, RecycleHolds
  <2>6. ASSUME NEW b \in Batch, Abandon(b) PROVE IInv'
    BY <2>6, AbandonHolds
  <2>7. ASSUME NEW o \in orphans, SubmitOrphan(o) PROVE IInv'
    BY <2>7, SubmitOrphanHolds
  <2>8. ASSUME NEW o \in orphans, DropOrphan(o) PROVE IInv'
    BY <2>8, DropOrphanHolds
  <2>9. ASSUME NEW p \in Pools, ClearPool(p) PROVE IInv'
    BY <2>9, ClearPoolHolds
  <2>10. ASSUME NEW p \in Pools, NEW budget \in Budgets, SetBudget(p, budget) PROVE IInv'
    BY <2>10, SetBudgetHolds
  <2>11. CASE UNCHANGED vars
    BY <2>11, StutterHolds
  <2>12. ASSUME NEW length, NEW size \in Keys, NEW compatible \in BOOLEAN,
                RecycleForeign(length, size, compatible)
         PROVE  IInv'
    BY <2>12, RecycleForeignHolds
  <2> QED BY <2>1, <2>2, <2>3, <2>4, <2>5, <2>6, <2>7, <2>8, <2>9, <2>10, <2>11, <2>12 DEF Next
<1> QED BY <1>1, <1>2, PTL DEF Spec

\* For any users, sizes and budgets, what a pool retains is what its counters
\* say, each buffer under its own size, within its budget and the limit per size,
\* and no buffer it created or was given is unaccounted for, whatever length a
\* caller claims for it.
THEOREM RetentionIsExact == Spec => []RetentionExact
<1>1. IInv => RetentionExact
  BY InvImplies
<1> QED BY <1>1, SpecInvariant, PTL

\* No buffer has two users among pools, batches and encoders, and no command
\* ever reads what another batch uploaded.
THEOREM OneUserPerBuffer == Spec => []BuffersHaveOneUser
<1>1. IInv => BuffersHaveOneUser
  BY InvImplies
<1> QED BY <1>1, SpecInvariant, PTL

-----------------------------------------------------------------------------
(* Where buffers go *)

\* The buffers of a pool that it retains or has handed out.
Reach(p) == Retained(pool[p]) \cup Held(p)

\* No pool comes to own, by any step, a buffer that exists already and is not
\* its own: buffers never change pools, and what was discarded, cleared or
\* abandoned with its batch is never retained or handed out again, although an
\* encoder may still use it.
BuffersKeepTheirPool ==
    \A p \in Pools : Reach(p)' \cap (1..Len(content)) \subseteq Reach(p)

LEMMA ReachIs ==
  ASSUME NEW p, NEW x
  PROVE  x \in Reach(p) <=> \/ x \in Retained(pool[p])
                            \/ \E b \in Batch : batch[b].pool = p /\ x \in Buffers(batch[b].held)
BY HeldIs DEF Reach

LEMMA NothingOfNothing == Buffers(<<>>) = {}
BY DEF Buffers

\* Steps in which no batch and no pool gains a buffer.
LEMMA ReachShrinks ==
  ASSUME \A p \in Pools : Retained(pool'[p]) \subseteq Retained(pool[p]),
         \A b \in Batch : \/ batch'[b].pool = batch[b].pool /\ batch'[b].held = batch[b].held
                          \/ batch'[b].held = <<>>
  PROVE  BuffersKeepTheirPool
<1> SUFFICES ASSUME NEW p \in Pools, NEW x \in Reach(p)' PROVE x \in Reach(p)
  BY DEF BuffersKeepTheirPool
<1>1. \/ x \in Retained(pool'[p])
      \/ \E b \in Batch : batch'[b].pool = p /\ x \in Buffers(batch'[b].held)
  BY DEF Reach, Held
<1>2. CASE x \in Retained(pool'[p])
  BY <1>2, ReachIs
<1>3. ASSUME NEW b \in Batch, batch'[b].pool = p, x \in Buffers(batch'[b].held)
      PROVE  x \in Reach(p)
  <2>1. batch'[b].held # <<>>
    BY <1>3, NothingOfNothing
  <2> QED BY <1>3, <2>1, ReachIs
<1> QED BY <1>1, <1>2, <1>3

LEMMA AcquireReaches ==
  ASSUME IInv, NEW b \in Batch, NEW p \in Pools, NEW size \in Sizes, Acquire(b, p, size)
  PROVE  BuffersKeepTheirPool
<1>1. PICK x \in Nat : Takes(b, p, size, x)
  BY AcquireTakes
<1> DEFINE item == [buffer |-> x, size |-> Bytes(size), tag |-> acquires + 1]
           e == Holding(batch[b], p, item)
<1>2. /\ Typed /\ batch[b] \in BatchType /\ batch[b].held \in Seq(Item) /\ acquires \in Nat
      /\ batch[b].pool \in {"none", p}
      /\ batch[b].pool = "none" <=> batch[b].held = <<>>
  BY BatchFields DEF IInv, Typed, BatchesFormed, WellFormed, Acquire
<1>3. item \in Item /\ item.buffer = x
  <2>1. acquires + 1 \in Nat /\ Bytes(size) \in Keys
    BY <1>2 DEF Keys
  <2> QED BY <2>1 DEF Item
<1> HIDE DEF item
<1>4. e.pool = p /\ e.held = Append(batch[b].held, item)
  BY <1>2 DEF Holding, BatchType
<1>5. batch' = [batch EXCEPT ![b] = e]
  BY <1>1 DEF Takes, item
<1> HIDE DEF e
<1>6. batch'[b] = e /\ \A c \in Batch : c # b => batch'[c] = batch[c]
  BY <1>2, <1>5 DEF Typed
<1>7. Buffers(e.held) = Buffers(batch[b].held) \cup {x}
  BY <1>2, <1>3, <1>4, BuffersOfAppend
<1>8. /\ x \in Retained(pool[p]) \/ x \notin 1..Len(content)
      /\ \A q \in Pools : Retained(pool'[q]) \subseteq Retained(pool[q])
  BY <1>1 DEF Takes
<1>9. ASSUME NEW q \in Pools, NEW y \in 1..Len(content), y \in Reach(q)' PROVE y \in Reach(q)
  <2>1. \/ y \in Retained(pool'[q])
        \/ \E c \in Batch : batch'[c].pool = q /\ y \in Buffers(batch'[c].held)
    BY <1>9 DEF Reach, Held
  <2>2. CASE y \in Retained(pool'[q])
    BY <2>2, <1>8, ReachIs
  <2>3. ASSUME NEW c \in Batch, batch'[c].pool = q, y \in Buffers(batch'[c].held)
        PROVE  y \in Reach(q)
    <3>1. CASE c # b
      BY <3>1, <2>3, <1>6, ReachIs
    <3>2. CASE c = b
      <4>1. q = p /\ y \in Buffers(batch[b].held) \cup {x}
        BY <3>2, <2>3, <1>4, <1>6, <1>7
      <4>2. CASE y = x
        BY <4>1, <4>2, <1>8, <1>9, ReachIs
      <4>3. CASE y \in Buffers(batch[b].held)
        <5>1. batch[b].pool = p
          BY <4>3, <1>2, NothingOfNothing
        <5> QED BY <4>1, <4>3, <5>1, ReachIs
      <4> QED BY <4>1, <4>2, <4>3
    <3> QED BY <3>1, <3>2
  <2> QED BY <2>1, <2>2, <2>3
<1> QED BY <1>9 DEF BuffersKeepTheirPool

LEMMA RecycleReaches ==
  ASSUME IInv, NEW b \in Batch, Recycle(b)
  PROVE  BuffersKeepTheirPool
<1> DEFINE p == batch[b].pool
           items == batch[b].held
           item == Head(items)
           rest == Tail(items)
           x == item.buffer
           e == IF rest = <<>> THEN Idle ELSE [batch[b] EXCEPT !.held = rest]
<1>1. Typed /\ batch[b] \in BatchType /\ items \in Seq(Item) /\ batch[b].recycling
  BY BatchFields DEF IInv, Recycle
<1>2. items # <<>> /\ HeldOnce(items) /\ p \in Pools
  BY <1>1, BatchFields DEF IInv, BatchesFormed, WellFormed
<1>3. /\ item \in Item /\ rest \in Seq(Item)
      /\ Buffers(rest) = Buffers(items) \ {x} /\ x \in Buffers(items)
  BY <1>1, <1>2, BuffersOfTail
<1>4. item.size \in Keys /\ x \in Nat
  BY <1>3 DEF Item
<1>5. PICK length : /\ pool' = [pool EXCEPT ![p] =
                                   Recycled(pool[p], length, item.size, TRUE, x)]
                    /\ batch' = [batch EXCEPT ![b] = e]
  BY DEF Recycle, Return
<1> DEFINE d == Recycled(pool[p], length, item.size, TRUE, x)
<1>6. e.held = <<>> \/ (e.pool = p /\ e.held = rest)
  BY <1>1 DEF Idle, BatchType
<1>7. x \notin Retained(pool[p])
  BY <1>2, <1>3 DEF IInv, Apart
<1>8. Retained(d) \subseteq Retained(pool[p]) \cup {x}
  BY <1>2, <1>4, <1>7, RecycledSound DEF IInv, PoolsSound
<1>14. pool' = [pool EXCEPT ![p] = d] /\ batch' = [batch EXCEPT ![b] = e]
  BY <1>5
<1> HIDE DEF d, e, rest, x, item, p, items
<1>9. /\ pool'[p] = d /\ \A q \in Pools : q # p => pool'[q] = pool[q]
      /\ batch'[b] = e /\ \A c \in Batch : c # b => batch'[c] = batch[c]
  BY <1>1, <1>2, <1>14 DEF Typed
<1>10. x \in Reach(p)
  BY <1>3, ReachIs DEF p, items
<1> SUFFICES ASSUME NEW q \in Pools, NEW y \in Reach(q)' PROVE y \in Reach(q)
  BY DEF BuffersKeepTheirPool
<1>11. \/ y \in Retained(pool'[q])
       \/ \E c \in Batch : batch'[c].pool = q /\ y \in Buffers(batch'[c].held)
  BY DEF Reach, Held
<1>12. CASE y \in Retained(pool'[q])
  <2>1. CASE q = p
    BY <2>1, <1>8, <1>9, <1>10, <1>12, ReachIs
  <2>2. CASE q # p
    BY <2>2, <1>9, <1>12, ReachIs
  <2> QED BY <2>1, <2>2
<1>13. ASSUME NEW c \in Batch, batch'[c].pool = q, y \in Buffers(batch'[c].held)
       PROVE  y \in Reach(q)
  <2>1. CASE c # b
    BY <2>1, <1>9, <1>13, ReachIs
  <2>2. CASE c = b
    <3>1. q = p /\ y \in Buffers(items)
      BY <2>2, <1>3, <1>6, <1>9, <1>13, NothingOfNothing
    <3> QED BY <3>1, ReachIs DEF p, items
  <2> QED BY <2>1, <2>2
<1> QED BY <1>11, <1>12, <1>13

LEMMA ForeignReaches ==
  ASSUME IInv, NEW length, NEW size \in Keys, NEW compatible \in BOOLEAN,
         RecycleForeign(length, size, compatible)
  PROVE  BuffersKeepTheirPool
<1> DEFINE n == Len(content)
           d == Recycled(pool["upload"], length, size, compatible, n + 1)
<1>1. /\ Typed /\ n \in Nat /\ n + 1 \in Nat /\ Sound(pool["upload"]) /\ n + 1 \notin 1..n
      /\ n + 1 \notin Retained(pool["upload"])
  BY DEF IInv, Typed, PoolsSound, Pools, AllCreated
<1>2. Retained(d) \subseteq Retained(pool["upload"]) \cup {n + 1}
  BY <1>1, RecycledSound
<1>3. pool' = [pool EXCEPT !["upload"] = d] /\ batch' = batch
  BY DEF RecycleForeign, Return
<1> HIDE DEF d, n
<1>4. \A q \in Pools : Retained(pool'[q]) \subseteq Retained(pool[q]) \cup {n + 1}
  BY <1>1, <1>2, <1>3 DEF Typed
<1>5. \A q \in Pools : Held(q)' = Held(q)
  BY <1>3 DEF Held
<1>6. \A q \in Pools : Reach(q)' \subseteq Reach(q) \cup {n + 1}
  BY <1>4, <1>5 DEF Reach
<1> QED BY <1>1, <1>6 DEF BuffersKeepTheirPool, n

\* For any users, sizes and budgets: no pool reuses a buffer that it has let go
\* or that another pool created (scratch.rs's abandoned_encoder test, for every
\* order of submissions, errors and clears).
THEOREM BuffersNeverReturn == Spec => [][BuffersKeepTheirPool]_vars
<1>1. IInv /\ [Next]_vars => [BuffersKeepTheirPool]_vars
  <2> SUFFICES ASSUME IInv, Next PROVE BuffersKeepTheirPool
    OBVIOUS
  <2>1. ASSUME NEW b \in Batch, NEW p \in Pools, NEW size \in Sizes, Acquire(b, p, size)
        PROVE  BuffersKeepTheirPool
    BY <2>1, AcquireReaches
  <2>2. ASSUME NEW b \in Batch, Recycle(b) PROVE BuffersKeepTheirPool
    BY <2>2, RecycleReaches
  <2>3. ASSUME NEW b \in Batch, Encode(b) \/ Submit(b) \/ GiveUp(b) \/ Abandon(b)
        PROVE  BuffersKeepTheirPool
    <3>1. batch \in [Batch -> BatchType]
      BY DEF IInv, Typed
    <3>2. pool' = pool
      BY <2>3 DEF Encode, Submit, GiveUp, Abandon
    <3>3. \A c \in Batch : c # b => batch'[c] = batch[c]
      BY <2>3, <3>1 DEF Encode, Submit, GiveUp, Abandon
    <3>4. \/ batch'[b].pool = batch[b].pool /\ batch'[b].held = batch[b].held
          \/ batch'[b].held = <<>>
      BY <2>3, <3>1 DEF Encode, Submit, GiveUp, Abandon, BatchType, Idle
    <3> QED BY <3>2, <3>3, <3>4, ReachShrinks
  <2>4. ASSUME NEW o \in orphans, SubmitOrphan(o) \/ DropOrphan(o) PROVE BuffersKeepTheirPool
    BY <2>4, ReachShrinks DEF SubmitOrphan, DropOrphan
  <2>5. ASSUME NEW p \in Pools, NEW c, pool' = [pool EXCEPT ![p] = c], batch' = batch,
               Retained(c) \subseteq Retained(pool[p])
        PROVE  BuffersKeepTheirPool
    <3>1. \A q \in Pools : Retained(pool'[q]) \subseteq Retained(pool[q])
      BY <2>5 DEF IInv, Typed
    <3> QED BY <2>5, <3>1, ReachShrinks
  <2>6. ASSUME NEW p \in Pools, ClearPool(p) PROVE BuffersKeepTheirPool
    <3>1. pool[p] \in PoolType /\ pool' = [pool EXCEPT ![p] = Cleared(pool[p])] /\ batch' = batch
      BY <2>6 DEF ClearPool, IInv, Typed
    <3> QED BY <3>1, <2>5, ClearedSound
  <2>7. ASSUME NEW p \in Pools, NEW budget \in Budgets, SetBudget(p, budget)
        PROVE  BuffersKeepTheirPool
    <3> DEFINE c == [pool[p] EXCEPT !.budget = budget]
               d == IF c.bytes > budget THEN Cleared(c) ELSE c
    <3>1. pool[p] \in PoolType /\ budget \in Nat
      BY PoolAssumption DEF IInv, Typed
    <3>2. c \in PoolType /\ c.free = pool[p].free
      BY <3>1 DEF PoolType
    <3>3. pool' = [pool EXCEPT ![p] = d] /\ batch' = batch
      BY <2>7 DEF SetBudget
    <3> HIDE DEF c
    <3>4. Retained(c) = Retained(pool[p])
      BY <3>2, SameFree
    <3>5. Retained(d) \subseteq Retained(pool[p])
      BY <3>2, <3>4, ClearedSound
    <3> HIDE DEF d
    <3> QED BY <3>3, <3>5, <2>5
  <2>8. ASSUME NEW length, NEW size \in Keys, NEW compatible \in BOOLEAN,
               RecycleForeign(length, size, compatible)
        PROVE  BuffersKeepTheirPool
    BY <2>8, ForeignReaches
  <2> QED BY <2>1, <2>2, <2>3, <2>4, <2>6, <2>7, <2>8 DEF Next
<1> QED BY <1>1, SpecInvariant, PTL DEF Spec
=============================================================================

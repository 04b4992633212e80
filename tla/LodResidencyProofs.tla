-------------------------- MODULE LodResidencyProofs --------------------------
(***************************************************************************)
(* Proofs about LodResidency for any nodes, leases, chunks and budgets:    *)
(* a node in flight has one lease, host bytes are counted until the end of *)
(* a lease, the cache's running totals are exact and within its budgets,   *)
(* no frame leases more upload bytes than it may, and an eviction has one  *)
(* outcome.                                                                *)
(***************************************************************************)
EXTENDS LodResidency, ByteSumProofs, WellFoundedInduction

\* What is admitted counts for the frame under way; later frames are untouched.
LedgerOfThisFrame ==
    /\ uploaded[generation] = admitted
    /\ \A g \in 0..MaxFrame : g > generation => uploaded[g] = 0

IInv ==
    /\ TypeOK
    /\ InFlightHasOneLease /\ HostBytesAreLeased
    /\ CacheTotalsExact
    /\ LedgerOfThisFrame /\ UploadBudgetPerFrame

\* The part of TypeOK that is about the cache.
CacheTyped ==
    /\ DOMAIN residents \subseteq Node
    /\ \A n \in DOMAIN residents :
          residents[n] \in [points : 1..MaxPoints, gpu : 1..MaxGpu, used : 0..MaxFrame]
    /\ totals \in [points : 0..MaxPoints, gpu : 0..MaxGpu]

\* The rest of it.
SessionTyped ==
    /\ generation \in 0..MaxFrame
    /\ admitted \in 0..MaxUpload
    /\ in_flight \in SUBSET Node
    /\ host \in 0..MaxHost
    /\ stage \in [Lease -> {"none", "held", "admitted", "released", "dropped"}]
    /\ lease \in [Lease -> [node : Node \cup {0}, points : Nat, host : Nat, upload : Nat,
                            generation : 0..MaxFrame]]
    /\ cancelled \in [Lease -> BOOLEAN]
    /\ uploaded \in [0..MaxFrame -> Nat]

LEMMA TypeParts == TypeOK <=> SessionTyped /\ CacheTyped
BY DEF TypeOK, SessionTyped, CacheTyped

\* A lease that has not been released.
Holds(l) == stage[l] \in {"held", "admitted"}

LEMMA Constants ==
  /\ MaxPoints \in Nat /\ MaxHost \in Nat /\ MaxGpu \in Nat /\ MaxUpload \in Nat
  /\ MaxInFlight \in Nat /\ MaxFrame \in Nat
  /\ MaxPoints > 0 /\ MaxInFlight > 0
  /\ IsFiniteSet(Node) /\ IsFiniteSet(Lease)
  /\ GpuSizes \subseteq Nat /\ PointCounts \subseteq Nat
  /\ Chunks \subseteq [points : Nat \ {0}, host : Nat \ {0}, upload : Nat \ {0}]
BY LodAssumption

-----------------------------------------------------------------------------
(* The cache *)

\* What a total becomes when some members leave a set and another joins it.
LEMMA SumReplaced ==
  ASSUME NEW D, IsFiniteSet(D), NEW gone \in SUBSET D, NEW n, n \notin D,
         NEW f, NEW g, \A k \in D : f[k] \in Nat, g[n] \in Nat,
         \A k \in D \ gone : g[k] = f[k]
  PROVE  /\ Sum(g, (D \ gone) \cup {n}) = Sum(f, D) + g[n] - Sum(f, gone)
         /\ Sum(g, (D \ gone) \cup {n}) \in Nat
<1>1. /\ Sum(f, gone) \in Nat /\ Sum(f, D \ gone) \in Nat
      /\ Sum(f, D) = Sum(f, D \ gone) + Sum(f, gone)
  BY SumWithout
<1>2. IsFiniteSet(D \ gone) /\ \A k \in D \ gone : g[k] \in Nat
  BY FS_Subset
<1>3. Sum(g, (D \ gone) \cup {n}) = Sum(g, D \ gone) + g[n]
  BY <1>2, SumAdds
<1>4. Sum(g, D \ gone) = Sum(f, D \ gone)
  BY SumOfSame
<1> QED
  BY <1>1, <1>3, <1>4

LEMMA CacheIsFinite ==
  ASSUME IInv
  PROVE  /\ IsFiniteSet(DOMAIN residents)
         /\ \A n \in DOMAIN residents :
               /\ residents[n].points \in 1..MaxPoints /\ residents[n].points \in Nat
               /\ residents[n].gpu \in 1..MaxGpu /\ residents[n].gpu \in Nat
         /\ totals.points = ResidentPoints(DOMAIN residents)
         /\ totals.gpu = ResidentBytes(DOMAIN residents)
         /\ CacheTyped
<1>1. CacheTyped
  BY TypeParts DEF IInv
<1>2. IsFiniteSet(DOMAIN residents)
  BY <1>1, Constants, FS_Subset DEF CacheTyped
<1> QED
  BY <1>1, <1>2, Constants DEF CacheTyped, IInv, CacheTotalsExact

LEMMA TouchedKeeps ==
  ASSUME IInv, NEW n \in DOMAIN residents, NEW g \in 0..MaxFrame,
         residents' = Touched(n, g), totals' = totals
  PROVE  CacheTyped' /\ CacheTotalsExact'
<1>1. /\ DOMAIN residents' = DOMAIN residents
      /\ \A m \in DOMAIN residents :
            /\ residents'[m] \in [points : 1..MaxPoints, gpu : 1..MaxGpu, used : 0..MaxFrame]
            /\ residents'[m].points = residents[m].points
            /\ residents'[m].gpu = residents[m].gpu
  <2>1. ASSUME NEW m \in DOMAIN residents
        PROVE  /\ residents'[m] \in [points : 1..MaxPoints, gpu : 1..MaxGpu, used : 0..MaxFrame]
               /\ residents'[m].points = residents[m].points
               /\ residents'[m].gpu = residents[m].gpu
    <3>1. residents[m] \in [points : 1..MaxPoints, gpu : 1..MaxGpu, used : 0..MaxFrame]
      BY CacheIsFinite DEF CacheTyped
    <3>2. residents'[m] = IF m = n THEN [residents[m] EXCEPT !.used = g] ELSE residents[m]
      BY DEF Touched
    <3> QED
      BY <3>1, <3>2
  <2> QED
    BY <2>1 DEF Touched
<1>2. [m \in DOMAIN residents' |-> residents'[m].points] = [m \in DOMAIN residents |-> residents[m].points]
  BY <1>1
<1>3. [m \in DOMAIN residents' |-> residents'[m].gpu] = [m \in DOMAIN residents |-> residents[m].gpu]
  BY <1>1
<1>4. CacheTyped'
  BY <1>1, CacheIsFinite DEF CacheTyped
<1>5. CacheTotalsExact'
  BY <1>1, <1>2, <1>3 DEF IInv, CacheTotalsExact, ResidentPoints, ResidentBytes
<1> QED
  BY <1>4, <1>5

LEMMA AdmitNewKeeps ==
  ASSUME IInv, NEW n \in Node, n \notin DOMAIN residents, NEW points \in Nat, NEW gpu \in Nat,
         NEW g \in 0..MaxFrame, NEW protected, SizesFit(points, gpu),
         AdmitNew(n, points, gpu, g, protected)
  PROVE  CacheTyped' /\ CacheTotalsExact'
<1> DEFINE D == DOMAIN residents
<1>1. PICK gone \in SUBSET D :
        /\ Evicted(gone, points, gpu, protected)
        /\ totals' = TotalsWithout(gone, points, gpu)
        /\ residents' = [m \in (D \ gone) \cup {n} |->
                            IF m = n THEN [points |-> points, gpu |-> gpu, used |-> g]
                            ELSE residents[m]]
  BY DEF AdmitNew
<1> DEFINE p == [m \in D |-> residents[m].points]
           b == [m \in D |-> residents[m].gpu]
           pp == [m \in DOMAIN residents' |-> residents'[m].points]
           bb == [m \in DOMAIN residents' |-> residents'[m].gpu]
           E == (D \ gone) \cup {n}
<1>2. /\ IsFiniteSet(D) /\ n \notin D /\ D \subseteq Node
      /\ \A m \in D : p[m] \in Nat /\ b[m] \in Nat
      /\ totals.points = Sum(p, D) /\ totals.gpu = Sum(b, D)
      /\ \A m \in D : residents[m] \in [points : 1..MaxPoints, gpu : 1..MaxGpu, used : 0..MaxFrame]
  BY CacheIsFinite DEF CacheTyped, ResidentPoints, ResidentBytes
<1>3. /\ DOMAIN residents' = E /\ n \in E
      /\ residents'[n] = [points |-> points, gpu |-> gpu, used |-> g]
      /\ \A m \in D \ gone : residents'[m] = residents[m]
      /\ pp[n] = points /\ bb[n] = gpu
      /\ \A m \in D \ gone : pp[m] = p[m] /\ bb[m] = b[m]
  BY <1>1, <1>2
<1>4. points \in 1..MaxPoints /\ gpu \in 1..MaxGpu
  BY Constants DEF SizesFit
<1>5. \A m \in DOMAIN residents' :
         residents'[m] \in [points : 1..MaxPoints, gpu : 1..MaxGpu, used : 0..MaxFrame]
  BY <1>2, <1>3, <1>4
<1>6. totals' = [points |-> Sum(p, D) + points - Sum(p, gone), gpu |-> Sum(b, D) + gpu - Sum(b, gone)]
  BY <1>1, <1>2 DEF TotalsWithout, ResidentPoints, ResidentBytes
<1>7. totals'.points <= MaxPoints /\ totals'.gpu <= MaxGpu
  BY <1>1 DEF Evicted, FitsCache
<1> HIDE DEF D, p, b, pp, bb, E
<1>8. Sum(pp, E) = Sum(p, D) + points - Sum(p, gone) /\ Sum(pp, E) \in Nat
  <2>1. /\ pp[n] \in Nat /\ gone \in SUBSET D /\ \A m \in D : p[m] \in Nat
        /\ \A m \in D \ gone : pp[m] = p[m]
    BY <1>2, <1>3 DEF D
  <2>2. /\ Sum(pp, (D \ gone) \cup {n}) = Sum(p, D) + pp[n] - Sum(p, gone)
        /\ Sum(pp, (D \ gone) \cup {n}) \in Nat
    BY <1>2, <2>1, SumReplaced
  <2> QED
    BY <1>3, <2>2 DEF E
<1>9. Sum(bb, E) = Sum(b, D) + gpu - Sum(b, gone) /\ Sum(bb, E) \in Nat
  <2>1. /\ bb[n] \in Nat /\ gone \in SUBSET D /\ \A m \in D : b[m] \in Nat
        /\ \A m \in D \ gone : bb[m] = b[m]
    BY <1>2, <1>3 DEF D
  <2>2. /\ Sum(bb, (D \ gone) \cup {n}) = Sum(b, D) + bb[n] - Sum(b, gone)
        /\ Sum(bb, (D \ gone) \cup {n}) \in Nat
    BY <1>2, <2>1, SumReplaced
  <2> QED
    BY <1>3, <2>2 DEF E
<1>10. totals'.points = Sum(pp, E) /\ totals'.gpu = Sum(bb, E)
  BY <1>6, <1>8, <1>9
<1>11. CacheTotalsExact'
  BY <1>3, <1>7, <1>10 DEF CacheTotalsExact, ResidentPoints, ResidentBytes, pp, bb
<1>12. totals' \in [points : 0..MaxPoints, gpu : 0..MaxGpu]
  <2>1. totals'.points \in 0..MaxPoints /\ totals'.gpu \in 0..MaxGpu
    BY <1>7, <1>8, <1>9, <1>10, Constants
  <2>2. totals' = [points |-> totals'.points, gpu |-> totals'.gpu]
    BY <1>6
  <2> QED
    BY <2>1, <2>2
<1>13. CacheTyped'
  BY <1>2, <1>3, <1>5, <1>12 DEF CacheTyped, D, E
<1> QED
  BY <1>11, <1>13

LEMMA RemoveNodeKeeps ==
  ASSUME IInv, NEW n \in Node, RemoveNode(n)
  PROVE  CacheTyped' /\ CacheTotalsExact'
<1> DEFINE D == DOMAIN residents
           p == [m \in D |-> residents[m].points]
           b == [m \in D |-> residents[m].gpu]
           pp == [m \in DOMAIN residents' |-> residents'[m].points]
           bb == [m \in DOMAIN residents' |-> residents'[m].gpu]
<1>1. /\ IsFiniteSet(D) /\ n \in D /\ D \subseteq Node
      /\ \A m \in D : p[m] \in Nat /\ b[m] \in Nat
      /\ totals.points = Sum(p, D) /\ totals.gpu = Sum(b, D)
      /\ totals.points <= MaxPoints /\ totals.gpu <= MaxGpu
      /\ \A m \in D : residents[m] \in [points : 1..MaxPoints, gpu : 1..MaxGpu, used : 0..MaxFrame]
  BY CacheIsFinite DEF CacheTyped, ResidentPoints, ResidentBytes, RemoveNode, IInv, CacheTotalsExact
<1>2. /\ totals' = [points |-> totals.points - p[n], gpu |-> totals.gpu - b[n]]
      /\ DOMAIN residents' = D \ {n}
      /\ \A m \in D \ {n} : residents'[m] = residents[m] /\ pp[m] = p[m] /\ bb[m] = b[m]
  BY <1>1 DEF RemoveNode
<1> HIDE DEF D, p, b, pp, bb
<1>3. /\ Sum(p, D) = Sum(p, D \ {n}) + p[n] /\ Sum(p, D \ {n}) \in Nat /\ p[n] \in Nat
      /\ Sum(b, D) = Sum(b, D \ {n}) + b[n] /\ Sum(b, D \ {n}) \in Nat /\ b[n] \in Nat
  BY <1>1, SumRemoves
<1>4. Sum(pp, D \ {n}) = Sum(p, D \ {n}) /\ Sum(bb, D \ {n}) = Sum(b, D \ {n})
  BY <1>2, SumOfSame
<1>5. /\ totals'.points = Sum(pp, D \ {n}) /\ totals'.gpu = Sum(bb, D \ {n})
      /\ totals'.points \in 0..MaxPoints /\ totals'.gpu \in 0..MaxGpu
  BY <1>1, <1>2, <1>3, <1>4, Constants
<1>6. CacheTotalsExact'
  BY <1>2, <1>5, Constants DEF CacheTotalsExact, ResidentPoints, ResidentBytes, pp, bb
<1>7. totals' \in [points : 0..MaxPoints, gpu : 0..MaxGpu]
  <2>1. totals' = [points |-> totals'.points, gpu |-> totals'.gpu]
    BY <1>2
  <2> QED
    BY <1>5, <2>1
<1>8. CacheTyped'
  BY <1>1, <1>2, <1>7 DEF CacheTyped, D
<1> QED
  BY <1>6, <1>8

-----------------------------------------------------------------------------
(* The session and its leases *)

LEMMA PairInRange ==
  ASSUME NEW a \in Nat, NEW b \in Nat, NEW top, NEW n, n = a + b, a + b <= top, top \in Nat
  PROVE  n \in 0..top
OBVIOUS

\* The cache has no part in what a lease holds.
SessionSound ==
    /\ SessionTyped
    /\ InFlightHasOneLease /\ HostBytesAreLeased
    /\ LedgerOfThisFrame /\ UploadBudgetPerFrame

LEMMA InvariantParts == IInv <=> SessionSound /\ CacheTyped /\ CacheTotalsExact
BY TypeParts DEF IInv, SessionSound

LEMMA NextParts ==
  ASSUME SessionSound', CacheTyped', CacheTotalsExact'
  PROVE  IInv'
BY DEF IInv, SessionSound, TypeOK, SessionTyped, CacheTyped

LEMMA SessionFacts ==
  ASSUME IInv
  PROVE  /\ SessionTyped
         /\ Alive \in SUBSET Lease /\ IsFiniteSet(Alive)
         /\ \A l \in Lease : lease[l].host \in Nat /\ lease[l].points \in Nat
         /\ \A l \in Lease : Holds(l) => l \in Alive /\ lease[l].node \in Node
                                         /\ lease[l].node \in in_flight
         /\ IsFiniteSet(in_flight)
<1>1. SessionTyped
  BY TypeParts DEF IInv
<1>2. Alive \in SUBSET Lease /\ IsFiniteSet(Alive)
  BY Constants, FS_Subset DEF Alive
<1>3. IsFiniteSet(in_flight)
  BY <1>1, Constants, FS_Subset DEF SessionTyped
<1>4. \A l \in Lease : Holds(l) => l \in Alive /\ lease[l].node \in in_flight
  BY DEF Holds, Alive, IInv, InFlightHasOneLease
<1> QED
  BY <1>1, <1>2, <1>3, <1>4 DEF SessionTyped

\* Whatever leaves the session alone.
LEMMA SessionQuiet ==
  ASSUME IInv, UNCHANGED <<session, leases, uploaded>>
  PROVE  SessionSound'
<1> USE DEF session, leases
<1>1. UNCHANGED <<generation, admitted, in_flight, host, stage, lease, cancelled, uploaded, Alive>>
  BY DEF Alive
<1> QED
  BY <1>1, InvariantParts
     DEF SessionSound, SessionTyped, InFlightHasOneLease, HostBytesAreLeased, LedgerOfThisFrame,
         UploadBudgetPerFrame

LEMMA BeginFrameKeeps ==
  ASSUME IInv, NEW g \in 1..MaxFrame, BeginFrame(g)
  PROVE  SessionSound'
<1> USE DEF leases
<1>1. /\ generation' = g /\ g > generation /\ admitted' = 0
      /\ UNCHANGED <<in_flight, host, stage, lease, cancelled, uploaded, Alive>>
  BY DEF BeginFrame, IsNewFrame, Alive
<1>2. SessionTyped /\ g \in 0..MaxFrame /\ 0 \in 0..MaxUpload
  BY SessionFacts, Constants
<1>3. SessionTyped'
  BY <1>1, <1>2 DEF SessionTyped
<1>4. LedgerOfThisFrame'
  <2>1. \A h \in 0..MaxFrame : h > generation => uploaded[h] = 0
    BY DEF IInv, LedgerOfThisFrame
  <2>2. \A h \in 0..MaxFrame : h > g => h > generation
    BY <1>1, <1>2, Constants DEF SessionTyped
  <2> QED
    BY <1>1, <1>2, <2>1, <2>2 DEF LedgerOfThisFrame
<1> QED
  BY <1>1, <1>3, <1>4
     DEF IInv, SessionSound, InFlightHasOneLease, HostBytesAreLeased, UploadBudgetPerFrame

\* A lease that is taken: a new node in flight, held by a lease that was free.
LEMMA TryLeaseKeeps ==
  ASSUME IInv, NEW l \in Lease, NEW n \in Node, NEW chunk \in Chunks, TryLease(l, n, chunk)
  PROVE  SessionSound'
<1> DEFINE new == [node |-> n, points |-> chunk.points, host |-> chunk.host,
                   upload |-> chunk.upload, generation |-> generation]
<1>1. /\ stage[l] = "none" /\ n \notin in_flight /\ Cardinality(in_flight) < MaxInFlight
      /\ admitted + chunk.upload <= MaxUpload /\ host + chunk.host <= MaxHost
      /\ host' = host + chunk.host
      /\ in_flight' = in_flight \cup {n}
      /\ admitted' = admitted + chunk.upload
      /\ uploaded' = [uploaded EXCEPT ![generation] = @ + chunk.upload]
      /\ stage' = [stage EXCEPT ![l] = "held"]
      /\ lease' = [lease EXCEPT ![l] = new]
      /\ generation' = generation /\ cancelled' = cancelled
  BY DEF TryLease
<1>2. SessionTyped /\ IsFiniteSet(in_flight) /\ Alive \in SUBSET Lease /\ IsFiniteSet(Alive)
  BY SessionFacts
<1>3. /\ chunk.points \in Nat /\ chunk.host \in Nat /\ chunk.upload \in Nat
      /\ generation \in 0..MaxFrame /\ admitted \in Nat /\ host \in Nat
      /\ uploaded \in [0..MaxFrame -> Nat]
      /\ stage \in [Lease -> {"none", "held", "admitted", "released", "dropped"}]
      /\ DOMAIN lease = Lease
  BY <1>2, Constants DEF SessionTyped
<1>4. new \in [node : Node \cup {0}, points : Nat, host : Nat, upload : Nat, generation : 0..MaxFrame]
  BY <1>3
<1>5. /\ stage'[l] = "held" /\ lease'[l] = new
      /\ \A k \in Lease \ {l} : stage'[k] = stage[k] /\ lease'[k] = lease[k]
      /\ new.node = n /\ new.host = chunk.host
  BY <1>1, <1>3
<1>6. /\ uploaded'[generation] = uploaded[generation] + chunk.upload
      /\ \A g \in 0..MaxFrame : g # generation => uploaded'[g] = uploaded[g]
      /\ uploaded' \in [0..MaxFrame -> Nat]
  BY <1>1, <1>3
<1> HIDE DEF new
<1>7. SessionTyped'
  <2>1. admitted' \in 0..MaxUpload /\ host' \in 0..MaxHost
    BY <1>1, <1>3, Constants, PairInRange
  <2> QED
    BY <1>1, <1>2, <1>4, <1>6, <2>1 DEF SessionTyped
<1>8. Alive' = Alive \cup {l} /\ l \notin Alive
  BY <1>1, <1>5 DEF Alive
<1>9. HostBytesAreLeased'
  <2> DEFINE f == [k \in Lease |-> lease[k].host]
             g == [k \in Lease |-> lease'[k].host]
  <2>1. host = Sum(f, Alive) /\ \A k \in Alive : f[k] \in Nat
    BY <1>2, SessionFacts DEF IInv, HostBytesAreLeased
  <2>2. g[l] = chunk.host /\ \A k \in Alive : g[k] = f[k]
    BY <1>2, <1>5, <1>8
  <2> HIDE DEF f, g
  <2>3. Sum(g, Alive \cup {l}) = Sum(g, Alive) + g[l]
    <3>1. g[l] \in Nat /\ \A k \in Alive : g[k] \in Nat
      BY <1>3, <2>1, <2>2
    <3> QED
      BY <1>2, <1>8, <3>1, SumAdds
  <2>4. Sum(g, Alive) = Sum(f, Alive)
    BY <2>2, SumOfSame
  <2>5. host' = Sum(g, Alive')
    BY <1>1, <1>8, <2>1, <2>2, <2>3, <2>4
  <2> QED
    BY <2>5 DEF HostBytesAreLeased, g
<1>10. InFlightHasOneLease'
  <2>1. \A k \in Lease \ {l} : Holds(k)' <=> Holds(k)
    BY <1>5 DEF Holds
  <2>2. Holds(l)' /\ ~Holds(l)
    BY <1>1, <1>5 DEF Holds
  <2>3. \A m \in in_flight' : \E k \in Alive' : Holds(k)' /\ lease'[k].node = m
    <3>1. ASSUME NEW m \in in_flight PROVE \E k \in Alive' : Holds(k)' /\ lease'[k].node = m
      <4>1. PICK k \in Alive : Holds(k) /\ lease[k].node = m
        BY DEF IInv, InFlightHasOneLease, Holds
      <4> QED
        BY <1>2, <1>5, <1>8, <2>1, <2>2, <4>1
    <3> QED
      BY <1>1, <1>5, <1>8, <2>2, <3>1
  <2>4. \A k \in Alive' : Holds(k)' => lease'[k].node \in in_flight'
    BY <1>1, <1>2, <1>5, <1>8, <2>1, SessionFacts
  <2>5. ASSUME NEW j \in Alive', NEW k \in Alive', Holds(j)', Holds(k)',
               lease'[j].node = lease'[k].node
        PROVE  j = k
    <3>1. \A i \in Alive : i # l /\ (Holds(i)' => Holds(i) /\ lease'[i] = lease[i] /\ lease[i].node # n)
      BY <1>1, <1>2, <1>5, <1>8, <2>1, SessionFacts
    <3>2. CASE j \in Alive /\ k \in Alive
      BY <2>5, <3>1, <3>2 DEF IInv, InFlightHasOneLease, Holds
    <3> QED
      BY <1>5, <1>8, <2>5, <3>1, <3>2
  <2>6. Cardinality(in_flight') <= MaxInFlight
    <3>1. Cardinality(in_flight') = Cardinality(in_flight) + 1 /\ Cardinality(in_flight) \in Nat
      BY <1>1, <1>2, FS_AddElement, FS_CardinalityType
    <3> QED
      BY <1>1, <3>1, Constants
  <2> QED
    BY <2>3, <2>4, <2>5, <2>6 DEF InFlightHasOneLease, Holds
<1>11. LedgerOfThisFrame'
  BY <1>1, <1>3, <1>6 DEF IInv, LedgerOfThisFrame
<1>12. UploadBudgetPerFrame'
  BY <1>1, <1>3, <1>6 DEF IInv, LedgerOfThisFrame, UploadBudgetPerFrame
<1> QED
  BY <1>7, <1>9, <1>10, <1>11, <1>12 DEF SessionSound

\* A lease that moves on but stays alive: it goes on holding its node or takes
\* it out of flight.
LEMMA MovesOnKeeps ==
  ASSUME IInv, NEW l \in Lease, NEW next \in {"held", "admitted", "released", "dropped"},
         stage[l] # "none", stage' = [stage EXCEPT ![l] = next],
         cancelled' \in [Lease -> BOOLEAN],
         UNCHANGED <<generation, admitted, host, lease, uploaded>>,
         \/ in_flight' = in_flight /\ (Holds(l)' <=> Holds(l))
         \/ in_flight' = in_flight \ {lease[l].node} /\ Holds(l) /\ ~Holds(l)'
  PROVE  SessionSound'
<1>1. /\ SessionTyped /\ IsFiniteSet(in_flight) /\ Alive \in SUBSET Lease
      /\ stage \in [Lease -> {"none", "held", "admitted", "released", "dropped"}]
  BY SessionFacts DEF SessionTyped
<1>2. stage'[l] = next /\ \A k \in Lease \ {l} : stage'[k] = stage[k] /\ (Holds(k)' <=> Holds(k))
  BY <1>1 DEF Holds
<1>3. Alive' = Alive
  BY <1>1, <1>2 DEF Alive
<1>4. in_flight' \in SUBSET in_flight
  OBVIOUS
<1>5. SessionTyped'
  <2>1. stage' \in [Lease -> {"none", "held", "admitted", "released", "dropped"}]
    BY <1>1
  <2> QED
    BY <1>1, <1>4, <2>1 DEF SessionTyped
<1>6. HostBytesAreLeased' /\ LedgerOfThisFrame' /\ UploadBudgetPerFrame'
  BY <1>3 DEF IInv, HostBytesAreLeased, LedgerOfThisFrame, UploadBudgetPerFrame
<1>7. /\ \A n \in in_flight : \E k \in Alive : Holds(k) /\ lease[k].node = n
      /\ \A k \in Alive : Holds(k) => lease[k].node \in in_flight
      /\ \A j, k \in Alive : Holds(j) /\ Holds(k) /\ lease[j].node = lease[k].node => j = k
      /\ Cardinality(in_flight) <= MaxInFlight
  BY DEF IInv, InFlightHasOneLease, Holds
<1>8. Cardinality(in_flight') <= MaxInFlight
  BY <1>1, <1>4, <1>7, Constants, FS_Subset, FS_CardinalityType
<1>9. l \in Alive
  BY <1>1 DEF Alive
<1>10. InFlightHasOneLease'
  <2>1. CASE in_flight' = in_flight /\ (Holds(l)' <=> Holds(l))
    <3>1. \A k \in Alive : Holds(k)' <=> Holds(k)
      BY <1>1, <1>2, <2>1
    <3> QED
      BY <1>3, <1>7, <2>1, <3>1 DEF InFlightHasOneLease, Holds
  <2>2. CASE in_flight' = in_flight \ {lease[l].node} /\ Holds(l) /\ ~Holds(l)'
    <3>1. \A k \in Alive : Holds(k)' <=> Holds(k) /\ k # l
      BY <1>1, <1>2, <2>2
    <3>2. \A n \in in_flight' : \E k \in Alive : Holds(k)' /\ lease[k].node = n
      BY <1>7, <2>2, <3>1
    <3>3. \A k \in Alive : Holds(k)' => lease[k].node \in in_flight'
      BY <1>7, <1>9, <2>2, <3>1
    <3>4. \A j, k \in Alive : Holds(j)' /\ Holds(k)' /\ lease[j].node = lease[k].node => j = k
      BY <1>7, <3>1
    <3> QED
      BY <1>3, <1>8, <3>2, <3>3, <3>4 DEF InFlightHasOneLease, Holds
  <2> QED
    BY <2>1, <2>2
<1> QED
  BY <1>5, <1>6, <1>10 DEF SessionSound

\* The field `reservation` is dropped last: the lease ends and its host bytes go.
LEMMA FreeHostKeeps ==
  ASSUME IInv, NEW l \in Lease, FreeHost(l)
  PROVE  SessionSound'
<1> USE DEF session
<1>1. /\ stage[l] = "dropped" /\ host' = host - lease[l].host
      /\ stage' = [stage EXCEPT ![l] = "none"] /\ lease' = [lease EXCEPT ![l] = NoLease]
      /\ cancelled' = [cancelled EXCEPT ![l] = FALSE]
      /\ UNCHANGED <<generation, admitted, in_flight, uploaded>>
  BY DEF FreeHost
<1>2. /\ SessionTyped /\ Alive \in SUBSET Lease /\ IsFiniteSet(Alive)
      /\ stage \in [Lease -> {"none", "held", "admitted", "released", "dropped"}]
      /\ DOMAIN lease = Lease /\ host \in 0..MaxHost
  BY SessionFacts DEF SessionTyped
<1>3. /\ stage'[l] = "none"
      /\ \A k \in Lease \ {l} : stage'[k] = stage[k] /\ lease'[k] = lease[k]
  BY <1>1, <1>2
<1>4. Alive' = Alive \ {l} /\ l \in Alive
  BY <1>1, <1>2, <1>3 DEF Alive
<1>5. HostBytesAreLeased' /\ host' \in 0..MaxHost
  <2> DEFINE f == [k \in Lease |-> lease[k].host]
             g == [k \in Lease |-> lease'[k].host]
  <2>1. host = Sum(f, Alive) /\ (\A k \in Alive : f[k] \in Nat) /\ f[l] = lease[l].host
    BY <1>2, <1>4, SessionFacts DEF IInv, HostBytesAreLeased
  <2>2. \A k \in Alive \ {l} : g[k] = f[k]
    BY <1>2, <1>3
  <2> HIDE DEF f, g
  <2>3. Sum(f, Alive) = Sum(f, Alive \ {l}) + f[l] /\ Sum(f, Alive \ {l}) \in Nat /\ f[l] \in Nat
    BY <1>2, <1>4, <2>1, SumRemoves
  <2>4. Sum(g, Alive \ {l}) = Sum(f, Alive \ {l})
    BY <2>2, SumOfSame
  <2>5. host' = Sum(g, Alive') /\ host' \in 0..MaxHost
    BY <1>1, <1>2, <1>4, <2>1, <2>3, <2>4, Constants
  <2> QED
    BY <2>5 DEF HostBytesAreLeased, g
<1>6. SessionTyped'
  <2>1. NoLease \in [node : Node \cup {0}, points : Nat, host : Nat, upload : Nat, generation : 0..MaxFrame]
    BY Constants DEF NoLease
  <2> QED
    BY <1>1, <1>2, <1>5, <2>1 DEF SessionTyped
<1>7. InFlightHasOneLease'
  <2>1. \A k \in Alive : (Holds(k) => k # l) /\ (k # l => (Holds(k)' <=> Holds(k)) /\ lease'[k] = lease[k])
    BY <1>1, <1>2, <1>3 DEF Holds
  <2> QED
    BY <1>1, <1>4, <2>1 DEF IInv, InFlightHasOneLease, Holds
<1>8. LedgerOfThisFrame' /\ UploadBudgetPerFrame'
  BY <1>1 DEF IInv, LedgerOfThisFrame, UploadBudgetPerFrame
<1> QED
  BY <1>5, <1>6, <1>7, <1>8 DEF SessionSound

-----------------------------------------------------------------------------
LEMMA InitEstablishes ==
  ASSUME Init
  PROVE  IInv
<1> USE DEF Init
<1>1. SessionTyped
  <2>1. NoLease \in [node : Node \cup {0}, points : Nat, host : Nat, upload : Nat, generation : 0..MaxFrame]
    BY Constants DEF NoLease
  <2> QED
    BY <2>1, Constants DEF SessionTyped
<1>2. DOMAIN residents = {} /\ totals.points = 0 /\ totals.gpu = 0
  OBVIOUS
<1>3. CacheTyped
  BY <1>2, Constants DEF CacheTyped
<1>4. CacheTotalsExact
  BY <1>2, SumOfNone, Constants DEF CacheTotalsExact, ResidentPoints, ResidentBytes
<1>5. Alive = {}
  BY DEF Alive
<1>6. HostBytesAreLeased
  BY <1>5, SumOfNone DEF HostBytesAreLeased
<1>7. InFlightHasOneLease
  BY <1>5, FS_EmptySet, Constants DEF InFlightHasOneLease
<1>8. LedgerOfThisFrame /\ UploadBudgetPerFrame
  BY Constants DEF LedgerOfThisFrame, UploadBudgetPerFrame
<1> QED
  BY <1>1, <1>3, <1>4, <1>6, <1>7, <1>8, InvariantParts DEF SessionSound

\* Admitted by an upload or by a direct call, resident already or not.
LEMMA AdmitKeeps ==
  ASSUME IInv, NEW n \in Node, NEW points \in Nat, NEW gpu \in Nat, NEW g \in 0..MaxFrame,
         NEW protected, Admit(n, points, gpu, g, protected)
  PROVE  CacheTyped' /\ CacheTotalsExact'
<1>1. CASE n \in DOMAIN residents
  BY <1>1, TouchedKeeps DEF Admit
<1>2. CASE n \notin DOMAIN residents
  BY <1>2, AdmitNewKeeps DEF Admit
<1> QED
  BY <1>1, <1>2

\* complete_upload: the node of a lease that is held is one of the forest's.
LEMMA CompleteUploadKeeps ==
  ASSUME IInv, NEW l \in Lease, NEW gpu \in GpuSizes, NEW protected,
         CompleteUpload(l, gpu, protected)
  PROVE  IInv'
<1>1. /\ stage[l] = "held" /\ stage' = [stage EXCEPT ![l] = "admitted"]
      /\ Admit(lease[l].node, lease[l].points, gpu, lease[l].generation, protected)
      /\ UNCHANGED <<session, host, lease, cancelled, uploaded>>
  BY DEF CompleteUpload
<1>2. /\ lease[l].node \in Node /\ lease[l].points \in Nat /\ gpu \in Nat
      /\ lease[l].generation \in 0..MaxFrame
      /\ stage \in [Lease -> {"none", "held", "admitted", "released", "dropped"}]
      /\ cancelled \in [Lease -> BOOLEAN]
  BY <1>1, SessionFacts, Constants DEF Holds, SessionTyped
<1>3. CacheTyped' /\ CacheTotalsExact'
  BY <1>1, <1>2, AdmitKeeps
<1>4. Holds(l) /\ Holds(l)'
  BY <1>1, <1>2 DEF Holds
<1>5. SessionSound'
  BY <1>1, <1>2, <1>4, MovesOnKeeps DEF session
<1> QED
  BY <1>3, <1>5, NextParts

\* An upload that fails takes its lease with it and leaves the cache alone.
LEMMA UploadFailsKeeps ==
  ASSUME IInv, NEW l \in Lease, NEW gpu, NEW protected, UploadFails(l, gpu, protected)
  PROVE  SessionSound' /\ UNCHANGED cache
<1>1. /\ stage[l] = "held" /\ stage' = [stage EXCEPT ![l] = "dropped"]
      /\ in_flight' = in_flight \ {lease[l].node}
      /\ UNCHANGED <<generation, admitted, host, lease, cancelled, uploaded>>
  BY DEF UploadFails, Release
<1>2. UNCHANGED cache
  BY DEF UploadFails, Refuse
<1>3. /\ stage \in [Lease -> {"none", "held", "admitted", "released", "dropped"}]
      /\ cancelled \in [Lease -> BOOLEAN]
  BY SessionFacts DEF SessionTyped
<1>4. Holds(l) /\ ~Holds(l)'
  BY <1>1, <1>3 DEF Holds
<1> QED
  BY <1>1, <1>2, <1>3, <1>4, MovesOnKeeps DEF session

\* The end of a lease, before its bytes are freed.
LEMMA EndOfLeaseKeeps ==
  ASSUME IInv, NEW l \in Lease, CancelLease(l) \/ FinishUpload(l) \/ DropLease(l)
  PROVE  SessionSound'
<1> USE DEF session
<1>1. /\ SessionTyped
      /\ stage \in [Lease -> {"none", "held", "admitted", "released", "dropped"}]
      /\ cancelled \in [Lease -> BOOLEAN]
  BY SessionFacts DEF SessionTyped
<1>2. CASE CancelLease(l)
  <2>1. /\ stage' = [stage EXCEPT ![l] = stage[l]] /\ stage[l] = "held" /\ stage' = stage
        /\ cancelled' \in [Lease -> BOOLEAN]
        /\ UNCHANGED <<session, host, lease, uploaded>>
    BY <1>1, <1>2 DEF CancelLease
  <2>2. Holds(l)' <=> Holds(l)
    BY <2>1 DEF Holds
  <2>3. stage[l] \in {"held", "admitted", "released", "dropped"}
    BY <1>1, <2>1
  <2> QED
    BY <2>1, <2>2, <2>3, MovesOnKeeps
<1>3. CASE FinishUpload(l)
  <2>1. /\ stage[l] = "admitted" /\ stage' = [stage EXCEPT ![l] = "released"]
        /\ in_flight' = in_flight \ {lease[l].node}
        /\ UNCHANGED <<generation, admitted, host, lease, cancelled, uploaded>>
    BY <1>3 DEF FinishUpload, Release
  <2>2. Holds(l) /\ ~Holds(l)'
    BY <1>1, <2>1 DEF Holds
  <2> QED
    BY <1>1, <2>1, <2>2, MovesOnKeeps
<1>4. CASE DropLease(l)
  <2>1. /\ stage[l] \in {"held", "released"} /\ stage' = [stage EXCEPT ![l] = "dropped"]
        /\ in_flight' = IF Holds(l) THEN in_flight \ {lease[l].node} ELSE in_flight
        /\ UNCHANGED <<generation, admitted, host, lease, cancelled, uploaded>>
    BY <1>4 DEF DropLease, Release, Holds
  <2>2. ~Holds(l)'
    BY <1>1, <2>1 DEF Holds
  <2> QED
    BY <1>1, <2>1, <2>2, MovesOnKeeps
<1> QED
  BY <1>2, <1>3, <1>4

LEMMA NextKeeps ==
  ASSUME IInv, [Next]_vars
  PROVE  IInv'
<1>1. UNCHANGED cache => CacheTyped' /\ CacheTotalsExact'
  BY InvariantParts DEF cache, CacheTyped, CacheTotalsExact, ResidentPoints, ResidentBytes
<1>2. ASSUME NEW g \in 1..MaxFrame, BeginFrame(g) PROVE IInv'
  BY <1>1, <1>2, BeginFrameKeeps, NextParts DEF BeginFrame
<1>3. ASSUME NEW l \in Lease, LeaseStep(l) PROVE IInv'
  <2>1. ASSUME NEW n \in Node, NEW chunk \in Chunks, TryLease(l, n, chunk) PROVE IInv'
    BY <1>1, <2>1, TryLeaseKeeps, NextParts DEF TryLease
  <2>2. ASSUME NEW gpu \in GpuSizes, NEW protected \in SUBSET DOMAIN residents,
               CompleteUpload(l, gpu, protected)
        PROVE  IInv'
    BY <2>2, CompleteUploadKeeps
  <2>3. CASE CancelLease(l) \/ FinishUpload(l) \/ DropLease(l)
    BY <1>1, <2>3, EndOfLeaseKeeps, NextParts DEF CancelLease, FinishUpload, DropLease
  <2>4. CASE FreeHost(l)
    BY <1>1, <2>4, FreeHostKeeps, NextParts DEF FreeHost
  <2>5. ASSUME NEW gpu \in GpuSizes, NEW protected \in SUBSET DOMAIN residents,
               UploadFails(l, gpu, protected)
        PROVE  IInv'
    BY <1>1, <2>5, UploadFailsKeeps, NextParts
  <2> QED
    BY <1>3, <2>1, <2>2, <2>3, <2>4, <2>5 DEF LeaseStep
<1>4. ASSUME NEW n \in Node, CacheStep(n) PROVE IInv'
  <2>1. ASSUME NEW points \in PointCounts, NEW gpu \in GpuSizes, NEW g \in 0..MaxFrame,
               NEW protected \in SUBSET DOMAIN residents, AdmitNode(n, points, gpu, g, protected)
        PROVE  IInv'
    <3>1. CASE Admit(n, points, gpu, g, protected)
      <4>1. CacheTyped' /\ CacheTotalsExact'
        BY <3>1, AdmitKeeps, Constants
      <4> QED
        BY <2>1, <4>1, SessionQuiet, NextParts DEF AdmitNode
    <3>2. CASE Refuse(n, points, gpu, protected)
      BY <1>1, <2>1, <3>2, SessionQuiet, NextParts DEF AdmitNode, Refuse
    <3> QED
      BY <2>1, <3>1, <3>2 DEF AdmitNode
  <2>2. ASSUME NEW g \in 0..MaxFrame, Touch(n, g) PROVE IInv'
    <3>1. CacheTyped' /\ CacheTotalsExact'
      BY <2>2, TouchedKeeps DEF Touch
    <3> QED
      BY <2>2, <3>1, SessionQuiet, NextParts DEF Touch
  <2>3. CASE RemoveNode(n)
    BY <2>3, RemoveNodeKeeps, SessionQuiet, NextParts DEF RemoveNode
  <2> QED
    BY <1>4, <2>1, <2>2, <2>3 DEF CacheStep
<1>6. CASE UNCHANGED vars
  BY <1>1, <1>6, SessionQuiet, NextParts DEF vars
<1> QED
  BY <1>2, <1>3, <1>4, <1>6 DEF Next

\* The inductive invariant of residency.rs's session, leases and cache.
THEOREM SpecInvariant == Spec => []IInv
<1>1. Init => IInv
  BY InitEstablishes
<1>2. IInv /\ [Next]_vars => IInv'
  BY NextKeeps
<1> QED
  BY <1>1, <1>2, PTL DEF Spec

\* Every variable keeps its range: no counter of host, upload, points or device
\* bytes underflows or exceeds its budget.
THEOREM TypeCorrect == Spec => []TypeOK
<1>1. IInv => TypeOK
  BY DEF IInv
<1> QED
  BY <1>1, SpecInvariant, PTL

\* The released flag of HostChunkLease is enough: the second release of a
\* completed upload never frees a node that another lease has taken since.
THEOREM OneLeasePerNode == Spec => []InFlightHasOneLease
<1>1. IInv => InFlightHasOneLease
  BY DEF IInv
<1> QED
  BY <1>1, SpecInvariant, PTL

\* The host tracker counts exactly the leases that are alive.
THEOREM HostIsLeased == Spec => []HostBytesAreLeased
<1>1. IInv => HostBytesAreLeased
  BY DEF IInv
<1> QED
  BY <1>1, SpecInvariant, PTL

\* The running totals of LodGpuCache are what its nodes hold, within budget,
\* whatever is admitted, touched, evicted and removed.
THEOREM TotalsAreExact == Spec => []CacheTotalsExact
<1>1. IInv => CacheTotalsExact
  BY DEF IInv
<1> QED
  BY <1>1, SpecInvariant, PTL

\* begin_frame only goes forward, so no frame leases more than its budget.
THEOREM FrameBudgetHolds == Spec => []UploadBudgetPerFrame
<1>1. IInv => UploadBudgetPerFrame
  BY DEF IInv
<1> QED
  BY <1>1, SpecInvariant, PTL
-----------------------------------------------------------------------------
(* The leases implement the ledger of the host tracker *)

\* The host bytes of each lease that is alive.
HostOf == [l \in Lease |-> IF stage[l] = "none" THEN 0 ELSE lease[l].host]

Ledger == INSTANCE BudgetLedger WITH Client <- Lease, Limit <- MaxHost, owned <- HostOf

\* The counter is what the ledger's clients own, and none owns too much.
LEMMA LedgerTotal ==
  ASSUME IInv
  PROVE  Ledger!OwnedTotal = host /\ HostOf \in [Lease -> 0..MaxHost]
<1> DEFINE f == [l \in Lease |-> lease[l].host]
<1>1. /\ Alive \in SUBSET Lease /\ IsFiniteSet(Alive) /\ host \in 0..MaxHost
      /\ host = Sum(f, Alive) /\ \A l \in Alive : f[l] \in Nat
  BY SessionFacts DEF SessionTyped, IInv, HostBytesAreLeased
<1>2. \A l \in Lease : HostOf[l] = IF l \in Alive THEN f[l] ELSE 0
  BY DEF HostOf, Alive
<1> HIDE DEF f
<1>3. ASSUME NEW l \in Alive PROVE f[l] \in 0..MaxHost
  <2>1. host = Sum(f, Alive \ {l}) + f[l] /\ Sum(f, Alive \ {l}) \in Nat /\ f[l] \in Nat
    BY <1>1, SumRemoves
  <2> QED
    BY <1>1, <2>1, Constants
<1>4. \A l \in Lease : HostOf[l] \in 0..MaxHost
  BY <1>2, <1>3, Constants
<1>5. Cells(HostOf, Lease, MaxHost) = AllCells(f, Alive)
  <2>1. ASSUME NEW c \in Cells(HostOf, Lease, MaxHost) PROVE c \in AllCells(f, Alive)
    <3>1. c[1] \in Lease /\ c[2] \in 1..MaxHost /\ c[2] <= HostOf[c[1]] /\ c = <<c[1], c[2]>>
      BY DEF Cells
    <3>2. c[1] \in Alive /\ c[2] \in 1..f[c[1]]
      BY <1>2, <1>4, <3>1, Constants
    <3> QED
      BY <3>1, <3>2 DEF AllCells
  <2>2. ASSUME NEW c \in AllCells(f, Alive) PROVE c \in Cells(HostOf, Lease, MaxHost)
    <3>1. c[1] \in Alive /\ c[2] \in 1..f[c[1]] /\ c = <<c[1], c[2]>>
      BY DEF AllCells
    <3>2. f[c[1]] \in 0..MaxHost /\ HostOf[c[1]] = f[c[1]] /\ c[1] \in Lease
      BY <1>1, <1>2, <1>3, <3>1
    <3>3. c[2] \in 1..MaxHost /\ c[2] <= HostOf[c[1]]
      BY <3>1, <3>2, Constants
    <3> QED
      BY <3>1, <3>2, <3>3 DEF Cells
  <2> QED
    BY <2>1, <2>2
<1>6. Total(HostOf, Lease, MaxHost) = host
  BY <1>1, <1>5 DEF Total, Sum
<1>7. Ledger!OwnedTotal = host
  BY <1>6 DEF Ledger!OwnedTotal, Total, Cells, Ledger!Total, Ledger!Cells,
              Cardinality, Ledger!Cardinality
<1>8. HostOf \in [Lease -> 0..MaxHost]
  BY <1>4 DEF HostOf
<1> QED
  BY <1>7, <1>8

\* What one lease does is no grant to another.
LEMMA HostMoves ==
  ASSUME NEW l \in Lease, SessionTyped,
         \A k \in Lease : k # l => stage'[k] = stage[k] /\ lease'[k] = lease[k]
  PROVE  HostOf' = [HostOf EXCEPT ![l] = IF stage'[l] = "none" THEN 0 ELSE lease'[l].host]
BY DEF HostOf

\* A lease takes its host bytes in one grant, when they fit, and gives them back
\* in one step at the very end of its drop; frames, admissions, cancellations,
\* evictions and both releases of the node move no host byte.
THEOREM LeasesImplementLedger == Spec => Ledger!Spec
<1>1. Init => Ledger!Init
  BY DEF Init, Ledger!Init, HostOf
<1>2. IInv /\ [Next]_vars => [Ledger!Next]_HostOf
  <2> SUFFICES ASSUME IInv, [Next]_vars PROVE Ledger!Next \/ HostOf' = HostOf
    OBVIOUS
  <2>1. /\ SessionTyped /\ HostOf \in [Lease -> 0..MaxHost] /\ Ledger!OwnedTotal = host
        /\ stage \in [Lease -> {"none", "held", "admitted", "released", "dropped"}]
        /\ DOMAIN lease = Lease
    BY SessionFacts, LedgerTotal DEF SessionTyped
  <2>2. ASSUME NEW l \in Lease, NEW n \in Node, NEW chunk \in Chunks, TryLease(l, n, chunk)
        PROVE  Ledger!Next
    <3>1. /\ stage[l] = "none" /\ stage' = [stage EXCEPT ![l] = "held"]
          /\ lease' = [lease EXCEPT ![l] = [node |-> n, points |-> chunk.points,
                          host |-> chunk.host, upload |-> chunk.upload, generation |-> generation]]
          /\ host + chunk.host <= MaxHost
      BY <2>2 DEF TryLease
    <3>2. /\ stage'[l] = "held" /\ lease'[l].host = chunk.host
          /\ \A k \in Lease : k # l => stage'[k] = stage[k] /\ lease'[k] = lease[k]
      BY <2>1, <3>1
    <3>3. HostOf[l] = 0 /\ HostOf' = [HostOf EXCEPT ![l] = chunk.host]
      <4>1. HostOf[l] = 0
        BY <3>1 DEF HostOf
      <4> QED
        BY <2>1, <3>2, <4>1, HostMoves
    <3>4. chunk.host \in 1..MaxHost
      <4>1. chunk.host \in Nat \ {0} /\ host \in 0..MaxHost
        BY <2>1, Constants DEF SessionTyped
      <4> QED
        BY <3>1, <4>1, Constants
    <3>5. Ledger!Grant(l)
      BY <2>1, <3>1, <3>3, <3>4 DEF Ledger!Grant
    <3> QED
      BY <3>5 DEF Ledger!Next
  <2>3. ASSUME NEW l \in Lease, FreeHost(l) PROVE Ledger!Next \/ HostOf' = HostOf
    <3>1. stage' = [stage EXCEPT ![l] = "none"] /\ lease' = [lease EXCEPT ![l] = NoLease]
      BY <2>3 DEF FreeHost
    <3>2. /\ stage'[l] = "none"
          /\ \A k \in Lease : k # l => stage'[k] = stage[k] /\ lease'[k] = lease[k]
      BY <2>1, <3>1
    <3>3. HostOf' = [HostOf EXCEPT ![l] = 0]
      BY <2>1, <3>2, HostMoves
    <3>4. CASE HostOf[l] = 0
      BY <2>1, <3>3, <3>4
    <3>5. CASE HostOf[l] # 0
      <4>1. 0 \in 0..MaxHost /\ 0 < HostOf[l]
        BY <2>1, <3>5, Constants
      <4>2. Ledger!GiveBack(l)
        BY <3>3, <4>1 DEF Ledger!GiveBack
      <4> QED
        BY <4>2 DEF Ledger!Next
    <3> QED
      BY <3>4, <3>5
  <2>4. ASSUME NEW l \in Lease, NEW gpu \in GpuSizes, NEW protected \in SUBSET DOMAIN residents,
               CompleteUpload(l, gpu, protected)
        PROVE  HostOf' = HostOf
    <3>1. stage[l] = "held" /\ stage' = [stage EXCEPT ![l] = "admitted"] /\ lease' = lease
      BY <2>4 DEF CompleteUpload
    <3> QED
      BY <2>1, <3>1 DEF HostOf
  <2>5. ASSUME NEW l \in Lease,
               \/ CancelLease(l) \/ FinishUpload(l) \/ DropLease(l)
               \/ \E gpu \in GpuSizes, protected \in SUBSET DOMAIN residents :
                     UploadFails(l, gpu, protected)
        PROVE  HostOf' = HostOf
    <3>1. /\ lease' = lease
          /\ \/ stage' = stage
             \/ stage[l] # "none" /\ \E s \in {"released", "dropped"} : stage' = [stage EXCEPT ![l] = s]
      BY <2>5 DEF CancelLease, FinishUpload, DropLease, UploadFails
    <3> QED
      BY <2>1, <3>1 DEF HostOf
  <2>6. ASSUME UNCHANGED <<stage, lease>> PROVE HostOf' = HostOf
    BY <2>6 DEF HostOf
  <2>7. ASSUME NEW g \in 1..MaxFrame, BeginFrame(g) PROVE HostOf' = HostOf
    BY <2>6, <2>7 DEF BeginFrame, leases
  <2>8. ASSUME NEW n \in Node, CacheStep(n) PROVE HostOf' = HostOf
    BY <2>6, <2>8 DEF CacheStep, AdmitNode, Touch, RemoveNode, leases
  <2>9. CASE UNCHANGED vars
    BY <2>6, <2>9 DEF vars, leases
  <2> QED
    BY <2>2, <2>3, <2>4, <2>5, <2>7, <2>8, <2>9 DEF Next, LeaseStep
<1> QED
  BY <1>1, <1>2, SpecInvariant, PTL DEF Spec, Ledger!Spec

-----------------------------------------------------------------------------
(* The eviction loop has one outcome *)

\* LodResidency says of the loop of `admit` which nodes are gone when it ends.
\* There is one such set when evicting every candidate makes room, and none when
\* it does not, so that a call is admitted or refused and never both; nothing is
\* evicted when there is room.
OneOutcome(points, gpu, protected) ==
    LET outcomes == {gone \in SUBSET DOMAIN residents : Evicted(gone, points, gpu, protected)}
    IN  /\ \A a, b \in outcomes : a = b
        /\ outcomes # {} <=> HasRoom(points, gpu, protected)
        /\ FitsCache(TotalsWithout({}, points, gpu)) => outcomes = {{}}

Below == {p \in Nat \X Nat : p[1] < p[2]}

LEMMA LeastNumber ==
  ASSUME NEW T \in SUBSET Nat, T # {}
  PROVE  \E n \in T : \A m \in T : n <= m
<1>1. IsWellFoundedOn(Below, Nat)
  <2>1. OpToRel(<, Nat) = Below
    BY Zenon DEF OpToRel, Below
  <2> QED
    BY Zenon, <2>1, NatLessThanWellFounded
<1>2. PICK n \in T : \A m \in T : <<m, n>> \notin Below
  BY <1>1, WFMin
<1>3. \A m \in T : <<m, n>> \in Below \/ n <= m
  BY DEF Below
<1> QED
  BY <1>2, <1>3

\* The order of eviction is total on the nodes of the cache.
LEMMA EvictionOrder ==
  ASSUME IInv, NEW k \in DOMAIN residents, NEW m \in DOMAIN residents, NEW n \in DOMAIN residents
  PROVE  /\ UsedBefore(n, n)
         /\ UsedBefore(m, n) \/ UsedBefore(n, m)
         /\ UsedBefore(m, n) /\ UsedBefore(n, m) => m = n
         /\ UsedBefore(k, m) /\ UsedBefore(m, n) => UsedBefore(k, n)
<1>1. /\ k \in Nat /\ m \in Nat /\ n \in Nat
      /\ residents[k].used \in Nat /\ residents[m].used \in Nat /\ residents[n].used \in Nat
  <2>1. ASSUME NEW x \in DOMAIN residents
        PROVE  x \in Nat /\ residents[x].used \in Nat
    <3>1. x \in Node /\ residents[x] \in [points : 1..MaxPoints, gpu : 1..MaxGpu, used : 0..MaxFrame]
      BY CacheIsFinite DEF CacheTyped
    <3>2. residents[x].used \in 0..MaxFrame
      BY <3>1
    <3> QED
      BY <3>1, <3>2, LodAssumption
  <2> QED
    BY <2>1
<1> QED
  BY <1>1 DEF UsedBefore

\* Of some nodes of the cache one is evicted last.
LEMMA LastEvicted ==
  ASSUME IInv, NEW S \in SUBSET DOMAIN residents, S # {}
  PROVE  \E last \in S : \A m \in S : UsedBefore(m, last)
<1> DEFINE later(n) == {m \in S : ~UsedBefore(m, n)}
           counts == {Cardinality(later(n)) : n \in S}
<1>1. IsFiniteSet(S)
  BY CacheIsFinite, FS_Subset
<1>2. \A n \in S : IsFiniteSet(later(n)) /\ Cardinality(later(n)) \in Nat
  BY <1>1, FS_Subset, FS_CardinalityType
<1>3. PICK last \in S : \A n \in S : Cardinality(later(last)) <= Cardinality(later(n))
  <2>1. counts \in SUBSET Nat /\ counts # {}
    BY <1>2
  <2>2. PICK c \in counts : \A d \in counts : c <= d
    BY <2>1, LeastNumber
  <2> QED
    BY <2>2
<1>4. ASSUME NEW m \in S, ~UsedBefore(m, last)
      PROVE  FALSE
  <2>1. later(m) \subseteq later(last)
    <3> SUFFICES ASSUME NEW k \in S, ~UsedBefore(k, m), UsedBefore(k, last)
                 PROVE  FALSE
      OBVIOUS
    <3>1. UsedBefore(last, m)
      BY <1>4, EvictionOrder
    <3> QED
      BY <3>1, EvictionOrder
  <2>2. m \in later(last) /\ m \notin later(m)
    BY <1>4, EvictionOrder
  <2>3. later(m) # later(last)
    BY <2>2
  <2> HIDE DEF later
  <2>4. /\ Cardinality(later(m)) <= Cardinality(later(last))
        /\ Cardinality(later(m)) = Cardinality(later(last)) => later(m) = later(last)
    BY <1>2, <2>1, FS_Subset
  <2> QED
    BY <1>2, <1>3, <2>3, <2>4
<1> QED
  BY <1>4

\* The more nodes are gone, the more room there is.
LEMMA EvictionMakesRoom ==
  ASSUME IInv, NEW b \in SUBSET DOMAIN residents, NEW a \in SUBSET b,
         NEW points \in Nat, NEW gpu \in Nat, FitsCache(TotalsWithout(a, points, gpu))
  PROVE  FitsCache(TotalsWithout(b, points, gpu))
<1> DEFINE p == [n \in DOMAIN residents |-> residents[n].points]
           g == [n \in DOMAIN residents |-> residents[n].gpu]
<1>1. IsFiniteSet(b)
  BY CacheIsFinite, FS_Subset
<1>2. \A n \in b : p[n] \in Nat /\ g[n] \in Nat
  BY CacheIsFinite
<1> HIDE DEF p, g
<1>3. /\ Sum(p, a) \in Nat /\ Sum(p, b \ a) \in Nat /\ Sum(p, b) = Sum(p, b \ a) + Sum(p, a)
      /\ Sum(g, a) \in Nat /\ Sum(g, b \ a) \in Nat /\ Sum(g, b) = Sum(g, b \ a) + Sum(g, a)
  BY <1>1, <1>2, SumWithout
<1>4. /\ ResidentPoints(a) = Sum(p, a) /\ ResidentPoints(b) = Sum(p, b)
      /\ ResidentBytes(a) = Sum(g, a) /\ ResidentBytes(b) = Sum(g, b)
  BY DEF p, g, ResidentPoints, ResidentBytes
<1>5. totals.points \in Nat /\ totals.gpu \in Nat
  BY CacheIsFinite, Constants DEF CacheTyped
<1> QED
  BY <1>3, <1>4, <1>5, Constants DEF FitsCache, TotalsWithout

\* Of two outcomes, both taken from the front of one order, neither ends later.
LEMMA OutcomesAgree ==
  ASSUME IInv, NEW points \in Nat, NEW gpu \in Nat, NEW protected,
         NEW a \in SUBSET DOMAIN residents, NEW b \in SUBSET DOMAIN residents,
         Evicted(a, points, gpu, protected), Evicted(b, points, gpu, protected)
  PROVE  b \subseteq a
<1> SUFFICES ASSUME NEW x \in b, x \notin a
             PROVE  FALSE
  OBVIOUS
<1>1. PICK last \in b : \A m \in b : UsedBefore(m, last)
  BY LastEvicted
<1>2. \A m \in a : UsedBefore(m, x)
  BY DEF Evicted
<1>3. last \notin a
  BY <1>1, <1>2, EvictionOrder
<1>4. a \subseteq b
  <2> SUFFICES ASSUME NEW y \in a, y \notin b
               PROVE  FALSE
    OBVIOUS
  <2>1. UsedBefore(x, y)
    BY DEF Evicted
  <2> QED
    BY <1>2, <2>1, EvictionOrder
<1>5. FitsCache(TotalsWithout(b \ {last}, points, gpu))
  <2>1. a \in SUBSET (b \ {last})
    BY <1>3, <1>4
  <2>2. FitsCache(TotalsWithout(a, points, gpu))
    BY DEF Evicted
  <2> QED
    BY <2>1, <2>2, EvictionMakesRoom
<1> QED
  BY <1>1, <1>5 DEF Evicted

\* The shortest beginning of the order that makes room is an outcome.
LEMMA OutcomeExists ==
  ASSUME IInv, NEW points \in Nat, NEW gpu \in Nat, NEW protected,
         FitsCache(TotalsWithout(DOMAIN residents \ protected, points, gpu))
  PROVE  \E gone \in SUBSET DOMAIN residents : Evicted(gone, points, gpu, protected)
<1> DEFINE candidates == DOMAIN residents \ protected
           fronts == {f \in SUBSET candidates :
                         /\ \A m \in f, n \in candidates \ f : UsedBefore(m, n)
                         /\ FitsCache(TotalsWithout(f, points, gpu))}
           sizes == {Cardinality(f) : f \in fronts}
<1>1. \A f \in fronts : IsFiniteSet(f) /\ Cardinality(f) \in Nat
  BY CacheIsFinite, FS_Subset, FS_CardinalityType
<1>2. candidates \in fronts
  OBVIOUS
<1>3. PICK gone \in fronts : \A f \in fronts : Cardinality(gone) <= Cardinality(f)
  <2>1. sizes \in SUBSET Nat /\ sizes # {}
    BY <1>1, <1>2
  <2>2. PICK c \in sizes : \A d \in sizes : c <= d
    BY <2>1, LeastNumber
  <2> QED
    BY <2>2
<1>4. ASSUME NEW last \in gone, \A m \in gone : UsedBefore(m, last),
             FitsCache(TotalsWithout(gone \ {last}, points, gpu))
      PROVE  FALSE
  <2>1. \A m \in gone \ {last}, n \in candidates \ (gone \ {last}) : UsedBefore(m, n)
    BY <1>4
  <2>2. gone \ {last} \in fronts
    BY <1>4, <2>1
  <2>3. Cardinality(gone \ {last}) = Cardinality(gone) - 1
    BY <1>1, FS_RemoveElement
  <2> QED
    BY <1>1, <1>3, <2>2, <2>3
<1>5. Evicted(gone, points, gpu, protected)
  BY <1>4 DEF Evicted
<1> QED
  BY <1>5

\* In every reachable state of the cache the eviction of `admit` is a function of
\* the sizes and of what is protected: least recently used first, as few as make
\* room, none when there is room, and it fails only when all candidates together
\* leave too little.
THEOREM EvictionIsDetermined ==
    Spec => [](\A points, gpu \in Nat, protected \in SUBSET Node : OneOutcome(points, gpu, protected))
<1>1. ASSUME IInv, NEW points \in Nat, NEW gpu \in Nat, NEW protected \in SUBSET Node
      PROVE  OneOutcome(points, gpu, protected)
  <2> DEFINE candidates == DOMAIN residents \ protected
             outcomes == {gone \in SUBSET DOMAIN residents : Evicted(gone, points, gpu, protected)}
  <2>1. \A a, b \in outcomes : a = b
    <3>1. \A a, b \in outcomes : b \subseteq a
      BY <1>1, OutcomesAgree
    <3> QED
      BY <3>1
  <2>2. ASSUME NEW gone \in outcomes
        PROVE  FitsCache(TotalsWithout(candidates, points, gpu))
    <3>1. gone \in SUBSET candidates /\ FitsCache(TotalsWithout(gone, points, gpu))
      BY DEF Evicted
    <3>2. candidates \in SUBSET DOMAIN residents
      OBVIOUS
    <3> HIDE DEF candidates
    <3> QED
      BY <1>1, <3>1, <3>2, EvictionMakesRoom
  <2>3. FitsCache(TotalsWithout(candidates, points, gpu)) => outcomes # {}
    BY <1>1, OutcomeExists
  <2>4. FitsCache(TotalsWithout({}, points, gpu)) => {} \in outcomes
    BY DEF Evicted
  <2> HIDE DEF outcomes
  <2>5. FitsCache(TotalsWithout({}, points, gpu)) => outcomes = {{}}
    BY <2>1, <2>4
  <2> QED
    BY <2>1, <2>2, <2>3, <2>5 DEF OneOutcome, HasRoom, outcomes
<1>2. IInv => \A points, gpu \in Nat, protected \in SUBSET Node : OneOutcome(points, gpu, protected)
  BY <1>1
<1> QED
  BY <1>2, SpecInvariant, PTL
=============================================================================

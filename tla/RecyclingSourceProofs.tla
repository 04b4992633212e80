----------------------- MODULE RecyclingSourceProofs -----------------------
(***************************************************************************)
(* Proofs about RecyclingSource for every set of slots, budget, cloud and  *)
(* chunk size: the pool never holds more than the peak of the leases, no   *)
(* buffer set is lost or duplicated, the chunks emitted are contiguous and *)
(* complete, the leases are what the tracker's ledger grants, and the      *)
(* source as a whole is a RecordStream.                                    *)
(***************************************************************************)
EXTENDS RecyclingSource, ByteSumProofs

Leasing == {"leased", "filled", "live", "emptied"}
Holding == {"filled", "live"}
Pulling == {"leased", "filled"}

\* The counter is the number of chunks under lease, and the peak covers it.
LeasesCounted ==
    /\ reserved = Cardinality(In(Leasing))
    /\ reserved <= peak

\* At most one pull is under way, and it has points left to copy.
OnePull ==
    /\ \A s, t \in Slot : chunk[s] \in Pulling /\ chunk[t] \in Pulling => s = t
    /\ \A s \in Slot : chunk[s] \in Pulling => offset < Points

\* The next identity and the offset follow from what was emitted.
Positioned ==
    /\ next = [sequence |-> Len(emitted), point_offset |-> offset]
    /\ emitted = <<>> => offset = 0
    /\ emitted # <<>> =>
          offset = emitted[Len(emitted)].first + emitted[Len(emitted)].count
    /\ answer = "end" => offset = Points

\* The first part of NothingSkipped.
Contiguous ==
    \A i \in DOMAIN emitted :
        /\ emitted[i].identity = [sequence |-> i - 1, point_offset |-> emitted[i].first]
        /\ emitted[i].count \in 1..ChunkPoints
        /\ emitted[i].first =
              IF i = 1 THEN 0 ELSE emitted[i - 1].first + emitted[i - 1].count

IInv ==
    /\ TypeOK
    /\ LeasesCounted /\ BuffersConserved /\ BuffersWithinPeak
    /\ OnePull /\ Positioned /\ Contiguous

-----------------------------------------------------------------------------
\* Sets of slots are finite.
LEMMA InFinite ==
  ASSUME NEW CONSTANT S
  PROVE  IsFiniteSet(In(S)) /\ Cardinality(In(S)) \in Nat
<1>1. In(S) \in SUBSET Slot
  BY DEF In
<1>2. IsFiniteSet(In(S))
  BY <1>1, RecyclingAssumption, FS_Subset
<1> QED
  BY <1>2, FS_CardinalityType

\* One chunk that changes its state enters and leaves sets of slots alone.
LEMMA CountMoves ==
  ASSUME TypeOK, NEW CONSTANT S, NEW s \in Slot, NEW new,
         chunk' = [chunk EXCEPT ![s] = new]
  PROVE  /\ chunk[s] \in S /\ new \in S => Cardinality(In(S)') = Cardinality(In(S))
         /\ chunk[s] \notin S /\ new \notin S => Cardinality(In(S)') = Cardinality(In(S))
         /\ chunk[s] \notin S /\ new \in S => Cardinality(In(S)') = Cardinality(In(S)) + 1
         /\ chunk[s] \in S /\ new \notin S => Cardinality(In(S)') = Cardinality(In(S)) - 1
<1> DEFINE A == In(S)
           B == {t \in Slot : chunk'[t] \in S}
<1>1. In(S)' = B
  BY DEF In
<1>2. IsFiniteSet(A)
  BY InFinite
<1>3. \A t \in Slot : chunk'[t] = IF t = s THEN new ELSE chunk[t]
  BY DEF TypeOK
<1>4. s \in A <=> chunk[s] \in S
  BY DEF In
<1>5. new \in S => B = A \cup {s}
  BY <1>3 DEF In
<1>6. new \notin S => B = A \ {s}
  BY <1>3 DEF In
<1>7. Cardinality(A \cup {s}) = IF s \in A THEN Cardinality(A) ELSE Cardinality(A) + 1
  BY <1>2, FS_AddElement
<1>8. Cardinality(A \ {s}) = IF s \in A THEN Cardinality(A) - 1 ELSE Cardinality(A)
  BY <1>2, FS_RemoveElement
<1> QED
  BY <1>1, <1>4, <1>5, <1>6, <1>7, <1>8

\* Which states count as a lease and as a buffer set in use.
LEMMA StatesCounted ==
  /\ "free" \notin Leasing /\ "leased" \in Leasing /\ "filled" \in Leasing
  /\ "live" \in Leasing /\ "emptied" \in Leasing
  /\ "free" \notin Holding /\ "leased" \notin Holding /\ "filled" \in Holding
  /\ "live" \in Holding /\ "emptied" \notin Holding
BY DEF Leasing, Holding

\* A chunk under lease that holds no buffers makes room for one more set.
LEMMA LeasesCoverBuffers ==
  ASSUME NEW s \in In(Leasing), s \notin In(Holding)
  PROVE  Cardinality(In(Holding)) + 1 <= Cardinality(In(Leasing))
<1>1. IsFiniteSet(In(Holding)) /\ IsFiniteSet(In(Leasing))
  BY InFinite
<1>2. In(Holding) \cup {s} \subseteq In(Leasing)
  BY DEF In, Holding, Leasing
<1>3. Cardinality(In(Holding) \cup {s}) = Cardinality(In(Holding)) + 1
  BY <1>1, FS_AddElement
<1> QED
  BY <1>1, <1>2, <1>3, FS_Subset

\* A chunk under lease is counted.
LEMMA LeaseIsCounted ==
  ASSUME NEW s \in In(Leasing)
  PROVE  1 <= Cardinality(In(Leasing))
<1>1. IsFiniteSet(In(Leasing)) /\ Cardinality(In(Leasing)) \in Nat
  BY InFinite
<1>2. Cardinality(In(Leasing)) # 0
  BY <1>1, FS_EmptySet
<1> QED
  BY <1>1, <1>2

-----------------------------------------------------------------------------
\* Nothing is under lease and nothing was emitted at first.
LEMMA InitEstablishes ==
  ASSUME Init
  PROVE  IInv
<1>1. TypeOK
  <2>1. emitted \in Seq([identity : [sequence : Nat, point_offset : Nat],
                        first : Nat, count : Nat])
    BY DEF Init
  <2>2. next \in [sequence : Nat, point_offset : Nat]
    BY DEF Init
  <2>3. reserved \in 0..Budget /\ peak \in 0..Budget /\ offset \in 0..Points
    BY RecyclingAssumption DEF Init
  <2> QED
    BY <2>1, <2>2, <2>3 DEF Init, TypeOK
<1>2. In(Leasing) = {} /\ In(Holding) = {}
  BY DEF Init, In, Leasing, Holding
<1>3. Cardinality(In(Leasing)) = 0 /\ Cardinality(In(Holding)) = 0
  BY <1>2, FS_EmptySet
<1>4. LeasesCounted
  BY <1>3 DEF Init, LeasesCounted
<1>5. BuffersConserved /\ BuffersWithinPeak
  BY <1>3 DEF Init, BuffersConserved, BuffersWithinPeak, Holding
<1>6. OnePull
  BY DEF Init, OnePull, Pulling
<1>7. Positioned /\ Contiguous
  BY DEF Init, Positioned, Contiguous
<1> QED
  BY <1>1, <1>4, <1>5, <1>6, <1>7 DEF IInv

\* A step that leaves the memory and the position alone, and does not announce
\* the end too early, keeps the invariant.
LEMMA QuietStep ==
  ASSUME IInv, UNCHANGED <<memory, position>>,
         cancelled' \in BOOLEAN,
         answer' \in {"none", "cancelled", "end", "refused", "chunk"},
         answer' = "end" => offset = Points
  PROVE  IInv'
<1> USE DEF IInv, memory, position
<1>1. TypeOK'
  BY DEF TypeOK
<1>2. LeasesCounted' /\ BuffersConserved' /\ BuffersWithinPeak' /\ OnePull'
  BY DEF LeasesCounted, BuffersConserved, BuffersWithinPeak, OnePull, In
<1>3. Positioned' /\ Contiguous'
  BY DEF Positioned, Contiguous
<1> QED
  BY <1>1, <1>2, <1>3

\* What was emitted stays in order while nothing is emitted.
LEMMA PositionStays ==
  ASSUME Positioned, Contiguous, UNCHANGED <<position, answer>>
  PROVE  Positioned' /\ Contiguous'
BY DEF Positioned, Contiguous, position

LEMMA ReserveKeeps ==
  ASSUME IInv, NEW s \in Slot, Reserve(s)
  PROVE  IInv'
<1> USE DEF IInv
<1>1. chunk' = [chunk EXCEPT ![s] = "leased"] /\ chunk[s] = "free"
  BY DEF Reserve
<1>2. Cardinality(In(Leasing)') = Cardinality(In(Leasing)) + 1
  BY <1>1, StatesCounted, CountMoves
<1>3. Cardinality(In(Holding)') = Cardinality(In(Holding))
  BY <1>1, StatesCounted, CountMoves
<1>4. TypeOK'
  BY RecyclingAssumption DEF Reserve, TypeOK, position
<1>5. LeasesCounted'
  BY <1>2, RecyclingAssumption DEF Reserve, LeasesCounted, TypeOK
<1>6. BuffersConserved'
  BY <1>3 DEF Reserve, BuffersConserved, Holding
<1>7. BuffersWithinPeak'
  BY RecyclingAssumption DEF Reserve, BuffersWithinPeak, TypeOK
<1>8. OnePull'
  BY DEF Reserve, OnePull, Idle, Pulling, TypeOK, position
<1>9. Positioned' /\ Contiguous'
  BY PositionStays DEF Reserve
<1> QED
  BY <1>4, <1>5, <1>6, <1>7, <1>8, <1>9

\* Allocation is where the pool could outgrow the peak: the pool is empty, so
\* the sets in use are all there are, and the lease of s is one more.
LEMMA TakeBuffersKeeps ==
  ASSUME IInv, NEW s \in Slot, TakeBuffers(s)
  PROVE  IInv'
<1> USE DEF IInv
<1>1. chunk' = [chunk EXCEPT ![s] = "filled"] /\ chunk[s] = "leased"
  BY DEF TakeBuffers
<1>2. Cardinality(In(Leasing)') = Cardinality(In(Leasing))
  BY <1>1, StatesCounted, CountMoves
<1>3. Cardinality(In(Holding)') = Cardinality(In(Holding)) + 1
  BY <1>1, StatesCounted, CountMoves
<1>4. Cardinality(In(Holding)) \in Nat
  BY InFinite
<1>5. TypeOK'
  BY DEF TakeBuffers, TypeOK, position
<1>6. LeasesCounted'
  BY <1>2 DEF TakeBuffers, LeasesCounted
<1>7. BuffersConserved'
  BY <1>3, <1>4 DEF TakeBuffers, BuffersConserved, Holding, TypeOK
<1>8. BuffersWithinPeak'
  <2>1. CASE pool > 0
    BY <2>1 DEF TakeBuffers, BuffersWithinPeak, TypeOK
  <2>2. CASE pool = 0
    <3>1. Cardinality(In(Holding)) + 1 <= Cardinality(In(Leasing))
      BY <1>1, LeasesCoverBuffers DEF In, Leasing, Holding
    <3>2. allocations = Cardinality(In(Holding))
      BY <2>2, <1>4 DEF BuffersConserved, Holding
    <3>3. allocations + 1 <= peak
      BY <3>1, <3>2, <1>4, RecyclingAssumption DEF LeasesCounted, TypeOK
    <3> QED
      BY <2>2, <3>3 DEF TakeBuffers, BuffersWithinPeak
  <2> QED
    BY <2>1, <2>2 DEF TypeOK
<1>9. OnePull'
  BY <1>1 DEF TakeBuffers, OnePull, Pulling, TypeOK, position
<1>10. Positioned' /\ Contiguous'
  BY PositionStays DEF TakeBuffers
<1> QED
  BY <1>5, <1>6, <1>7, <1>8, <1>9, <1>10

LEMMA EmitKeeps ==
  ASSUME IInv, NEW s \in Slot, Emit(s)
  PROVE  IInv'
<1> USE DEF IInv
<1> DEFINE end == Smaller(offset + ChunkPoints, Points)
           count == end - offset
           item == [identity |-> next, first |-> offset, count |-> count]
<1>1. /\ chunk' = [chunk EXCEPT ![s] = "live"] /\ chunk[s] = "filled"
      /\ emitted' = Append(emitted, item)
      /\ next' = [sequence |-> next.sequence + 1, point_offset |-> next.point_offset + count]
      /\ offset' = end
      /\ answer' = "chunk"
      /\ UNCHANGED <<reserved, peak, pool, allocations, cancelled>>
  BY DEF Emit
<1>2. offset < Points /\ offset \in Nat
  BY <1>1 DEF OnePull, Pulling, TypeOK
<1>3. end \in 0..Points /\ count \in 1..ChunkPoints /\ end = offset + count
  BY <1>2, RecyclingAssumption DEF Smaller
<1>4. TypeOK'
  <2>1. next.sequence \in Nat /\ next.point_offset \in Nat
    BY DEF TypeOK
  <2>2. item \in [identity : [sequence : Nat, point_offset : Nat], first : Nat, count : Nat]
    BY <1>2, <1>3, RecyclingAssumption DEF TypeOK
  <2>3. emitted' \in Seq([identity : [sequence : Nat, point_offset : Nat],
                          first : Nat, count : Nat])
    BY <1>1, <2>2 DEF TypeOK
  <2>4. next' \in [sequence : Nat, point_offset : Nat]
    BY <1>1, <1>3, <2>1, RecyclingAssumption
  <2>5. chunk' \in [Slot -> {"free", "leased", "filled", "live", "emptied"}]
    BY <1>1 DEF TypeOK
  <2> QED
    BY <1>1, <1>3, <2>3, <2>4, <2>5 DEF TypeOK
<1>5. LeasesCounted'
  <2>1. Cardinality(In(Leasing)') = Cardinality(In(Leasing))
    BY <1>1, StatesCounted, CountMoves
  <2> QED
    BY <1>1, <2>1 DEF LeasesCounted
<1>6. BuffersConserved' /\ BuffersWithinPeak'
  <2>1. Cardinality(In(Holding)') = Cardinality(In(Holding))
    BY <1>1, StatesCounted, CountMoves
  <2> QED
    BY <1>1, <2>1 DEF BuffersConserved, BuffersWithinPeak, Holding
<1>7. OnePull'
  <2>1. \A t \in Slot : chunk[t] \in Pulling => t = s
    BY <1>1 DEF OnePull, Pulling
  <2>2. \A t \in Slot : chunk'[t] \notin Pulling
    BY <1>1, <2>1 DEF Pulling, TypeOK
  <2> QED
    BY <2>2 DEF OnePull
<1>8. /\ Len(emitted') = Len(emitted) + 1
      /\ emitted'[Len(emitted')] = item
      /\ \A i \in 1..Len(emitted) : emitted'[i] = emitted[i]
      /\ DOMAIN emitted = 1..Len(emitted)
      /\ DOMAIN emitted' = 1..(Len(emitted) + 1)
      /\ Len(emitted) \in Nat
  BY <1>1 DEF TypeOK
<1>9. Positioned'
  <2>1. next' = [sequence |-> Len(emitted'), point_offset |-> offset']
    BY <1>1, <1>2, <1>3, <1>8 DEF Positioned
  <2>2. emitted' # <<>>
    BY <1>8
  <2>3. offset' = emitted'[Len(emitted')].first + emitted'[Len(emitted')].count
    BY <1>1, <1>3, <1>8
  <2> QED
    BY <1>1, <2>1, <2>2, <2>3 DEF Positioned
<1>10. Contiguous'
  <2> SUFFICES ASSUME NEW i \in DOMAIN emitted'
               PROVE  /\ emitted'[i].identity =
                            [sequence |-> i - 1, point_offset |-> emitted'[i].first]
                      /\ emitted'[i].count \in 1..ChunkPoints
                      /\ emitted'[i].first =
                            IF i = 1 THEN 0 ELSE emitted'[i - 1].first + emitted'[i - 1].count
    BY DEF Contiguous
  <2>1. CASE i \in 1..Len(emitted)
    <3>1. i # 1 => i - 1 \in 1..Len(emitted)
      BY <2>1, <1>8
    <3> QED
      BY <2>1, <3>1, <1>8 DEF Contiguous
  <2>2. CASE i = Len(emitted) + 1
    <3>1. emitted'[i] = item
      BY <2>2, <1>8
    <3>2. i = 1 => offset = 0
      <4>1. i = 1 => emitted = <<>>
        BY <2>2, <1>8 DEF TypeOK
      <4> QED
        BY <4>1 DEF Positioned
    <3>3. i # 1 => /\ emitted'[i - 1] = emitted[Len(emitted)]
                   /\ emitted # <<>>
      BY <2>2, <1>8
    <3>4. item.first = IF i = 1 THEN 0 ELSE emitted'[i - 1].first + emitted'[i - 1].count
      BY <3>2, <3>3 DEF Positioned
    <3>5. item.identity = [sequence |-> i - 1, point_offset |-> item.first]
      BY <2>2, <1>8 DEF Positioned
    <3> QED
      BY <1>3, <3>1, <3>4, <3>5
  <2> QED
    BY <1>8, <2>1, <2>2
<1> QED
  BY <1>4, <1>5, <1>6, <1>7, <1>9, <1>10

LEMMA ReturnBuffersKeeps ==
  ASSUME IInv, NEW s \in Slot, ReturnBuffers(s)
  PROVE  IInv'
<1> USE DEF IInv
<1>1. chunk' = [chunk EXCEPT ![s] = "emptied"] /\ chunk[s] = "live"
  BY DEF ReturnBuffers
<1>2. Cardinality(In(Leasing)') = Cardinality(In(Leasing))
  BY <1>1, StatesCounted, CountMoves
<1>3. Cardinality(In(Holding)') = Cardinality(In(Holding)) - 1
  BY <1>1, StatesCounted, CountMoves
<1>4. Cardinality(In(Holding)) \in Nat
  BY InFinite
<1>5. TypeOK'
  BY DEF ReturnBuffers, TypeOK, position
<1>6. LeasesCounted'
  BY <1>2 DEF ReturnBuffers, LeasesCounted
<1>7. BuffersConserved' /\ BuffersWithinPeak'
  BY <1>3, <1>4 DEF ReturnBuffers, BuffersConserved, BuffersWithinPeak, Holding, TypeOK
<1>8. OnePull'
  BY <1>1 DEF ReturnBuffers, OnePull, Pulling, TypeOK, position
<1>9. Positioned' /\ Contiguous'
  BY PositionStays DEF ReturnBuffers
<1> QED
  BY <1>5, <1>6, <1>7, <1>8, <1>9

LEMMA ReleaseLeaseKeeps ==
  ASSUME IInv, NEW s \in Slot, ReleaseLease(s)
  PROVE  IInv'
<1> USE DEF IInv
<1>1. chunk' = [chunk EXCEPT ![s] = "free"] /\ chunk[s] = "emptied"
  BY DEF ReleaseLease
<1>2. Cardinality(In(Leasing)') = Cardinality(In(Leasing)) - 1
  BY <1>1, StatesCounted, CountMoves
<1>3. Cardinality(In(Holding)') = Cardinality(In(Holding))
  BY <1>1, StatesCounted, CountMoves
<1>4. 1 <= reserved
  BY <1>1, LeaseIsCounted DEF LeasesCounted, In, Leasing
<1>5. TypeOK'
  BY <1>4, RecyclingAssumption DEF ReleaseLease, TypeOK, position
<1>6. LeasesCounted'
  BY <1>2, RecyclingAssumption DEF ReleaseLease, LeasesCounted, TypeOK
<1>7. BuffersConserved' /\ BuffersWithinPeak'
  BY <1>3 DEF ReleaseLease, BuffersConserved, BuffersWithinPeak, Holding
<1>8. OnePull'
  BY <1>1 DEF ReleaseLease, OnePull, Pulling, TypeOK, position
<1>9. Positioned' /\ Contiguous'
  BY PositionStays DEF ReleaseLease
<1> QED
  BY <1>5, <1>6, <1>7, <1>8, <1>9

\* Every step keeps the invariant.
LEMMA NextKeeps ==
  ASSUME IInv, [Next]_vars
  PROVE  IInv'
<1>1. CASE ReturnCancelled
  BY <1>1, QuietStep DEF ReturnCancelled, IInv, TypeOK
<1>2. CASE ReturnEnd
  <2>1. offset = Points
    BY <1>2, RecyclingAssumption DEF ReturnEnd, IInv, TypeOK
  <2> QED
    BY <1>2, <2>1, QuietStep DEF ReturnEnd, IInv, TypeOK
<1>3. CASE ReturnRefused
  BY <1>3, QuietStep DEF ReturnRefused, IInv, TypeOK
<1>4. CASE Cancel
  BY <1>4, QuietStep DEF Cancel, IInv, TypeOK, Positioned
<1>5. CASE \E s \in Slot : Reserve(s)
  BY <1>5, ReserveKeeps
<1>6. CASE \E s \in Slot : TakeBuffers(s)
  BY <1>6, TakeBuffersKeeps
<1>7. CASE \E s \in Slot : Emit(s)
  BY <1>7, EmitKeeps
<1>8. CASE \E s \in Slot : ReturnBuffers(s)
  BY <1>8, ReturnBuffersKeeps
<1>9. CASE \E s \in Slot : ReleaseLease(s)
  BY <1>9, ReleaseLeaseKeeps
<1>10. CASE UNCHANGED vars
  BY <1>10, QuietStep DEF vars, IInv, TypeOK, Positioned
<1> QED
  BY <1>1, <1>2, <1>3, <1>4, <1>5, <1>6, <1>7, <1>8, <1>9, <1>10
  DEF Next, NextChunk, DropChunk

THEOREM Invariance == Spec => []IInv
<1>1. Init => IInv
  BY InitEstablishes
<1>2. IInv /\ [Next]_vars => IInv'
  BY NextKeeps
<1> QED
  BY <1>1, <1>2, PTL DEF Spec

-----------------------------------------------------------------------------
\* Every lease fits the budget and every variable keeps its range.
THEOREM RecyclingTypeCorrect == Spec => []TypeOK
<1>1. IInv => TypeOK
  BY DEF IInv
<1> QED
  BY <1>1, Invariance, PTL

\* The buffers the source keeps are bounded by the memory its chunks have
\* reserved at most, although pooled buffers hold no lease: take_buffers
\* allocates only when the pool is empty, and Drop refills it before the lease
\* is released.
THEOREM PoolIsBounded == Spec => []BuffersWithinPeak
<1>1. IInv => BuffersWithinPeak
  BY DEF IInv
<1> QED
  BY <1>1, Invariance, PTL

\* No order of drops loses a buffer set or pools it twice.
THEOREM NoBufferLost == Spec => []BuffersConserved
<1>1. IInv => BuffersConserved
  BY DEF IInv
<1> QED
  BY <1>1, Invariance, PTL

\* The chunks emitted are contiguous from the first point on, whatever pulls
\* were refused between them, and the end is announced after the last point.
THEOREM StreamIsComplete == Spec => []NothingSkipped
<1>1. IInv => NothingSkipped
  <2> SUFFICES ASSUME IInv PROVE NothingSkipped
    OBVIOUS
  <2>1. answer = "end" =>
          \/ Points = 0
          \/ emitted[Len(emitted)].first + emitted[Len(emitted)].count = Points
    BY DEF IInv, Positioned
  <2> QED
    BY <2>1 DEF IInv, Contiguous, NothingSkipped
<1> QED
  BY <1>1, Invariance, PTL
-----------------------------------------------------------------------------
(* The leases implement the ledger of the tracker *)

\* What each chunk owns, in leases.
LeaseOf == [s \in Slot |-> IF chunk[s] \in Leasing THEN 1 ELSE 0]

Ledger == INSTANCE BudgetLedger WITH Client <- Slot, Limit <- Budget, owned <- LeaseOf

\* The counter is what the ledger's clients own.
LEMMA LedgerTotal ==
  ASSUME IInv
  PROVE  Ledger!OwnedTotal = reserved
<1>1. Cells(LeaseOf, Slot, Budget) = In(Leasing) \X {1}
  BY RecyclingAssumption DEF Cells, LeaseOf, In
<1>2. IsFiniteSet(In(Leasing)) /\ Cardinality(In(Leasing)) \in Nat
  BY InFinite
<1>3. IsFiniteSet({1}) /\ Cardinality({1}) = 1
  BY FS_Singleton
<1>4. Cardinality(In(Leasing) \X {1}) = Cardinality(In(Leasing)) * 1
  BY <1>2, <1>3, FS_Product
<1>5. Total(LeaseOf, Slot, Budget) = reserved
  BY <1>1, <1>2, <1>4 DEF Total, IInv, LeasesCounted
<1> QED
  BY <1>5 DEF Ledger!OwnedTotal, Total, Cells, Ledger!Total, Ledger!Cells,
              Cardinality, Ledger!Cardinality

\* A chunk that stays on its side of the lease changes nothing in the ledger.
LEMMA LeaseStays ==
  ASSUME TypeOK, NEW s \in Slot, NEW new, chunk' = [chunk EXCEPT ![s] = new],
         chunk[s] \in Leasing <=> new \in Leasing
  PROVE  LeaseOf' = LeaseOf
<1>1. \A t \in Slot : chunk'[t] = IF t = s THEN new ELSE chunk[t]
  BY DEF TypeOK
<1> QED
  BY <1>1 DEF LeaseOf

\* Pulls and drops are grants and give-backs of the ledger and nothing else: one
\* lease is granted, when it fits, before a chunk exists, it is given back once,
\* after the buffers, and no refusal, cancellation or emission moves memory.
THEOREM LeasesImplementLedger == Spec => Ledger!Spec
<1>1. Init => Ledger!Init
  BY DEF Init, Ledger!Init, LeaseOf, Leasing
<1>2. IInv /\ [Next]_vars => [Ledger!Next]_LeaseOf
  <2> SUFFICES ASSUME IInv, [Next]_vars PROVE Ledger!Next \/ LeaseOf' = LeaseOf
    OBVIOUS
  <2>1. TypeOK
    BY DEF IInv
  <2>2. ASSUME NEW s \in Slot, Reserve(s) PROVE Ledger!Next
    <3>1. chunk' = [chunk EXCEPT ![s] = "leased"] /\ chunk[s] = "free" /\ reserved + 1 <= Budget
      BY <2>2 DEF Reserve
    <3>2. \A t \in Slot : chunk'[t] = IF t = s THEN "leased" ELSE chunk[t]
      BY <2>1, <3>1 DEF TypeOK
    <3>3. LeaseOf[s] = 0 /\ LeaseOf' = [LeaseOf EXCEPT ![s] = 1]
      BY <3>1, <3>2, StatesCounted DEF LeaseOf
    <3>4. Ledger!OwnedTotal + 1 <= Budget /\ 1 \in 1..Budget
      BY <3>1, LedgerTotal, RecyclingAssumption
    <3>5. Ledger!Grant(s)
      BY <3>3, <3>4 DEF Ledger!Grant
    <3> QED
      BY <3>5 DEF Ledger!Next
  <2>3. ASSUME NEW s \in Slot, ReleaseLease(s) PROVE Ledger!Next
    <3>1. chunk' = [chunk EXCEPT ![s] = "free"] /\ chunk[s] = "emptied"
      BY <2>3 DEF ReleaseLease
    <3>2. \A t \in Slot : chunk'[t] = IF t = s THEN "free" ELSE chunk[t]
      BY <2>1, <3>1 DEF TypeOK
    <3>3. LeaseOf[s] = 1 /\ LeaseOf' = [LeaseOf EXCEPT ![s] = 0]
      BY <3>1, <3>2, StatesCounted DEF LeaseOf
    <3>4. 0 \in 0..Budget /\ 0 < LeaseOf[s]
      BY <3>3, RecyclingAssumption
    <3>5. Ledger!GiveBack(s)
      BY <3>3, <3>4 DEF Ledger!GiveBack
    <3> QED
      BY <3>5 DEF Ledger!Next
  <2>4. ASSUME NEW s \in Slot, TakeBuffers(s) \/ Emit(s) \/ ReturnBuffers(s)
        PROVE  LeaseOf' = LeaseOf
    BY <2>1, <2>4, LeaseStays, StatesCounted DEF TakeBuffers, Emit, ReturnBuffers
  <2>5. CASE ReturnCancelled \/ ReturnEnd \/ ReturnRefused \/ Cancel \/ UNCHANGED vars
    BY <2>5 DEF ReturnCancelled, ReturnEnd, ReturnRefused, Cancel, vars, memory, LeaseOf
  <2> QED
    BY <2>2, <2>3, <2>4, <2>5 DEF Next, NextChunk, DropChunk
<1> QED
  BY <1>1, <1>2, Invariance, PTL DEF Spec, Ledger!Spec
-----------------------------------------------------------------------------
(* The source is a stream of records *)

StreamState ==
    IF answer = "cancelled" THEN "failed" ELSE IF answer = "end" THEN "ended" ELSE "open"

\* An emitted chunk, as its receiver sees it.
Chunk(e) == [identity |-> e.identity, points |-> e.count]

Chunks == {Chunk(emitted[i]) : i \in DOMAIN emitted}

\* The whole cloud is there from the start.
Stream == INSTANCE RecordStream WITH
    produced <- Points, position <- next, delivered <- Chunks, state <- StreamState

\* A stream that has answered a cancellation pulls no more.
CancelledStays == answer = "cancelled" => cancelled /\ Idle

LEMMA CancelledHolds == Spec => []CancelledStays
<1>1. Init => CancelledStays
  BY DEF Init, CancelledStays
<1>2. IInv /\ CancelledStays /\ [Next]_vars => CancelledStays'
  <2> SUFFICES ASSUME IInv, CancelledStays, [Next]_vars PROVE CancelledStays'
    OBVIOUS
  <2>1. chunk \in [Slot -> {"free", "leased", "filled", "live", "emptied"}]
    BY DEF IInv, TypeOK
  <2>2. CASE ReturnCancelled
    BY <2>2 DEF ReturnCancelled, CancelledStays, Idle, memory
  <2>3. CASE ReturnEnd \/ ReturnRefused
    BY <2>3 DEF ReturnEnd, ReturnRefused, CancelledStays
  <2>4. ASSUME NEW s \in Slot, Reserve(s) PROVE CancelledStays'
    BY <2>4 DEF Reserve, CancelledStays
  <2>5. ASSUME NEW s \in Slot, TakeBuffers(s) PROVE CancelledStays'
    BY <2>5 DEF TakeBuffers, CancelledStays, Idle
  <2>6. ASSUME NEW s \in Slot, Emit(s) PROVE CancelledStays'
    BY <2>6 DEF Emit, CancelledStays
  <2>7. ASSUME NEW s \in Slot, ReturnBuffers(s) \/ ReleaseLease(s) PROVE CancelledStays'
    BY <2>1, <2>7 DEF ReturnBuffers, ReleaseLease, CancelledStays, Idle
  <2>8. CASE Cancel \/ UNCHANGED vars
    BY <2>8 DEF Cancel, vars, memory, CancelledStays, Idle
  <2> QED
    BY <2>2, <2>3, <2>4, <2>5, <2>6, <2>7, <2>8 DEF Next, NextChunk, DropChunk
<1> QED
  BY <1>1, <1>2, Invariance, PTL DEF Spec

\* A step that emits nothing leaves the stream where it is.
LEMMA StreamStays ==
  ASSUME UNCHANGED <<position, answer>>
  PROVE  UNCHANGED Stream!vars
<1>1. emitted' = emitted /\ next' = next /\ answer' = answer
  BY DEF position
<1>2. Chunks' = Chunks
  BY <1>1 DEF Chunks
<1> QED
  BY <1>1, <1>2 DEF Stream!vars, StreamState

\* A chunk that is emitted carries the next identity and as many points as the
\* stream advances by.
LEMMA EmitDelivers ==
  ASSUME IInv, CancelledStays, NEW s \in Slot, Emit(s)
  PROVE  Stream!Deliver
<1> DEFINE end == Smaller(offset + ChunkPoints, Points)
           count == end - offset
           new == [identity |-> next, first |-> offset, count |-> count]
<1>1. /\ emitted' = Append(emitted, new)
      /\ next' = [sequence |-> next.sequence + 1,
                  point_offset |-> next.point_offset + count]
      /\ answer' = "chunk" /\ chunk[s] = "filled"
  BY DEF Emit
<1>2. /\ emitted \in Seq([identity : [sequence : Nat, point_offset : Nat],
                          first : Nat, count : Nat])
      /\ offset \in 0..Points
  BY DEF IInv, TypeOK
<1>3. offset < Points /\ answer # "end" /\ next.point_offset = offset
  BY <1>1, <1>2 DEF IInv, OnePull, Positioned, Pulling
<1>4. answer # "cancelled"
  BY <1>1 DEF CancelledStays, Idle
<1>5. count \in Nat \ {0} /\ offset + count <= Points
  BY <1>2, <1>3, RecyclingAssumption DEF Smaller
<1> HIDE DEF count
<1>6. Chunks' = Chunks \cup {Chunk(new)}
  <2>1. DOMAIN emitted' = DOMAIN emitted \cup {Len(emitted) + 1}
    <3>1. DOMAIN emitted = 1..Len(emitted) /\ DOMAIN emitted' = 1..(Len(emitted) + 1)
      BY <1>1, <1>2
    <3>2. Len(emitted) \in Nat
      BY <1>2
    <3> QED
      BY <3>1, <3>2
  <2>2. emitted'[Len(emitted) + 1] = new
    BY <1>1, <1>2
  <2>3. \A i \in DOMAIN emitted : emitted'[i] = emitted[i]
    BY <1>1, <1>2
  <2> QED
    BY <2>1, <2>2, <2>3 DEF Chunks
<1>7. Chunk(new) = [identity |-> next, points |-> count]
  BY DEF Chunk
<1>8. StreamState = "open" /\ StreamState' = "open"
  BY <1>1, <1>3, <1>4 DEF StreamState
<1> QED
  BY <1>1, <1>3, <1>5, <1>6, <1>7, <1>8 DEF Stream!Deliver

\* The source keeps the promise of the trait: what it returns continues what it
\* returned before, whatever was refused in between; it announces the end when
\* the whole cloud has been delivered, and returns nothing after the end or a
\* cancellation.
THEOREM RecyclingImplementsStream == Spec => Stream!Spec
<1>1. Init => Stream!Init
  <2> SUFFICES ASSUME Init PROVE Stream!Init
    OBVIOUS
  <2>1. DOMAIN emitted = {}
    BY DEF Init
  <2>2. Chunks = {}
    BY <2>1 DEF Chunks
  <2> QED
    BY <2>2, RecyclingAssumption DEF Init, Stream!Init, StreamState
<1>2. IInv /\ CancelledStays /\ [Next]_vars => [Stream!Next]_(Stream!vars)
  <2> SUFFICES ASSUME IInv, CancelledStays, [Next]_vars
               PROVE  Stream!Next \/ UNCHANGED Stream!vars
    OBVIOUS
  <2>1. CASE ReturnCancelled
    <3>1. UNCHANGED position /\ StreamState' = "failed"
      BY <2>1 DEF ReturnCancelled, StreamState
    <3> QED
      BY <3>1 DEF Stream!Fail, Stream!Next, position, Chunks
  <2>2. CASE ReturnEnd
    <3>1. /\ UNCHANGED position /\ answer' = "end" /\ ~cancelled
          /\ offset = Points
      BY <2>2, RecyclingAssumption DEF ReturnEnd, IInv, TypeOK
    <3>2. answer # "cancelled" /\ next.point_offset = Points
      BY <3>1 DEF CancelledStays, IInv, Positioned
    <3>3. CASE answer = "end"
      BY <3>1, <3>3, StreamStays
    <3>4. CASE answer # "end"
      BY <3>1, <3>2, <3>4 DEF Stream!Finish, Stream!Next, StreamState, position, Chunks
    <3> QED
      BY <3>3, <3>4
  <2>3. CASE ReturnRefused
    <3>1. UNCHANGED position /\ answer' = "refused" /\ ~cancelled /\ offset < Points
      BY <2>3 DEF ReturnRefused
    <3>2. answer # "cancelled" /\ answer # "end"
      BY <3>1, RecyclingAssumption DEF CancelledStays, IInv, TypeOK, Positioned
    <3> QED
      BY <3>1, <3>2 DEF Stream!vars, StreamState, position, Chunks
  <2>4. ASSUME NEW s \in Slot, Emit(s) PROVE Stream!Next
    BY <2>4, EmitDelivers DEF Stream!Next
  <2>5. ASSUME NEW s \in Slot,
               Reserve(s) \/ TakeBuffers(s) \/ ReturnBuffers(s) \/ ReleaseLease(s)
        PROVE  UNCHANGED Stream!vars
    BY <2>5, StreamStays DEF Reserve, TakeBuffers, ReturnBuffers, ReleaseLease
  <2>6. CASE Cancel \/ UNCHANGED vars
    BY <2>6, StreamStays DEF Cancel, vars
  <2> QED
    BY <2>1, <2>2, <2>3, <2>4, <2>5, <2>6 DEF Next, NextChunk, DropChunk
<1> QED
  BY <1>1, <1>2, Invariance, CancelledHolds, PTL DEF Spec, Stream!Spec
=============================================================================

------------------------ MODULE MemoryTrackerProofs ------------------------
(***************************************************************************)
(* Proofs about MemoryTracker for every finite set of clients, every limit *)
(* and every counter width: the accounting is exact and within the limit,  *)
(* no subtraction underflows, the peak is exact when no fetch_max is       *)
(* pending, a snapshot exceeds it only by what is pending, and the tracker *)
(* implements the one-step ledger.                                         *)
(***************************************************************************)
EXTENDS MemoryTracker, ByteSumProofs

\* What makes PeakIsExact inductive: the highest total is the peak, or the sum
\* some client has stored in the counter and has not yet raised the peak to.
PeakPending ==
    /\ peak <= highest
    /\ \A c \in Client : pc[c] = "raising" => seen[c] + bytes[c] <= highest
    /\ peak = highest \/ \E c \in Client : /\ pc[c] = "raising"
                                           /\ seen[c] + bytes[c] = highest

IInv == TypeOK /\ ExactAccounting /\ PeakPending

-----------------------------------------------------------------------------
\* A subtraction that does not go below zero does not wrap.
LEMMA NoWrap ==
  ASSUME NEW a \in 0..MaxU64, NEW b \in 0..MaxU64, b <= a
  PROVE  WrappingSub(a, b) = a - b
<1>1. a - b \in 0..MaxU64 /\ MaxU64 \in Nat
  BY TrackerAssumption
<1>2. \A m \in Nat : \A x \in 0..m : x % (m + 1) = x
  OBVIOUS
<1> QED
  BY <1>1, <1>2 DEF WrappingSub

\* The function ExactAccounting sums has the type the lemmas of Total need.
LEMMA OwnedType ==
  ASSUME TypeOK, ExactAccounting
  PROVE  Owned \in [Client -> 0..Limit]
<1>1. \A c \in Client : Owned[c] \in 0..Limit
  BY TrackerAssumption DEF Owned, Owns, TypeOK, ExactAccounting
<1> QED
  BY <1>1 DEF Owned

\* One client's holding changes and the counter moves by the same amount.
LEMMA AccountingMoves ==
  ASSUME TypeOK, ExactAccounting, NEW c \in Client, NEW n \in 0..Limit,
         Owned' = [Owned EXCEPT ![c] = n],
         current' = (current - Owned[c]) + n,
         current' <= Limit
  PROVE  ExactAccounting'
<1>1. Owned \in [Client -> 0..Limit]
  BY OwnedType
<1>2. Total(Owned', Client, Limit) = (Total(Owned, Client, Limit) - Owned[c]) + n
  <2>1. /\ Owned' \in [Client -> 0..Limit]
        /\ Owned'[c] = n
        /\ \A d \in Client : d # c => Owned'[d] = Owned[d]
    BY <1>1
  <2>2. \A f, g \in [Client -> 0..Limit] :
          (\A d \in Client : d # c => g[d] = f[d])
            => Total(g, Client, Limit) = (Total(f, Client, Limit) - f[c]) + g[c]
    BY TrackerAssumption, TotalUpdate
  <2> QED
    BY <1>1, <2>1, <2>2
<1>3. \A d \in Client : Owned'[d] <= Limit
  BY <1>1, TrackerAssumption
<1> QED
  BY <1>2, <1>3 DEF ExactAccounting

\* Nobody's holding changes and the counter does not move.
LEMMA AccountingStays ==
  ASSUME ExactAccounting, Owned' = Owned, current' = current
  PROVE  ExactAccounting'
BY DEF ExactAccounting

\* The bytes of one reservation never exceed the counter.
LEMMA CounterCovers ==
  ASSUME TypeOK, ExactAccounting, NEW c \in Client
  PROVE  Owned[c] \in 0..Limit /\ Owned[c] <= current
<1>1. Owned \in [Client -> 0..Limit]
  BY OwnedType
<1>2. Owned[c] <= Total(Owned, Client, Limit)
  BY <1>1, TrackerAssumption, TotalCoversEach
<1> QED
  BY <1>1, <1>2 DEF ExactAccounting

-----------------------------------------------------------------------------
LEMMA InitEstablishes == Init => IInv
<1> SUFFICES ASSUME Init PROVE IInv
  OBVIOUS
<1>1. TypeOK
  BY TrackerAssumption DEF Init, TypeOK
<1>2. Owned = [c \in Client |-> 0]
  BY DEF Init, Owned, Owns
<1>3. ExactAccounting
  BY <1>2, TrackerAssumption, TotalOfNothing DEF Init, ExactAccounting
<1>4. PeakPending
  BY DEF Init, PeakPending
<1> QED
  BY <1>1, <1>3, <1>4 DEF IInv

LEMMA LoadStep ==
  ASSUME IInv, NEW c \in Client, NEW n \in Request, Load(c, n)
  PROVE  IInv' /\ Owned' = Owned
<1> USE DEF IInv
<1>1. TypeOK'
  BY TrackerAssumption DEF TypeOK, Load, readerVars
<1>2. Owned' = Owned
  BY DEF Load, Owned, Owns, TypeOK
<1>3. ExactAccounting'
  BY <1>2, AccountingStays DEF Load
<1>4. PeakPending'
  BY DEF PeakPending, Load, TypeOK
<1> QED
  BY <1>1, <1>2, <1>3, <1>4

LEMMA RefuseStep ==
  ASSUME IInv, NEW c \in Client, Refuse(c)
  PROVE  IInv' /\ Owned' = Owned
<1> USE DEF IInv
<1>1. TypeOK'
  BY TrackerAssumption DEF TypeOK, Refuse, readerVars
<1>2. Owned' = Owned
  BY DEF Refuse, Owned, Owns, TypeOK
<1>3. ExactAccounting'
  BY <1>2, AccountingStays DEF Refuse
<1>4. PeakPending'
  BY DEF PeakPending, Refuse, TypeOK
<1> QED
  BY <1>1, <1>2, <1>3, <1>4

LEMMA ExchangeLosesStep ==
  ASSUME IInv, NEW c \in Client, ExchangeLoses(c)
  PROVE  IInv' /\ Owned' = Owned
<1> USE DEF IInv
<1>1. TypeOK'
  BY TrackerAssumption DEF TypeOK, ExchangeLoses, readerVars
<1>2. Owned' = Owned
  BY DEF ExchangeLoses, Owned, Owns, TypeOK
<1>3. ExactAccounting'
  BY <1>2, AccountingStays DEF ExchangeLoses
<1>4. PeakPending'
  BY DEF PeakPending, ExchangeLoses, TypeOK
<1> QED
  BY <1>1, <1>2, <1>3, <1>4

\* The grant: the exchange stores the sum only if the counter still is what
\* the sum was computed from.
LEMMA ExchangeWinsStep ==
  ASSUME IInv, NEW c \in Client, ExchangeWins(c)
  PROVE  /\ IInv'
         /\ Owned[c] = 0
         /\ bytes[c] \in 0..Limit
         /\ current + bytes[c] <= Limit
         /\ Owned' = [Owned EXCEPT ![c] = bytes[c]]
<1> USE DEF IInv
<1>1. bytes[c] \in 0..Limit /\ current + bytes[c] <= Limit
  BY TrackerAssumption DEF ExchangeWins, Fits, TypeOK
<1>2. Owned[c] = 0
  BY DEF ExchangeWins, Owned, Owns
<1>3. Owned' = [Owned EXCEPT ![c] = bytes[c]]
  BY DEF ExchangeWins, Owned, Owns, TypeOK
<1>4. TypeOK'
  BY <1>1, TrackerAssumption DEF TypeOK, ExchangeWins, Larger, readerVars
<1>5. current' = (current - Owned[c]) + bytes[c] /\ current' <= Limit
  BY <1>1, <1>2 DEF ExchangeWins, TypeOK
<1>6. ExactAccounting'
  BY <1>1, <1>3, <1>5, AccountingMoves
<1>7. PeakPending'
  <2>1. highest' = highest \/ highest' = seen[c] + bytes[c]
    BY DEF ExchangeWins, Larger
  <2>2. highest <= highest' /\ seen[c] + bytes[c] <= highest'
    BY DEF ExchangeWins, Larger, TypeOK
  <2>3. /\ pc'[c] = "raising" /\ seen' = seen /\ bytes' = bytes /\ peak' = peak
        /\ \A d \in Client : d # c => pc'[d] = pc[d]
        /\ pc[c] # "raising"
    BY DEF ExchangeWins, TypeOK
  <2> QED
    BY <2>1, <2>2, <2>3, TrackerAssumption, <1>4 DEF PeakPending, TypeOK
<1> QED
  BY <1>1, <1>2, <1>3, <1>4, <1>6, <1>7

LEMMA RaisePeakStep ==
  ASSUME IInv, NEW c \in Client, RaisePeak(c)
  PROVE  IInv' /\ Owned' = Owned
<1> USE DEF IInv
<1>1. seen[c] + bytes[c] <= highest
  BY DEF RaisePeak, PeakPending
<1>2. TypeOK'
  BY <1>1, TrackerAssumption DEF TypeOK, RaisePeak, Larger, readerVars
<1>3. Owned' = Owned
  BY DEF RaisePeak, Owned, Owns, TypeOK
<1>4. ExactAccounting'
  BY <1>3, AccountingStays DEF RaisePeak
<1>5. PeakPending'
  BY <1>1, <1>2, TrackerAssumption DEF PeakPending, RaisePeak, TypeOK, Larger
<1> QED
  BY <1>2, <1>3, <1>4, <1>5

\* Giving back part of a reservation lowers the counter by exactly that part.
LEMMA ShrinkToStep ==
  ASSUME IInv, NEW c \in Client, NEW n \in 0..Limit, ShrinkTo(c, n)
  PROVE  /\ IInv'
         /\ n < Owned[c]
         /\ Owned' = [Owned EXCEPT ![c] = n]
<1> USE DEF IInv
<1>1. Owned[c] = bytes[c] /\ bytes[c] \in 0..Limit /\ bytes[c] <= current
  BY CounterCovers DEF Owned, Owns, ShrinkTo
<1>2. n < Owned[c]
  BY <1>1 DEF ShrinkTo
<1>3. Owned' = [Owned EXCEPT ![c] = n]
  BY DEF ShrinkTo, Owned, Owns, TypeOK
<1>4. current' = (current - Owned[c]) + n
  <2>1. bytes[c] - n \in 0..MaxU64 /\ bytes[c] - n <= current /\ current \in 0..MaxU64
    BY <1>1, <1>2, TrackerAssumption DEF TypeOK
  <2>2. WrappingSub(current, bytes[c] - n) = current - (bytes[c] - n)
    BY <2>1, NoWrap
  <2> QED
    BY <1>1, <2>1, <2>2, TrackerAssumption DEF ShrinkTo, TypeOK
<1>5. current' \in 0..Limit
  BY <1>1, <1>2, <1>4, TrackerAssumption DEF ExactAccounting, TypeOK
<1>6. TypeOK'
  BY <1>5, TrackerAssumption DEF TypeOK, ShrinkTo, readerVars
<1>7. ExactAccounting'
  <2>1. current' <= Limit
    BY <1>5, TrackerAssumption
  <2> QED
    BY <1>3, <1>4, <2>1, AccountingMoves
<1>8. PeakPending'
  BY DEF PeakPending, ShrinkTo, TypeOK
<1> QED
  BY <1>2, <1>3, <1>6, <1>7, <1>8

LEMMA DropStep ==
  ASSUME IInv, NEW c \in Client, DropReservation(c)
  PROVE  IInv' /\ Owned' = [Owned EXCEPT ![c] = 0]
<1> USE DEF IInv
<1>1. Owned[c] = bytes[c] /\ bytes[c] \in 0..Limit /\ bytes[c] <= current
  BY CounterCovers DEF Owned, Owns, DropReservation
<1>2. Owned' = [Owned EXCEPT ![c] = 0]
  BY DEF DropReservation, Owned, Owns, TypeOK
<1>3. current' = (current - Owned[c]) + 0
  <2>1. bytes[c] \in 0..MaxU64 /\ current \in 0..MaxU64
    BY <1>1, TrackerAssumption DEF TypeOK
  <2>2. WrappingSub(current, bytes[c]) = current - bytes[c]
    BY <1>1, <2>1, NoWrap
  <2> QED
    BY <1>1, <2>1, <2>2, TrackerAssumption DEF DropReservation
<1>4. current' \in 0..Limit
  BY <1>1, <1>3, TrackerAssumption DEF ExactAccounting, TypeOK
<1>5. TypeOK'
  BY <1>4, TrackerAssumption DEF TypeOK, DropReservation, readerVars
<1>6. ExactAccounting'
  <2>1. current' <= Limit /\ 0 \in 0..Limit
    BY <1>4, TrackerAssumption
  <2> QED
    BY <1>2, <1>3, <2>1, AccountingMoves
<1>7. PeakPending'
  BY DEF PeakPending, DropReservation, TypeOK
<1> QED
  BY <1>2, <1>5, <1>6, <1>7

LEMMA ReaderStepStep ==
  ASSUME IInv, NEW r \in Reader, ReaderStep(r)
  PROVE  IInv' /\ Owned' = Owned
<1> USE DEF IInv
<1>1. /\ UNCHANGED <<current, peak, pc, bytes, seen, highest>>
  BY DEF ReaderStep, SnapshotCurrent, SnapshotPeak, clientVars
<1>2. TypeOK'
  <2>1. CASE SnapshotCurrent(r)
    BY <2>1, TrackerAssumption DEF TypeOK, SnapshotCurrent, clientVars
  <2>2. CASE SnapshotPeak(r)
    BY <2>2, TrackerAssumption DEF TypeOK, SnapshotPeak, clientVars
  <2> QED
    BY <2>1, <2>2 DEF ReaderStep
<1>3. Owned' = Owned
  BY <1>1 DEF Owned, Owns
<1>4. ExactAccounting'
  BY <1>1, <1>3, AccountingStays
<1>5. PeakPending'
  BY <1>1 DEF PeakPending
<1> QED
  BY <1>2, <1>3, <1>4, <1>5

LEMMA StutterStep ==
  ASSUME IInv, UNCHANGED vars
  PROVE  IInv' /\ Owned' = Owned
<1> USE DEF IInv, vars, clientVars, readerVars
<1>1. TypeOK'
  BY DEF TypeOK
<1>2. Owned' = Owned
  BY DEF Owned, Owns
<1>3. ExactAccounting'
  BY <1>2, AccountingStays
<1>4. PeakPending'
  BY DEF PeakPending
<1> QED
  BY <1>1, <1>2, <1>3, <1>4

LEMMA InvariantStep == IInv /\ [Next]_vars => IInv'
<1> SUFFICES ASSUME IInv, [Next]_vars PROVE IInv'
  OBVIOUS
<1>1. ASSUME NEW c \in Client, ClientStep(c) PROVE IInv'
  BY <1>1, LoadStep, RefuseStep, ExchangeWinsStep, ExchangeLosesStep,
     RaisePeakStep, ShrinkToStep, DropStep DEF ClientStep
<1>2. ASSUME NEW r \in Reader, ReaderStep(r) PROVE IInv'
  BY <1>2, ReaderStepStep
<1>3. CASE UNCHANGED vars
  BY <1>3, StutterStep
<1> QED
  BY <1>1, <1>2, <1>3 DEF Next

LEMMA Invariant == Spec => []IInv
<1>1. Init => IInv
  BY InitEstablishes
<1>2. IInv /\ [Next]_vars => IInv'
  BY InvariantStep
<1> QED
  BY <1>1, <1>2, PTL DEF Spec

-----------------------------------------------------------------------------
\* Every variable keeps its type: counters stay within their width, the peak
\* and the history within the budget.
THEOREM TypeCorrect == Spec => []TypeOK
<1>1. IInv => TypeOK
  BY DEF IInv
<1> QED
  BY <1>1, Invariant, PTL

\* current_bytes is what the live reservations hold, never above the limit.
THEOREM AccountingIsExact == Spec => []ExactAccounting
<1>1. IInv => ExactAccounting
  BY DEF IInv
<1> QED
  BY <1>1, Invariant, PTL

\* The debug_assert in shrink_to and drop can never fire.
THEOREM NeverUnderflows == Spec => []NoUnderflow
<1>1. IInv => NoUnderflow
  <2> SUFFICES ASSUME IInv, NEW c \in Client, pc[c] = "held"
               PROVE  bytes[c] <= current
    BY DEF NoUnderflow
  <2>1. Owned[c] <= current
    BY CounterCovers DEF IInv
  <2> QED
    BY <2>1 DEF Owned, Owns
<1> QED
  BY <1>1, Invariant, PTL

\* The counter never was above the highest total, and no snapshot saw it there.
SeenBelowHighest == current <= highest /\ \A r \in Reader : snap[r] <= highest

LEMMA SeenBelowHighestStep ==
  ASSUME IInv, SeenBelowHighest, [Next]_vars
  PROVE  SeenBelowHighest'
<1> USE DEF SeenBelowHighest
<1>1. /\ current \in Nat /\ highest \in Nat /\ current \in 0..Limit
      /\ snap \in [Reader -> 0..MaxU64]
  BY TrackerAssumption DEF IInv, TypeOK, ExactAccounting
<1>2. ASSUME NEW c \in Client, ClientStep(c) PROVE SeenBelowHighest'
  <2>1. snap' = snap
    BY <1>2 DEF ClientStep, Load, Refuse, ExchangeWins, ExchangeLoses, RaisePeak, ShrinkTo,
                DropReservation, readerVars
  <2>2. CASE ExchangeWins(c)
    <3>1. /\ current' = seen[c] + bytes[c] /\ highest' = Larger(highest, seen[c] + bytes[c])
          /\ seen[c] + bytes[c] \in Nat
      BY <2>2, TrackerAssumption DEF ExchangeWins, IInv, TypeOK
    <3>2. current' <= highest' /\ highest <= highest' /\ highest' \in Nat
      BY <1>1, <3>1 DEF Larger
    <3>3. \A r \in Reader : snap[r] <= highest'
      BY <1>1, <3>2, TrackerAssumption
    <3> QED
      BY <2>1, <3>2, <3>3
  <2>3. CASE \E n \in 0..Limit : ShrinkTo(c, n)
    <3>1. PICK n \in 0..Limit : ShrinkTo(c, n)
      BY <2>3
    <3>2. n < Owned[c] /\ Owned[c] \in 0..Limit /\ Owned[c] <= current /\ Owned[c] = bytes[c]
      BY <3>1, ShrinkToStep, CounterCovers DEF IInv, ShrinkTo, Owned, Owns
    <3>3. current' = current - (bytes[c] - n)
      <4>1. bytes[c] - n \in 0..MaxU64 /\ bytes[c] - n <= current /\ current \in 0..MaxU64
        BY <1>1, <3>2, TrackerAssumption
      <4> QED
        BY <3>1, <4>1, NoWrap DEF ShrinkTo
    <3>4. current' <= highest /\ highest' = highest
      BY <1>1, <3>1, <3>2, <3>3, TrackerAssumption DEF ShrinkTo
    <3> QED
      BY <2>1, <3>4
  <2>4. CASE DropReservation(c)
    <3>1. Owned[c] \in 0..Limit /\ Owned[c] <= current /\ Owned[c] = bytes[c]
      BY <2>4, CounterCovers DEF IInv, DropReservation, Owned, Owns
    <3>2. current' = current - bytes[c]
      <4>1. bytes[c] \in 0..MaxU64 /\ current \in 0..MaxU64
        BY <1>1, <3>1, TrackerAssumption
      <4> QED
        BY <2>4, <3>1, <4>1, NoWrap DEF DropReservation
    <3>3. current' <= highest /\ highest' = highest
      BY <1>1, <2>4, <3>1, <3>2, TrackerAssumption DEF DropReservation
    <3> QED
      BY <2>1, <3>3
  <2>5. CASE \/ \E n \in Request : Load(c, n)
             \/ Refuse(c) \/ ExchangeLoses(c) \/ RaisePeak(c)
    BY <2>1, <2>5 DEF Load, Refuse, ExchangeLoses, RaisePeak
  <2> QED
    BY <1>2, <2>2, <2>3, <2>4, <2>5 DEF ClientStep
<1>3. ASSUME NEW r \in Reader, ReaderStep(r) PROVE SeenBelowHighest'
  <2>1. /\ UNCHANGED <<current, highest>>
        /\ snap' = [snap EXCEPT ![r] = current] \/ snap' = [snap EXCEPT ![r] = 0]
    BY <1>3 DEF ReaderStep, SnapshotCurrent, SnapshotPeak
  <2> QED
    BY <1>1, <2>1
<1>4. CASE UNCHANGED vars
  BY <1>4 DEF vars, readerVars
<1> QED
  BY <1>2, <1>3, <1>4 DEF Next

\* The peak never overstates the highest total and is exact once no fetch_max
\* is pending; only the reservations whose fetch_max is pending can make a
\* snapshot return more current than peak bytes.
THEOREM PeakExactWhenQuiet == Spec => []PeakIsExact
<1>1. Init => SeenBelowHighest
  BY DEF Init, SeenBelowHighest
<1>2. IInv /\ SeenBelowHighest /\ [Next]_vars => SeenBelowHighest'
  BY SeenBelowHighestStep
<1>3. IInv /\ SeenBelowHighest => PeakIsExact
  <2> SUFFICES ASSUME IInv, SeenBelowHighest PROVE PeakIsExact
    OBVIOUS
  <2>1. PeakPending
    BY DEF IInv
  <2>2. ASSUME NEW r \in Reader, snap[r] > peak
        PROVE  \E c \in Client : pc[c] = "raising" /\ seen[c] + bytes[c] >= snap[r]
    <3>1. /\ snap[r] \in Nat /\ highest \in Nat /\ peak \in Nat /\ snap[r] <= highest
      BY TrackerAssumption DEF IInv, TypeOK, SeenBelowHighest
    <3>2. peak # highest
      BY <2>2, <3>1
    <3> QED
      BY <2>1, <3>1, <3>2 DEF PeakPending
  <2> QED
    BY <2>1, <2>2 DEF PeakPending, PeakIsExact
<1> QED
  BY <1>1, <1>2, <1>3, Invariant, PTL DEF Spec

\* The lock-free tracker implements the ledger that grants in one step.
THEOREM TrackerImplementsLedger == Spec => ImplementsLedger
<1>1. Init => Ledger!Init
  BY DEF Init, Ledger!Init, Owned, Owns
<1>2. IInv /\ [Next]_vars => [Ledger!Next]_Owned
  <2> SUFFICES ASSUME IInv, [Next]_vars PROVE Ledger!Next \/ Owned' = Owned
    OBVIOUS
  <2>1. ASSUME NEW c \in Client, ExchangeWins(c)
        PROVE  Ledger!Next \/ Owned' = Owned
    <3>1. /\ Owned[c] = 0 /\ bytes[c] \in 0..Limit /\ current + bytes[c] <= Limit
          /\ Owned' = [Owned EXCEPT ![c] = bytes[c]]
      BY <2>1, ExchangeWinsStep
    <3>2. CASE bytes[c] = 0
      <4>1. Owned \in [Client -> 0..Limit]
        BY OwnedType DEF IInv
      <4> QED
        BY <3>1, <3>2, <4>1
    <3>3. CASE bytes[c] # 0
      <4>1. bytes[c] \in 1..Limit
        BY <3>1, <3>3, TrackerAssumption
      <4>2. Ledger!OwnedTotal + bytes[c] <= Limit
        <5>1. Ledger!OwnedTotal = Total(Owned, Client, Limit)
          BY DEF Ledger!OwnedTotal, Total, Cells, Ledger!Total, Ledger!Cells,
                 Cardinality, Ledger!Cardinality
        <5> QED
          BY <3>1, <5>1 DEF IInv, ExactAccounting
      <4>3. Ledger!Grant(c)
        BY <3>1, <4>1, <4>2 DEF Ledger!Grant
      <4> QED
        BY <4>3 DEF Ledger!Next
    <3> QED
      BY <3>2, <3>3
  <2>2. ASSUME NEW c \in Client, NEW n \in 0..Limit, ShrinkTo(c, n)
        PROVE  Ledger!Next
    <3>1. n < Owned[c] /\ Owned' = [Owned EXCEPT ![c] = n]
      BY <2>2, ShrinkToStep
    <3>2. Ledger!GiveBack(c)
      BY <3>1 DEF Ledger!GiveBack
    <3> QED
      BY <3>2 DEF Ledger!Next
  <2>3. ASSUME NEW c \in Client, DropReservation(c)
        PROVE  Ledger!Next \/ Owned' = Owned
    <3>1. Owned' = [Owned EXCEPT ![c] = 0] /\ Owned \in [Client -> 0..Limit]
      BY <2>3, DropStep, OwnedType DEF IInv
    <3>2. CASE Owned[c] = 0
      BY <3>1, <3>2
    <3>3. CASE Owned[c] # 0
      <4>1. 0 < Owned[c] /\ 0 \in 0..Limit
        BY <3>1, <3>3, TrackerAssumption
      <4>2. Ledger!GiveBack(c)
        BY <3>1, <4>1 DEF Ledger!GiveBack
      <4> QED
        BY <4>2 DEF Ledger!Next
    <3> QED
      BY <3>2, <3>3
  <2>4. ASSUME NEW c \in Client, ClientStep(c)
        PROVE  Ledger!Next \/ Owned' = Owned
    BY <2>1, <2>2, <2>3, <2>4, LoadStep, RefuseStep, ExchangeLosesStep,
       RaisePeakStep DEF ClientStep
  <2>5. ASSUME NEW r \in Reader, ReaderStep(r) PROVE Owned' = Owned
    BY <2>5, ReaderStepStep
  <2>6. CASE UNCHANGED vars
    BY <2>6, StutterStep
  <2> QED
    BY <2>4, <2>5, <2>6 DEF Next
<1> QED
  BY <1>1, <1>2, Invariant, PTL DEF Spec, ImplementsLedger, Ledger!Spec
=============================================================================

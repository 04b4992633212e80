---------------------------- MODULE MemoryTracker ----------------------------
(***************************************************************************)
(* MemoryTracker, MemoryReservation and the snapshot of                    *)
(* crates/spatialrust-records/src/streaming.rs, at the granularity of its  *)
(* atomic operations.  A client is the life of one reservation: a call of  *)
(* try_reserve that loads the counter, retries a weak compare-exchange,    *)
(* raises the peak in a separate atomic step and returns; then the held    *)
(* reservation, which may shrink and is dropped at last.  Clients step in  *)
(* any order, as the threads that share the tracker do.                    *)
(***************************************************************************)
EXTENDS ByteSum

CONSTANTS Client,   \* the reservations that may exist
          Reader,   \* the threads that take snapshots
          Limit,    \* MemoryBudget::limit_bytes
          MaxU64,   \* the largest value of the counters' type
          Request   \* the byte counts callers ask for

ASSUME TrackerAssumption ==
    /\ IsFiniteSet(Client)
    /\ MaxU64 \in Nat
    /\ Limit \in 1..MaxU64
    /\ Request \subseteq 0..MaxU64

VARIABLES current,  \* current_bytes
          peak,     \* peak_bytes
          pc,       \* where each client is
          bytes,    \* what it asks for, then what its reservation holds
          seen,     \* the `current` its try_reserve works with
          reading,  \* where each snapshot is
          snap,     \* the current_bytes a snapshot under way has loaded
          highest   \* history: the largest value current_bytes has had

clientVars == <<pc, bytes, seen>>
readerVars == <<reading, snap>>
vars == <<current, peak, clientVars, readerVars, highest>>

\* fetch_sub wraps at the width of the counter.
WrappingSub(a, b) == (a - b) % (MaxU64 + 1)

Larger(a, b) == IF a < b THEN b ELSE a

Init ==
    /\ current = 0
    /\ peak = 0
    /\ pc = [c \in Client |-> "idle"]
    /\ bytes = [c \in Client |-> 0]
    /\ seen = [c \in Client |-> 0]
    /\ reading = [r \in Reader |-> "done"]
    /\ snap = [r \in Reader |-> 0]
    /\ highest = 0

-----------------------------------------------------------------------------
(* try_reserve *)

\* Bug: only the overflow of the addition is checked.
FitsTheTypeOnly(c) == seen[c] + bytes[c] <= MaxU64

\* checked_add(bytes) succeeds and the sum is within the limit.
Fits(c) ==
    /\ seen[c] + bytes[c] <= MaxU64
    /\ seen[c] + bytes[c] <= Limit

Load(c, n) ==
    /\ pc[c] = "idle"
    /\ pc' = [pc EXCEPT ![c] = "trying"]
    /\ bytes' = [bytes EXCEPT ![c] = n]
    /\ seen' = [seen EXCEPT ![c] = current]
    /\ UNCHANGED <<current, peak, readerVars, highest>>

\* Err(MemoryBudgetExceeded): nothing was reserved.
Refuse(c) ==
    /\ pc[c] = "trying"
    /\ ~Fits(c)
    /\ pc' = [pc EXCEPT ![c] = "idle"]
    /\ bytes' = [bytes EXCEPT ![c] = 0]
    /\ seen' = [seen EXCEPT ![c] = 0]
    /\ UNCHANGED <<current, peak, readerVars, highest>>

\* Bug: load, check, then a plain store, with no exchange.
StoreWithoutExchange(c) ==
    /\ pc[c] = "trying"
    /\ Fits(c)
    /\ current' = seen[c] + bytes[c]
    /\ highest' = Larger(highest, seen[c] + bytes[c])
    /\ pc' = [pc EXCEPT ![c] = "raising"]
    /\ UNCHANGED <<peak, bytes, seen, readerVars>>

ExchangeWins(c) ==
    /\ pc[c] = "trying"
    /\ Fits(c)
    /\ current = seen[c]
    /\ current' = seen[c] + bytes[c]
    /\ highest' = Larger(highest, seen[c] + bytes[c])
    /\ pc' = [pc EXCEPT ![c] = "raising"]
    /\ UNCHANGED <<peak, bytes, seen, readerVars>>

\* Another client moved the counter; a spurious failure of the weak exchange
\* reads the same value again and is a stuttering step.
ExchangeLoses(c) ==
    /\ pc[c] = "trying"
    /\ Fits(c)
    /\ seen' = [seen EXCEPT ![c] = current]
    /\ UNCHANGED <<current, peak, pc, bytes, readerVars, highest>>

\* Bug: the peak is stored where it should be raised.
StorePeak(c) ==
    /\ pc[c] = "raising"
    /\ peak' = seen[c] + bytes[c]
    /\ pc' = [pc EXCEPT ![c] = "held"]
    /\ seen' = [seen EXCEPT ![c] = 0]
    /\ UNCHANGED <<current, bytes, readerVars, highest>>

\* peak_bytes.fetch_max(next), after the exchange and apart from it.
RaisePeak(c) ==
    /\ pc[c] = "raising"
    /\ peak' = Larger(peak, seen[c] + bytes[c])
    /\ pc' = [pc EXCEPT ![c] = "held"]
    /\ seen' = [seen EXCEPT ![c] = 0]
    /\ UNCHANGED <<current, bytes, readerVars, highest>>

-----------------------------------------------------------------------------
(* MemoryReservation *)

\* Bug: the part that is kept is released, where it should be the rest.
ReleaseTheKeptPart(c, n) ==
    /\ pc[c] = "held"
    /\ n < bytes[c]
    /\ current' = WrappingSub(current, n)
    /\ bytes' = [bytes EXCEPT ![c] = n]
    /\ UNCHANGED <<peak, pc, seen, readerVars, highest>>

\* shrink_to: an attempt to grow is refused and changes nothing.
ShrinkTo(c, n) ==
    /\ pc[c] = "held"
    /\ n < bytes[c]
    /\ current' = WrappingSub(current, bytes[c] - n)
    /\ bytes' = [bytes EXCEPT ![c] = n]
    /\ UNCHANGED <<peak, pc, seen, readerVars, highest>>

\* Drop, on return, on an early return or while unwinding.
DropReservation(c) ==
    /\ pc[c] = "held"
    /\ current' = WrappingSub(current, bytes[c])
    /\ pc' = [pc EXCEPT ![c] = "idle"]
    /\ bytes' = [bytes EXCEPT ![c] = 0]
    /\ UNCHANGED <<peak, seen, readerVars, highest>>

-----------------------------------------------------------------------------
(* snapshot: two loads; it returns snap[r] and the peak loaded last *)

SnapshotCurrent(r) ==
    /\ reading[r] = "done"
    /\ reading' = [reading EXCEPT ![r] = "half"]
    /\ snap' = [snap EXCEPT ![r] = current]
    /\ UNCHANGED <<current, peak, clientVars, highest>>

SnapshotPeak(r) ==
    /\ reading[r] = "half"
    /\ reading' = [reading EXCEPT ![r] = "done"]
    /\ snap' = [snap EXCEPT ![r] = 0]
    /\ UNCHANGED <<current, peak, clientVars, highest>>

-----------------------------------------------------------------------------
ClientStep(c) ==
    \/ \E n \in Request : Load(c, n)
    \/ Refuse(c)
    \/ ExchangeWins(c)
    \/ ExchangeLoses(c)
    \/ RaisePeak(c)
    \/ \E n \in 0..Limit : ShrinkTo(c, n)
    \/ DropReservation(c)

ReaderStep(r) == SnapshotCurrent(r) \/ SnapshotPeak(r)

Next == (\E c \in Client : ClientStep(c)) \/ (\E r \in Reader : ReaderStep(r))

Spec == Init /\ [][Next]_vars

-----------------------------------------------------------------------------
TypeOK ==
    /\ current \in 0..MaxU64
    /\ peak \in 0..Limit
    /\ pc \in [Client -> {"idle", "trying", "raising", "held"}]
    /\ bytes \in [Client -> 0..MaxU64]
    /\ seen \in [Client -> 0..MaxU64]
    /\ reading \in [Reader -> {"half", "done"}]
    /\ snap \in [Reader -> 0..MaxU64]
    /\ highest \in 0..Limit

Owns(c) == pc[c] \in {"raising", "held"}

Owned == [c \in Client |-> IF Owns(c) THEN bytes[c] ELSE 0]

\* "Concurrent, exact accounting": whatever the interleaving of exchanges,
\* shrinks and drops, the counter is what the live reservations hold, and that
\* is within the hard limit.
ExactAccounting ==
    /\ \A c \in Client : Owned[c] <= Limit
    /\ current = Total(Owned, Client, Limit)
    /\ current <= Limit

\* The peak lags only behind reservations whose fetch_max is still to come:
\* it never overstates the highest total, and equals it when none is pending; a
\* snapshot that has loaded more than the peak owes it to one of them.
PeakIsExact ==
    /\ peak <= highest
    /\ (\A c \in Client : pc[c] # "raising") => peak = highest
    /\ \A r \in Reader : reading[r] = "half" /\ snap[r] > peak =>
          \E c \in Client : pc[c] = "raising" /\ seen[c] + bytes[c] >= snap[r]

\* The debug_assert of shrink_to and drop: no fetch_sub goes below zero.
NoUnderflow == \A c \in Client : pc[c] = "held" => bytes[c] <= current

\* The exchange, the shrink and the drop are the grant and the give-back of
\* the ledger: every other step of the tracker is invisible to its owners.
Ledger == INSTANCE BudgetLedger WITH owned <- Owned

ImplementsLedger == Ledger!Spec
=============================================================================

--------------------------- MODULE RecyclingSource ---------------------------
(***************************************************************************)
(* RecyclingMemoryChunkSource and the drop of the chunks it emits          *)
(* (crates/spatialrust-records/src/bounded.rs).  One thread pulls; every   *)
(* chunk it is given may be dropped by any thread, at any moment, in two   *)
(* steps: Drop::drop returns the cleared buffers to the pool, then the     *)
(* fields are dropped and the reservation with them.                       *)
(*                                                                         *)
(* Every lease of this source is for max_chunk_bytes, so memory is counted *)
(* in leases; the tracker is used through the grants and give-backs of     *)
(* BudgetLedger, which MemoryTracker implements.                           *)
(***************************************************************************)
EXTENDS Integers, FiniteSets, Sequences

CONSTANTS Slot,        \* the chunks that may be alive at once
          Budget,      \* leases that fit the memory budget
          Points,      \* points of the backing cloud
          ChunkPoints  \* StreamOptions::chunk_points

ASSUME RecyclingAssumption ==
    /\ IsFiniteSet(Slot)
    /\ Budget \in Nat \ {0}
    /\ Points \in Nat
    /\ ChunkPoints \in Nat \ {0}

VARIABLES chunk,       \* the life of each chunk
          reserved,    \* the tracker's current_bytes, in leases
          peak,        \* the tracker's peak_bytes, in leases
          pool,        \* the number of buffer sets in the recycling pool
          allocations, \* buffer_set_allocations
          offset,      \* points already emitted
          next,        \* next_sequence and next_point_offset
          cancelled,   \* the cancellation token
          answer,      \* what the last finished next_chunk returned
          emitted      \* history: identity and length of the emitted chunks

memory == <<chunk, reserved, peak, pool, allocations>>
position == <<offset, next, emitted>>
vars == <<memory, position, cancelled, answer>>

Smaller(a, b) == IF a < b THEN a ELSE b

Init ==
    /\ chunk = [s \in Slot |-> "free"]
    /\ reserved = 0
    /\ peak = 0
    /\ pool = 0
    /\ allocations = 0
    /\ offset = 0
    /\ next = [sequence |-> 0, point_offset |-> 0]
    /\ cancelled = FALSE
    /\ answer = "none"
    /\ emitted = <<>>

\* No call of next_chunk is between its reservation and its return.
Idle == \A s \in Slot : chunk[s] \notin {"leased", "filled"}

-----------------------------------------------------------------------------
(* next_chunk.  The token is checked first; a cancellation after the check *)
(* is as one after the whole pull.                                         *)

ReturnCancelled ==
    /\ Idle
    /\ cancelled
    /\ answer' = "cancelled"
    /\ UNCHANGED <<memory, position, cancelled>>

ReturnEnd ==
    /\ Idle
    /\ ~cancelled
    /\ offset >= Points
    /\ answer' = "end"
    /\ UNCHANGED <<memory, position, cancelled>>

\* Bug: the position advances before the reservation is granted.
RefusedSkips ==
    /\ Idle
    /\ ~cancelled
    /\ offset < Points
    /\ reserved + 1 > Budget
    /\ offset' = Smaller(offset + ChunkPoints, Points)
    /\ answer' = "refused"
    /\ UNCHANGED <<memory, next, emitted, cancelled>>

\* Err(MemoryBudgetExceeded): the position is untouched and the pull may be
\* retried.
ReturnRefused ==
    /\ Idle
    /\ ~cancelled
    /\ offset < Points
    /\ reserved + 1 > Budget
    /\ answer' = "refused"
    /\ UNCHANGED <<memory, position, cancelled>>

\* Bug: the budget is compared before the new lease is added.
ReserveOneTooMany(s) ==
    /\ Idle
    /\ ~cancelled
    /\ offset < Points
    /\ reserved <= Budget
    /\ chunk[s] = "free"
    /\ chunk' = [chunk EXCEPT ![s] = "leased"]
    /\ reserved' = reserved + 1
    /\ peak' = IF peak < reserved + 1 THEN reserved + 1 ELSE peak
    /\ UNCHANGED <<pool, allocations, position, cancelled, answer>>

\* The full maximum is reserved before any buffer is touched, also for the
\* last, shorter chunk.
Reserve(s) ==
    /\ Idle
    /\ ~cancelled
    /\ offset < Points
    /\ reserved + 1 <= Budget
    /\ chunk[s] = "free"
    /\ chunk' = [chunk EXCEPT ![s] = "leased"]
    /\ reserved' = reserved + 1
    /\ peak' = IF peak < reserved + 1 THEN reserved + 1 ELSE peak
    /\ UNCHANGED <<pool, allocations, position, cancelled, answer>>

\* Bug: a recycled set is cloned, not popped.
CloneBuffers(s) ==
    /\ chunk[s] = "leased"
    /\ chunk' = [chunk EXCEPT ![s] = "filled"]
    /\ allocations' = IF pool > 0 THEN allocations ELSE allocations + 1
    /\ UNCHANGED <<reserved, peak, pool, position, cancelled, answer>>

\* Bug: the pool is never looked at.
AlwaysAllocate(s) ==
    /\ chunk[s] = "leased"
    /\ chunk' = [chunk EXCEPT ![s] = "filled"]
    /\ allocations' = allocations + 1
    /\ UNCHANGED <<reserved, peak, pool, position, cancelled, answer>>

\* take_buffers: a recycled set if there is one, else a counted allocation.
TakeBuffers(s) ==
    /\ chunk[s] = "leased"
    /\ chunk' = [chunk EXCEPT ![s] = "filled"]
    /\ \/ /\ pool > 0
          /\ pool' = pool - 1
          /\ UNCHANGED allocations
       \/ /\ pool = 0
          /\ allocations' = allocations + 1
          /\ UNCHANGED pool
    /\ UNCHANGED <<reserved, peak, position, cancelled, answer>>

\* Copy the range, give the chunk its identity and advance.
Emit(s) ==
    LET end == Smaller(offset + ChunkPoints, Points)
        count == end - offset
    IN  /\ chunk[s] = "filled"
        /\ chunk' = [chunk EXCEPT ![s] = "live"]
        /\ emitted' = Append(emitted, [identity |-> next, first |-> offset, count |-> count])
        /\ next' = [sequence |-> next.sequence + 1,
                    point_offset |-> next.point_offset + count]
        /\ offset' = end
        /\ answer' = "chunk"
        /\ UNCHANGED <<reserved, peak, pool, allocations, cancelled>>

-----------------------------------------------------------------------------
(* SpatialRecordChunk: Drop::drop, then the drop of its fields *)

ReturnBuffers(s) ==
    /\ chunk[s] = "live"
    /\ chunk' = [chunk EXCEPT ![s] = "emptied"]
    /\ pool' = pool + 1
    /\ UNCHANGED <<reserved, peak, allocations, position, cancelled, answer>>

\* Bug: the chunk goes and its lease stays.
LeaseLeaks(s) ==
    /\ chunk[s] = "emptied"
    /\ chunk' = [chunk EXCEPT ![s] = "free"]
    /\ UNCHANGED <<reserved, peak, pool, allocations, position, cancelled, answer>>

ReleaseLease(s) ==
    /\ chunk[s] = "emptied"
    /\ chunk' = [chunk EXCEPT ![s] = "free"]
    /\ reserved' = reserved - 1
    /\ UNCHANGED <<peak, pool, allocations, position, cancelled, answer>>

Cancel ==
    /\ ~cancelled
    /\ cancelled' = TRUE
    /\ UNCHANGED <<memory, position, answer>>

-----------------------------------------------------------------------------
NextChunk ==
    \/ ReturnCancelled
    \/ ReturnEnd
    \/ ReturnRefused
    \/ \E s \in Slot : Reserve(s) \/ TakeBuffers(s) \/ Emit(s)

DropChunk(s) == ReturnBuffers(s) \/ ReleaseLease(s)

Next == NextChunk \/ (\E s \in Slot : DropChunk(s)) \/ Cancel

Spec == Init /\ [][Next]_vars

\* The consumer keeps pulling, also after a refusal, and drops what it got.
\* Nothing obliges anyone to cancel.
FairSpec == Spec /\ WF_vars(NextChunk) /\ \A s \in Slot : WF_vars(DropChunk(s))

-----------------------------------------------------------------------------
TypeOK ==
    /\ chunk \in [Slot -> {"free", "leased", "filled", "live", "emptied"}]
    /\ reserved \in 0..Budget
    /\ peak \in 0..Budget
    /\ pool \in Nat
    /\ allocations \in Nat
    /\ offset \in 0..Points
    /\ next \in [sequence : Nat, point_offset : Nat]
    /\ cancelled \in BOOLEAN
    /\ answer \in {"none", "cancelled", "end", "refused", "chunk"}
    /\ emitted \in Seq([identity : [sequence : Nat, point_offset : Nat],
                        first : Nat, count : Nat])

In(states) == {s \in Slot : chunk[s] \in states}

\* Pooled buffers hold no lease, so the pool could hoard memory the budget does
\* not see.  It cannot: buffer sets are allocated only when more leases than
\* ever before are out at once, because a chunk's buffers are back in the pool
\* before its lease is released.
BuffersWithinPeak == allocations <= peak

\* A buffer set is in the pool or in one chunk: dropping chunks in any order
\* neither loses nor duplicates one.
BuffersConserved == allocations = pool + Cardinality(In({"filled", "live"}))

\* Chunks are emitted in order, with contiguous identities that name the points
\* they hold; a refused or a cancelled pull between two of them skips nothing,
\* and the end is announced only after the last point.
NothingSkipped ==
    /\ \A i \in DOMAIN emitted :
          /\ emitted[i].identity = [sequence |-> i - 1, point_offset |-> emitted[i].first]
          /\ emitted[i].count \in 1..ChunkPoints
          /\ emitted[i].first =
                IF i = 1 THEN 0 ELSE emitted[i - 1].first + emitted[i - 1].count
    /\ answer = "end" =>
          \/ Points = 0
          \/ LET last == emitted[Len(emitted)] IN last.first + last.count = Points

\* Refusals are temporary: unless the stream is cancelled, a consumer that
\* drops what it holds and retries receives the whole cloud.
ReachesTheEnd == <>(cancelled \/ answer = "end")
=============================================================================

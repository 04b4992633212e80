------------------------------- MODULE GpuPools -------------------------------
(***************************************************************************)
(* The two buffer pools of a WgpuRuntime (crates/spatialrust-gpu):         *)
(* retention (src/resource_cache.rs) under the mutex of a GpuBufferPool    *)
(* (src/upload_cache.rs), the scratch batches of src/scratch.rs, and       *)
(* callers that upload, encode, submit and recycle on several threads.     *)
(*                                                                         *)
(* wgpu is external, as the code uses it: an encoder's commands run when   *)
(* it is submitted, in the order of the queue, and a write_buffer takes    *)
(* effect at the next submission, before its commands.  Contents are       *)
(* abstracted to the acquisition that wrote them; of the writes that wait  *)
(* for one buffer only the last can be read.                               *)
(***************************************************************************)
EXTENDS Integers, Sequences, ByteSum

CONSTANTS Batch,        \* users of the pools, each of them with one encoder at a time
          Sizes,        \* the bytes they ask for, 0 among them
          Budgets,      \* retention budgets that are set
          MaxPerKey,    \* MAX_PER_KEY
          MaxAcquires, MaxForeign   \* bounds of the instance

ASSUME PoolAssumption ==
    /\ IsFiniteSet(Batch) /\ IsFiniteSet(Sizes)
    /\ Sizes \subseteq Nat /\ Budgets \subseteq Nat
    /\ MaxPerKey \in Nat \ {0} /\ MaxAcquires \in Nat /\ MaxForeign \in Nat

Pools == {"scratch", "upload"}

VARIABLES pool,      \* ResourceCache: free lists by size, and the counters
          batch,     \* each batch: its pool, what it holds, and its encoder
          orphans,   \* encoders whose batch was dropped before they were submitted
          staged,    \* the write_buffer call that waits for each buffer, 0 if none
          content,   \* what each buffer holds
          acquires,  \* acquisitions so far
          foreign,   \* history: buffers of others that were recycled, by pool
          misread,   \* history: commands read what others had written
          misfiled,  \* history: a buffer was retained under a size it does not have
          lost       \* history: buffers dropped with their batch, by pool

vars == <<pool, batch, orphans, staged, content, acquires, foreign, misread, misfiled, lost>>

\* A buffer is never empty.
Bytes(size) == IF size = 0 THEN 4 ELSE size

Keys == {Bytes(s) : s \in Sizes}

\* The buffers a pool retains, and the bytes they have.
Retained(c) == UNION {{c.free[k][i] : i \in DOMAIN c.free[k]} : k \in Keys}

RetainedBytes(c) == Sum([k \in Keys |-> k * Len(c.free[k])], Keys)

EmptyPool(budget) ==
    [free |-> [k \in Keys |-> <<>>], budget |-> budget, bytes |-> 0, resources |-> 0,
     allocations |-> 0, reuses |-> 0, discards |-> 0]

Idle == [pool |-> "none", held |-> <<>>, open |-> FALSE, recycling |-> FALSE]

Init ==
    /\ \E budget \in Budgets : pool = [p \in Pools |-> EmptyPool(budget)]
    /\ batch = [b \in Batch |-> Idle]
    /\ orphans = {} /\ staged = <<>>
    /\ content = <<>>
    /\ acquires = 0
    /\ foreign = [p \in Pools |-> 0]
    /\ misread = FALSE /\ misfiled = FALSE
    /\ lost = [p \in Pools |-> 0]

-----------------------------------------------------------------------------
(* ResourceCache *)

Take(c, key) ==
    [c EXCEPT !.free[key] = SubSeq(@, 1, Len(@) - 1),
              !.bytes = @ - key, !.resources = @ - 1, !.reuses = @ + 1]

Allocated(c) == [c EXCEPT !.allocations = @ + 1]

Discard(c, n) == [c EXCEPT !.discards = @ + n]

Fits(c, key) == key <= c.budget - c.bytes /\ Len(c.free[key]) < MaxPerKey

\* Bug: what is retained already is not counted.
PutOverBudget(c, key, buffer) ==
    IF ~(key <= c.budget /\ Len(c.free[key]) < MaxPerKey) THEN Discard(c, 1)
    ELSE [c EXCEPT !.free[key] = Append(@, buffer), !.bytes = @ + key, !.resources = @ + 1]

Put(c, key, buffer) ==
    IF ~Fits(c, key) THEN Discard(c, 1)
    ELSE [c EXCEPT !.free[key] = Append(@, buffer), !.bytes = @ + key, !.resources = @ + 1]

Cleared(c) ==
    [Discard(c, c.resources) EXCEPT !.free = [k \in Keys |-> <<>>], !.bytes = 0, !.resources = 0]

ClearPool(p) ==
    /\ pool[p].resources > 0
    /\ pool' = [pool EXCEPT ![p] = Cleared(@)]
    /\ UNCHANGED <<batch, orphans, staged, content, acquires, foreign, misread, misfiled, lost>>

\* A budget below what is retained empties the pool.
SetBudget(p, budget) ==
    /\ budget # pool[p].budget
    /\ LET c == [pool[p] EXCEPT !.budget = budget]
       IN  pool' = [pool EXCEPT ![p] = IF c.bytes > budget THEN Cleared(c) ELSE c]
    /\ UNCHANGED <<batch, orphans, staged, content, acquires, foreign, misread, misfiled, lost>>

-----------------------------------------------------------------------------
(* GpuBufferPool and ScratchBuffers *)

\* The buffer that comes last goes first; nothing is reused for a size of 0.
Reuses(p, size) == size # 0 /\ pool[p].free[size] # <<>>

\* A scratch batch records as it acquires; an upload is not bound yet.
Holding(e, p, item) ==
    [e EXCEPT !.pool = p, !.held = Append(@, item), !.open = @ \/ p = "scratch"]

\* An upload writes its buffer when it has it.
Acquire(b, p, size) ==
    /\ acquires < MaxAcquires
    /\ ~batch[b].recycling /\ batch[b].pool \in {"none", p}
    /\ acquires' = acquires + 1
    /\ LET free == pool[p].free[size]
           buffer == IF Reuses(p, size) THEN free[Len(free)] ELSE Len(content) + 1
           item == [buffer |-> buffer, size |-> Bytes(size), tag |-> acquires']
       IN  /\ pool' = [pool EXCEPT ![p] =
                          IF Reuses(p, size) THEN Take(@, size) ELSE Allocated(@)]
           /\ content' = IF Reuses(p, size) THEN content ELSE Append(content, 0)
           /\ batch' = [batch EXCEPT ![b] = Holding(@, p, item)]
           /\ staged' = [i \in DOMAIN content' |->
                            IF i = buffer /\ p = "upload" THEN item.tag
                            ELSE IF i \in DOMAIN staged THEN staged[i] ELSE 0]
    /\ UNCHANGED <<orphans, foreign, misread, misfiled, lost>>

\* An upload's buffers are bound to an encoder, as often as the caller likes.
Encode(b) ==
    /\ batch[b].pool = "upload" /\ ~batch[b].open /\ ~batch[b].recycling
    /\ batch' = [batch EXCEPT ![b].open = TRUE]
    /\ UNCHANGED <<pool, orphans, staged, content, acquires, foreign, misread, misfiled, lost>>

Buffers(items) == {items[i].buffer : i \in DOMAIN items}

\* What a buffer holds when the staged writes have been applied.
Landed(i) == IF staged[i] = 0 THEN content[i] ELSE staged[i]

\* The acquisition among the items that brought the buffer.
TagOf(items, buffer) == items[CHOOSE i \in DOMAIN items : items[i].buffer = buffer].tag

\* The queue applies the staged writes, then runs the commands: they read the
\* uploads they are bound to and overwrite their scratch.
Execute(e) ==
    /\ content' = [i \in DOMAIN content |->
                      IF e.pool = "scratch" /\ i \in Buffers(e.held) THEN TagOf(e.held, i)
                      ELSE Landed(i)]
    /\ staged' = [i \in DOMAIN staged |-> 0]
    /\ misread' = \/ misread
                  \/ /\ e.pool = "upload"
                     /\ \E i \in DOMAIN e.held : e.held[i].tag # Landed(e.held[i].buffer)

\* submit_and_recycle goes on to recycle; an upload stays with its caller.
Submit(b) ==
    /\ batch[b].open
    /\ Execute(batch[b])
    /\ batch' = [batch EXCEPT ![b].open = FALSE, ![b].recycling = batch[b].pool = "scratch"]
    /\ UNCHANGED <<pool, orphans, acquires, foreign, misfiled, lost>>

\* A caller recycles its uploads when it has no encoder that uses them.
GiveUp(b) ==
    /\ batch[b].pool = "upload" /\ ~batch[b].open /\ ~batch[b].recycling
    /\ batch' = [batch EXCEPT ![b].recycling = TRUE]
    /\ UNCHANGED <<pool, orphans, staged, content, acquires, foreign, misread, misfiled, lost>>

\* Bug: a buffer that is too short for its length is retained.
RecycledTooShort(c, length, size, compatible, buffer) ==
    IF length < size \/ ~compatible THEN Discard(c, 1) ELSE Put(c, length, buffer)

\* recycle: a buffer of another length than the caller says, or of a usage the
\* pool has no use for, is discarded.
Recycled(c, length, size, compatible, buffer) ==
    IF length # size \/ ~compatible THEN Discard(c, 1) ELSE Put(c, length, buffer)

Return(p, length, size, compatible, buffer) ==
    /\ pool' = [pool EXCEPT ![p] = Recycled(@, length, size, compatible, buffer)]
    /\ misfiled' = (misfiled \/ (length # size /\ buffer \in Retained(pool'[p])))

Lengths == Sizes \cup Keys

\* One buffer after the other, each under the lock of its pool.  A scratch batch
\* asks the buffer for its size; the caller of an upload may say what it likes.
Recycle(b) ==
    /\ batch[b].recycling
    /\ LET item == Head(batch[b].held)
           rest == Tail(batch[b].held)
       IN  /\ \E length \in IF batch[b].pool = "scratch" THEN {item.size} ELSE Lengths :
                 Return(batch[b].pool, length, item.size, TRUE, item.buffer)
           /\ batch' = [batch EXCEPT ![b] = IF rest = <<>> THEN Idle ELSE [@ EXCEPT !.held = rest]]
    /\ UNCHANGED <<orphans, staged, content, acquires, foreign, misread, lost>>

\* A caller gives the upload pool a buffer it has created itself.
RecycleForeign(length, size, compatible) ==
    /\ foreign["upload"] < MaxForeign
    /\ foreign' = [foreign EXCEPT !["upload"] = @ + 1]
    /\ Return("upload", length, size, compatible, Len(content) + 1)
    /\ content' = Append(content, 0)
    /\ staged' = Append(staged, 0)
    /\ UNCHANGED <<batch, orphans, acquires, misread, lost>>

\* Bug: dropping a batch recycles its buffers although its encoder lives.
RecycleOnDrop(b) ==
    /\ batch[b].held # <<>> /\ ~batch[b].recycling
    /\ batch' = [batch EXCEPT ![b].open = FALSE, ![b].recycling = TRUE]
    /\ orphans' = IF batch[b].open THEN orphans \cup {batch[b]} ELSE orphans
    /\ UNCHANGED <<pool, staged, content, acquires, foreign, misread, misfiled, lost>>

\* An error: the handles are released and nothing is recycled, but the encoder
\* may live on with its owner.
Abandon(b) ==
    /\ batch[b].held # <<>> /\ ~batch[b].recycling
    /\ batch' = [batch EXCEPT ![b] = Idle]
    /\ orphans' = IF batch[b].open THEN orphans \cup {batch[b]} ELSE orphans
    /\ lost' = [lost EXCEPT ![batch[b].pool] = @ + Len(batch[b].held)]
    /\ UNCHANGED <<pool, staged, content, acquires, foreign, misread, misfiled>>

SubmitOrphan(o) ==
    /\ Execute(o)
    /\ orphans' = orphans \ {o}
    /\ UNCHANGED <<pool, batch, acquires, foreign, misfiled, lost>>

DropOrphan(o) ==
    /\ orphans' = orphans \ {o}
    /\ UNCHANGED <<pool, batch, staged, content, acquires, foreign, misread, misfiled, lost>>

-----------------------------------------------------------------------------
Next ==
    \/ \E b \in Batch :
          \/ \E p \in Pools, size \in Sizes : Acquire(b, p, size)
          \/ Encode(b) \/ Submit(b) \/ GiveUp(b) \/ Recycle(b) \/ Abandon(b)
    \/ \E length \in Lengths, size \in Keys, compatible \in BOOLEAN :
          RecycleForeign(length, size, compatible)
    \/ \E o \in orphans : SubmitOrphan(o) \/ DropOrphan(o)
    \/ \E p \in Pools :
          \/ ClearPool(p)
          \/ \E budget \in Budgets : SetBudget(p, budget)

Spec == Init /\ [][Next]_vars

-----------------------------------------------------------------------------
\* The buffers of a pool that are in use.
Held(p) ==
    UNION {Buffers(batch[b].held) : b \in {c \in Batch : batch[c].pool = p}}

\* What a pool retains is what its counters say, each buffer under its own size,
\* within its budget and the limit per size; every buffer that it created or was
\* given is retained, in use, discarded or lost with an abandoned batch, and every
\* acquisition was an allocation or a reuse.
RetentionExact ==
    /\ \A p \in Pools :
          LET c == pool[p] IN
          /\ c.resources = Cardinality(Retained(c))
          /\ c.bytes = RetainedBytes(c)
          /\ c.bytes <= c.budget
          /\ \A k \in Keys : Len(c.free[k]) <= MaxPerKey
          /\ c.allocations + foreign[p]
                = c.resources + Cardinality(Held(p)) + c.discards + lost[p]
    /\ acquires = pool["scratch"].allocations + pool["scratch"].reuses
                  + pool["upload"].allocations + pool["upload"].reuses
    /\ ~misfiled

\* A buffer has one user: what a pool retains is in no other pool, no batch and
\* no encoder that may still be submitted, no two batches or encoders share a
\* buffer, and so commands read what their own batch uploaded, whoever submits
\* in between.
BuffersHaveOneUser ==
    /\ Retained(pool["scratch"]) \cap Retained(pool["upload"]) = {}
    /\ \A p \in Pools :
          /\ \A b \in Batch : Retained(pool[p]) \cap Buffers(batch[b].held) = {}
          /\ \A o \in orphans : Retained(pool[p]) \cap Buffers(o.held) = {}
    /\ \A b, c \in Batch : b # c => Buffers(batch[b].held) \cap Buffers(batch[c].held) = {}
    /\ \A o \in orphans, b \in Batch : Buffers(o.held) \cap Buffers(batch[b].held) = {}
    /\ \A o, q \in orphans : o # q => Buffers(o.held) \cap Buffers(q.held) = {}
    /\ ~misread
=============================================================================

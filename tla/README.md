# SpatialRust: TLA+ models and proofs

SpatialRust is a workspace of Rust crates for point clouds, images and spatial
records, with a browser front end. Most of it is arithmetic over immutable
data. This project models the rest: the parts that keep state between calls,
share it among threads, promises or processes, lease and return resources, or
can fail halfway. TLC checks small instances of every module; TLAPS proves the
safety of seven of them for every value of their constants.
Modules that compose components (`StreamingPipeline`, `LodFrame`) use coarser
views of parts that have a detailed module of their own.

`PROJECT.json` holds what a program reads: the components, the runs, one mutant
per property (a plausible bug under which the property must fail), the map from
definitions to source lines, the hazards of the code and the theorems.

Run a model with `tlc -config X.cfg M` and the proofs with `tlapm M.tla`.

## 1. Inventory

Paths are relative to the repository; `records`, `io`, `lod`, ... are the
crates `crates/spatialrust-records` and so on.

### Parts with state of their own

| Part | State | Operations | Hard behaviour | What makes it correct |
|---|---|---|---|---|
| Memory tracker (`records/src/streaming.rs`) | two atomics: `current_bytes`, `peak_bytes`; a cancellation flag | `try_reserve`, `shrink_to`, drop of `MemoryReservation`, `snapshot`, `cancel` | lock-free: weak compare-exchange loop, peak raised in a second atomic step, snapshot in two loads, wrapping subtraction | the counter is what the live reservations hold, never above the limit; the peak is the true maximum once it is raised |
| Chunk leases, recycling source (`records/src/bounded.rs`) | position, next identity, buffer pool behind a mutex, one reservation per chunk | `next_chunk`, drop of a chunk on any thread | refused pulls that are retried, out-of-order drops, pooled buffers that hold no reservation | nothing skipped, contiguous identities, bounded pool |
| Prefetch source, legacy adapter (`records/src/bounded.rs`) | worker thread, bounded channel, token, expected identity | `try_new`, worker loop, `next_chunk`, `cancel`, drop | blocking send and receive, drop while blocked, errors in order, leases in discarded messages | no deadlock, no lost lease, the stream contract |
| Bounded spool (`io/src/spool.rs`) | process-wide id counter, `.part` files, position, extent | `create`, `write`, `seek`, `commit`, drop | name collisions with left-overs of a crashed process, partial writes after seeks, failing commits | exclusive ownership of files, disk budget, no leaks |
| LOD residency (`lod/src/residency.rs`) | session under a mutex (frame, upload ledger, in-flight nodes), leases, GPU cache | `begin_frame`, `try_lease`, `complete_upload`, cancel, drop, `touch`, `admit`, `remove` | a lease that is released twice, leases that outlive their frame, eviction, refused admissions | one lease per in-flight node, exact totals, budget per frame |
| Camera session (`docs/site/camera`) | current run, worker, stream, timers, page, pump, captures | `start`, `stop`, `submit`, pump, worker messages, `captureBitmap` | every await may settle late or never; stop and replacement at any of them | nothing outlives its run, one frame in its geometry, `start` settles |
| LOD planner (`lod/src/planner.rs`, `index.rs`) | the nodes it refined last (hysteresis); reads snapshots of cache and session | `plan` | a snapshot that is stale when its requests are leased; thresholds, budgets and eviction feed back into the next plan | budgets hold; a still camera comes to rest |
| Streaming pipeline (`pipeline/src/workflow.rs`, `streaming.rs`; sinks in `io/src/pcd`, `io/src/las`) | sorted runs in a spool, heap of a k-way merge, reservations, receipt, counted rows | `StreamingPipelineIter::next`, `run_to_sink`, `ChunkMapSource`, `StreamingVoxelSource` build and merge, `write_chunk`, `finish` | reservation refused after the input was pulled; voxels over several runs; writes that fail midway | output independent of chunk and run sizes; only live bytes are reserved |
| Spatial graph (`runtime/src/graph.rs`) | builder, schedule, bounded input queue, transfer ledger | `add_node`, `connect`, `declare_transfer`, `compile`, `try_submit`, `run_next` | operator errors halfway, joins of paths, fusion of neighbours in the order | every sink answered, receipts of what crossed each edge, sound groups, one value lost per failure |
| GPU pools (`gpu/src/resource_cache.rs`, `upload_cache.rs`, `scratch.rs`) | free lists, retained bytes, scratch leases | acquire, submit and recycle, recycle of any buffer, abandon, clear, set budget | buffers of the wrong size, usage or origin; buffers recycled while commands that use them may still be submitted | exact retention, exclusive use |
| Sync, episodes, replay (`sync`, `episode`) | frame graph, sorted indexes | sequential, in memory | - | not modelled; candidates for pure-function checks |

### How they interact

Every leased chunk, prefetched message, voxel run and LOD lease carries a
`MemoryReservation` of one shared `MemoryTracker`; the tracker is therefore the
first module and the others use its abstraction. The prefetch worker pulls a
`LegacyBoundedSource` and sends its chunks, lease included, through a
`sync_channel`. The streaming voxel source pulls a bounded source, writes runs
to a `BoundedSpool` and reserves from the same tracker; `run_to_sink` drains the
whole pipeline into a sink (`StreamingPipeline` composes source, meter, stages,
iterator, sink and tracker). An LOD plan is turned into leases of the upload
session, and a completed lease admits its node to the GPU cache, which the next
plan reads (`LodFrame` composes planner, session and cache); no code in the
repository drives these calls, so `LodResidency` lets callers make them in any
order, and `LodFrame` states the loop it assumes. A GPU runtime owns two buffer
pools whose buffers pass through encoders and the queue of wgpu. The camera page drives `CameraSession` through
callbacks and is driven by it; its worker answers by messages.

### Parts that are not modelled

Format readers and writers (but for the counting of the chunk sinks), ROS 2 and
rosbag2 codecs, Arrow and DLPack adapters, core types and schemas, geometry, vision and imaging, GPU kernels,
rendering, viewer, exporters, bindings and the facade: numeric algorithms over
immutable inputs, conversions of bytes, or I/O. They keep no protocol between
calls, and floating point is out of TLC's reach. `PROJECT.json` gives the reason
for each. Also left out: sync and episodes (sequential, in memory),
`runtime/src/pipeline.rs`, the transfer queue of `distribute/src/transfer.rs`
(nothing in the graph uses it), and the image texture pool of the GPU runtime,
which is `ResourceCache` again under another key.

## 2. The modules

### ByteSum, BudgetLedger, MemoryTracker

`MemoryTracker` has one step per atomic access. A client is the life of one
reservation: `Load`, then `ExchangeWins` or `ExchangeLoses` or `Refuse`, then
`RaisePeak` (the `fetch_max` is a separate step after the exchange), then
`ShrinkTo` and `DropReservation`. Subtractions wrap at the width of the
counter's type, which is a constant. `SnapshotCurrent` and `SnapshotPeak` are
the two loads of `snapshot`. A spurious failure of the weak exchange reads the
same value again and is a stuttering step.

`BudgetLedger` is the abstract specification: owners, and grants that happen in
one step when they fit. `MemoryTracker!ImplementsLedger` says that the
compare-exchange loop implements it under `owned <- Owned`. The modules below
use the tracker at this granularity, which that refinement justifies.

`ByteSum` writes a total as the number of cells `<<holder, i>>`, so that facts
about totals follow from facts about finite sets and need no induction over a
fold. `Total` is for holders with a common bound, `Sum` for sets of holders that
grow and shrink: the messages of a queue, the residents of a cache, the free
lists of a pool.

### RecordStream

What the trait `BoundedSpatialRecordSource` promises the caller of `next_chunk`,
whoever implements it: a producer that may work ahead, chunks that continue one
another without gaps, an end exactly when all that was produced has been
delivered, and nothing after the end or a failure. Pulls that are refused and
retried change nothing. It is the abstract specification of both sources below.

### RecyclingSource

`RecyclingMemoryChunkSource`: the order of the checks in `next_chunk`
(cancelled, end, reservation), the buffer pool, and the drop of a chunk in its
two steps - `Drop::drop` returns the buffers, then the fields are dropped and
the reservation with them. All leases of this source have the same size, so
memory is counted in leases; columns are abstracted to their number of points.
A cancellation after the check of the token commutes with the rest of the pull.

### PrefetchSource

The worker (`check`, `pull`, `read`, `send`), the channel as a bounded sequence,
and the consumer (`idle`, `recv`, `dropping`, `joining`). The wrapped source is
the environment: it yields, ends or fails, and a faulty one may skip a number,
which `ReceiveMisnumbered` answers by cancelling the stream. Dropping the source
cancels, drops the receiver and joins, in this order. After a cancellation the
worker leaves without a message when it sees the token in its own loop, and with
an error when the adapter sees it, so a consumer may be told that the stream was
closed rather than cancelled; both are in the model. The bytes in the channel
are a `ByteSum!Sum` over its positions, those of the consumer one over the chunks
it holds.

### BoundedSpool

Several spools of one process: the id is drawn in one step and `create_new` is
tried in another; `write` may be partial; `commit` looks, syncs and renames in
three steps, each of which may fail; the result of the removal in `drop` is
ignored, so a failed removal leaves a file. `Crash` ends the process, keeps the
files and starts ids again at zero. The worst case is assumed for names: all
spools share one stem, and the next process has the same pid.

### LodResidency

`LodUploadSession` (each method under its lock is one step), `HostChunkLease`
and `LodGpuCache`. The end of a lease is several steps: `CompleteUpload`
(admission), `FinishUpload` (the explicit release), `DropLease` (the release in
`Drop`) and `FreeHost` (the reservation field), so another thread may lease the
same node in between. Re-admitting a resident node keeps its old sizes and sets
its age to the generation of the caller, as the code does. `admit`, `touch` and
`remove` are public and need no lease: `AdmitNode`, `Touch` and `RemoveNode` are
direct calls, with any sizes and any generation, also an older one. A call that
is refused (`Refuse`) leaves the cache as it was; if it comes from
`complete_upload`, the lease is dropped on the way out (`UploadFails`). An admission evicts a set of nodes, `gone`: a
prefix of the unprotected residents in the code's order (least recently used,
then smallest id), large enough, and no larger than needed. That there is such a
set, and only one, exactly when all candidates together make room, which is the
test after the loop (`HasRoom`), is proved (`EvictionIsDetermined`), so modelling
the loop by its result leaves nothing open. A token that is cancelled after
`complete_upload` has checked it is not read again; the model leaves that
cancellation out.

### CameraSession

One record per call of `start` (what it waits for, its worker, its camera), the
session, the page and the native operations under way. A task of the event loop
with the continuations it releases is one step; every await is a place where
anything else may happen. `StopInto` is `stop` with `onStop`; `fail` is the same
with an error shown. Messages of a terminated worker may still arrive, native
operations may settle late or never. Time is left out: an armed timer may fire
at any moment, and the 125 ms rate limit and the 5 s stall are free choices of
the pump. Visitors may start over a running session, which the class allows
although the page disables the button. A bitmap is a number; frame sizes are a
small set and `FrameSize` is `cameraFrameSize`.

### StreamingPipeline

A job is an input, the sizes of chunks and runs, the stages, the limits and who
pulls. The source and the meter, the map stage (crop or transform) and the
iterator or the voxel build that pulls them make one step per chunk, because
they run on one thread and share nothing that others change in between except
the tracker and the token; a refused reservation and a set token are met at the
start of the step. The external sort is in full: the run buffer that is flushed
when it is full, the sorted runs, the cursors, the heap order, the pending
accumulator that outlives a chunk. A point is the number of its voxel or NaN,
and an aggregate is the sequence of its points in the order of addition, which
is all a floating-point sum depends on. Byte sizes are the code's formulas.

`run_to_sink` is a third kind of caller: it writes a chunk, drops it and pulls
the next one; a write may stop after any row; `finish` compares the count with
what was expected (always for PCD, if given for LAS). What the LAS library does
with a writer that is dropped unfinished is outside the model.

A map stage whose output is refused has dropped the input it pulled. The
iterator ends there, so its consumer cannot miss the hole; a caller that pulls
the stage itself and goes on does, and its chunks are still numbered without a
gap. The variable `skipped` marks these behaviours and `StreamMatchesReference`
excludes them. After an error of the spool in the middle of the merge every
caller is assumed to give up.

### SpatialGraph

The builder's calls in any order, `compile` with its order (least ready
identifier first), validation and fusion groups, `try_submit` with the watermark
policy, and `run_next` node by node. Values are the paths they have taken. An
operator that fails drops the run's values and leaves the queue behind it: the
history `ran` shows that each admitted value is taken once, in order, whatever
failed before it. Where paths join, the join runs once per path.
`ReceiptMatchesEdges` relates a successful run to the edges alone: a transfer is
recorded once per crossing, with every edge between two devices and no other
than the declared ones, and every sink is answered from the source. The comment
of `run_next` (`runtime/src/graph.rs:213`) promises one value per sink; that is
true without joins, which the property says too, and false with them (run
`graph_sinks`).

### LodFrame

`plan` with its hysteresis, its ranks, its three budgets and its display of the
nearest resident ancestors; `begin_frame` and the cancellations are part of the
same step `Frame`. `Request` tries the requests one by one; loads end by
`CompleteUpload`, `UploadRefused`, `DropCancelled` or `LoadFails`, and a
cancellation may come too late. A camera is a function from nodes to errors.
Device and host bytes go with the points, every node fits the host budget and
the upload budget of a frame, and which unprotected nodes are evicted is open
(`LodResidency` has the exact order). The caller is not in the repository; the
model covers the two sets it may protect from eviction:

- what is desired: a still camera comes to rest (`StillCameraConverges`), but an
  ancestor on display may be evicted between two plans;
- what is displayed as well: nothing on display is evicted
  (`ResidencyFollowsPlan`), but the protected ancestors may leave no room for
  their descendants, which are then requested, loaded and refused for ever.

The interfaces offer no third choice: a caller of `complete_upload` that wants
both has to plan with a smaller point budget than the cache's.

### GpuPools

`ResourceCache` (`take`, `put`, `clear`, `set_budget`), the two pools over it,
and two users that acquire, bind, submit and recycle or abandon. The wgpu queue
is external: an encoder's commands run when it is submitted, a staged
`write_buffer` takes effect before the commands of the next submission, whoever
makes it; of the writes that wait for one buffer only the last matters. Contents are
the acquisition that wrote them; `misread` records that commands saw another's. Uploads are recycled by a caller only when it has no
open encoder that uses them; scratch batches have the order in
`submit_and_recycle`. An abandoned batch leaves its encoder to an owner who may
still submit it. `recycle` takes any buffer under any length: the caller of an
upload may name another length than the buffer has, and may bring buffers the
pool did not create (`RecycleForeign`), of any size and usage. What does not
match is discarded and counted; what matches is retained, so `RetentionExact`
counts foreign buffers beside the allocations, and `misfiled` would record a
buffer that is retained under a size it does not have. The scratch pool is
private to the runtime and is given its own buffers only. A foreign buffer is new
to both pools, as the comment of `recycle` demands of its caller (no other handle
to it is left). Poisoned locks are left out, and so are uploads that are acquired
and never written.

## 3. The runs

| Run | States | Shows |
|---|---|---|
| `memory_tracker` | 63,485 | exact accounting, exact peak, what a snapshot can overstate, refinement of the ledger |
| `recycling_source` | 8,043 | bounded pool, no lost buffer, complete stream, termination |
| `prefetch_source` | 193,410 | leases accounted, budget sufficient, stream contract, no deadlock |
| `bounded_spool` | 392,967 | file ownership, disk budget, `create` gives up only for left-overs |
| `spool_commit` | violation | two commits can overwrite each other |
| `lod_residency` | 78,033 | in-flight set, host bytes, cache totals (also after refusals and direct calls), upload ledger |
| `camera_session` | 348,892 | nothing outlives its run, one frame in its geometry, `start` settles |
| `streaming_pipeline` | 164,796 | output and file are the reference's whatever the sizes; exactly the live bytes are reserved |
| `spatial_graph` | 651,806 | every sink answered, a transfer per crossing, sound fusion groups, bounded queue in order, a failed value gone alone |
| `graph_sinks` | violation | where paths join, a run returns several values for one sink |
| `lod_frame` | 61,160 | budgets hold across stale snapshots; a still camera gets what it deserves |
| `gpu_pools` | 1,298,563 | exact retention with mismatched and foreign buffers, one user per buffer |

### Bounds, and why they are enough

- `memory_tracker`: three clients, one reader, limit 4, type maximum 5, requests
  {0, 1, 3, 5}. Two clients race and a third moves the counter between them; the
  limit is one below the top of the type, so a sum may exceed the limit, the
  type, or neither. Clients are symmetric. The accounting is proved for all
  values as well.
- `recycling_source`: four slots, a budget of three leases, nine points in
  chunks of two. The budget, not the instance, refuses; the last chunk is short;
  three chunks are dropped in every order.
- `prefetch_source`: capacity 2, chunks of at most 2 units, four records, one
  chunk kept across a pull, budgets 7, 8 and 9. `try_new` demands 8: one unit
  less is rejected, one more is accepted. The queue fills, empties and fills
  again. A source skips a number or none.
- `bounded_spool`: two spools, two tries, three ids, one crash, limit 2, seeks
  to 3. The second process meets up to three names of the first; seeks go beyond
  the limit. Spools are symmetric.
- `lod_residency`: three nodes, three leases, two frames, budgets of two points
  and two device bytes. Leases bring nodes of one point and one or two bytes,
  direct callers of one to three points, so that nodes are evicted for either
  budget, in the order of use and of ids, and refused because they are empty, too
  large or kept out by protected ones. A chunk takes two host bytes and uploads
  one; the third lease meets the in-flight limit or the host limit; a lease lives
  into the next frame. Leases are symmetric.
- `camera_session`: two calls of `start` in any of three modes, two captures,
  four video dimensions: two that give one frame size, one turned, one that is
  unsupported. A replacement meets every late completion of the run before it;
  the captures belong to one run (the second frame after a result) or to both.

- `streaming_pipeline`: every input of three points over two voxels and NaN, and
  three inputs of five points; chunks of 1 to 3, runs of 1, 2 and 5. Voxels span
  up to five runs and output chunks end in the middle of the merge. The tracker
  is too small for the run buffer, for the merge of three runs, for a mapped
  chunk beside a lease, or for none of these; the limits of runs and of the
  spool are met and not met. Files expect any number of points, too few, all or
  too many.
- `spatial_graph`: up to four nodes on two devices, four of six edges that make
  chains, forks, joins, a second source and a cycle, the order of nodes
  against their identifiers; three submissions over a queue of two.
- `lod_frame`: five nodes in two trees of depth up to three, room for three
  points, two loads at once; four cameras, one between the two thresholds, two
  moves, one failure. The camera moves while loads of the plan before are in
  flight and comes to rest in every such state.
- `gpu_pools`: two users, three acquisitions, one foreign buffer, sizes 0, 4 and 8 under budgets of
  4 and 12 bytes, two buffers per size. Both limits of retention are met, the
  budget shrinks below what is retained, and buffers are reused while another's
  encoder is open.

`CHECK_DEADLOCK FALSE` is set where the system may stop: an ended or dropped
stream, the bounds on ids and crashes, the last run, a rejected graph or the last
submission. The other runs check for deadlock.

### Fairness, and why the code justifies it

- `RecyclingSource!FairSpec`: the consumer keeps pulling and drops what it got.
  This is the caller's duty; `ReachesTheEnd` says what it is rewarded with.
  Nobody has to cancel.
- `PrefetchSource!Spec`: the worker's thread runs and its source answers; a
  consumer inside `next_chunk` or `drop` runs on. Blocking is not assumed away:
  `Send` is disabled while the channel is full. Calls, drops and cancellation
  are free.
- `CameraSession!Spec`: armed timers fire and microtasks run. Nothing native
  needs to settle and no worker needs to answer; that is the point of
  `StartSettles` and `FrameIsAnswered`.
- `LodFrame!Spec`: the caller plans frame after frame and tries its requests,
  and of the loads in flight one or another ends. Both are the caller's part;
  `StillCameraConverges` is the planner's. Failures are bounded: a source that
  fails for ever loads nothing. A camera that moves for ever is the bound
  `MaxMoves`.
- The other modules state safety only and assume no fairness.

### Disagreements between code and comments

- `CompiledSpatialGraph::run_next` documents that it "returns one value per sink"
  (`graph.rs:213`). `compile` accepts nodes with several predecessors, nothing
  joins the values that meet there, and a sink that several paths reach returns
  one value per path (run `graph_sinks`; the edges 1-2, 2-4, 1-4 are enough).
- `BoundedSpool::commit` documents that existing destinations are rejected
  rather than overwritten. The check and the rename are two steps, and rename
  replaces: of two commits to one destination the second may overwrite the first
  (run `spool_commit`).

A third one needs no run of its own. `MemoryTracker::snapshot` is documented as
atomic and `peak_bytes` as the maximum simultaneously reserved bytes. The peak is
raised after the exchange and the two counters are loaded separately, so a
snapshot may return `current_bytes > peak_bytes`. `PeakIsExact` says by how much
and when: only while a reservation that brought the counter at least that high
has its `fetch_max` to come; once none is pending the peak is exact. It is
checked and proved.

## 4. What is proved

All proofs are for every value of the constants that satisfies the module's
named assumption: finite sets of clients, slots, spools, nodes, leases, users or
sizes, positive limits, and what the constructors validate. Bounds of an
instance (identities, frames, captures, acquisitions) are constants like any
other, so the proofs are for all of them. Each component's proofs are in a
module of their own, `XProofs`; each has one inductive invariant, a lemma per
action that keeps it, and theorems that name the properties the runs check.

**`MemoryTrackerProofs`** (over lemmas of `ByteSumProofs` on how a total
changes when one holder's share, or the set of holders, does). `TypeCorrect`, `AccountingIsExact`,
`NeverUnderflows`, `PeakExactWhenQuiet`, `TrackerImplementsLedger`. The
inductive invariant is `TypeOK /\ ExactAccounting /\ PeakPending`. Exactness
counts the bytes of a client from its exchange on, also while its peak is still
to be raised. The exchange compares against the very value the client's check
used, so the check still holds; a subtraction never wraps because the share of a
holder is part of the total. `PeakIsExact` is not inductive alone: `PeakPending`
adds that the highest total is the peak, or a sum that some client has stored in
the counter and has not yet raised the peak to; `SeenBelowHighest` bounds what a
snapshot has loaded by that total.
The refinement maps `ExchangeWins` to
`Grant`, `ShrinkTo` and `DropReservation` to `GiveBack`, all else to stuttering.

**`RecyclingSourceProofs`**. `RecyclingTypeCorrect`, `PoolIsBounded`,
`NoBufferLost`, `StreamIsComplete`. The pool bound is the interesting one: it
needs that reservations are counted (`LeasesCounted`), that buffers are
conserved, that at most one pull is between its reservation and its return
(`OnePull`) and the order in a chunk's drop. A new set is allocated only when
the pool is empty, so all sets are in chunks that hold leases, and the lease of
the chunk being filled is one more. `Positioned` and `Contiguous` tie the
position to the emitted chunks. `LeasesImplementLedger` closes the gap between
this module's counter and the tracker: with one lease per chunk that is not
free, `Reserve` is a `Grant` of `BudgetLedger`, `ReleaseLease` a `GiveBack`, and
everything else stutters. `MemoryTracker` implements the same ledger.
`RecyclingImplementsStream` is the other refinement: what is produced is the
whole cloud, `next` is the position, the emitted chunks are what was delivered.
The return of a filled chunk is a `Deliver`, `ReturnEnd` a `Finish`, and a
refusal, which the caller may retry, a stutter. It needs `Positioned` and
`Contiguous`, and `CancelledStays`: after the answer "cancelled" no pull is
under way.

**`PrefetchSourceProofs`**. `TypeCorrect`, `EveryByteIsLeased`,
`FrugalNeverRefused`, `ContractKept`. `FrugalNeverRefused` needs to know where
the bytes are: one reservation in the worker's hand (`WorkerHolds`), at most
`Capacity` chunks queued and, for a frugal consumer, one held; when it reserves, the
two sums leave room for one more chunk in what `try_new` demands.
`ContractKept` is harder, because the source may misnumber. `Numbered` says that
sequence numbers rise from what the consumer expects through the queue to the
message being sent and the source's next; a chunk that does not follow has a
number above every expected one, so after a refusal nothing that arrives is ever
expected (`BrokenStaysBroken`). `FinalIsLast` puts an error or the end behind
all chunks, `AnswersLead` and `RecordsCounted` tie answers to positions.

`PrefetchImplementsStream` says that the worker, the channel and the consumer
together are one `RecordStream`: `source.next.point_offset` is what has been
produced, `expected` the position. A read is a `Produce`, a chunk accepted by
the consumer a `Deliver`. That the end comes when everything was delivered
rests on `OffsetsCounted`: while nothing is misnumbered, the producer is ahead
of the consumer by the bytes in the queue and in the worker's hand.
`DropReleasesAll` and `NoMutualWait` rest on `ReceiverFollowsDrop`: the receiver
lives as long as `drop` has not discarded it, the queue dies with it, and `drop`
returns only after the worker has left. `NoMutualWait` is the absence of deadlock
between the two threads as an invariant: whenever the consumer waits, its message
is there, the worker has left, or the worker has a step it can take.

**`BoundedSpoolProofs`**. `SpoolTypeCorrect`, `OwnershipIsExclusive`,
`DiskBudgetHolds`, `LiveSpoolsNeverExhaustNames`, `FilesAreTheirOwners`. The type
invariant needs `TriesBounded`: a spool that will draw again has tries left.
`FilesAreTheirOwners` is about steps: nobody touches a left-over file, a file
disappears or changes only by its own spool, and a rename moves a file that
exists. (That a rename may land on the file of another commit is the finding of
`spool_commit`; the theorem does not exclude it.) `LiveSpoolsNeverExhaustNames`
rests on `TriedNamesAreLittered`: the ids of one process are different and below
the counter, and a spool that has tried `n` names has `n` left-over files below
its id, so no live spool's name was among them.

**`LodResidencyProofs`**. `TypeCorrect`, `OneLeasePerNode`, `HostIsLeased`,
`TotalsAreExact`, `FrameBudgetHolds`, `LeasesImplementLedger`. The invariant adds
`LedgerOfThisFrame` to the checked properties: what the session has admitted is
what was leased in the current frame, and no later frame has leased anything;
without it a stale lease could be charged to a new frame. The set of lives of a
lease matters to `OneLeasePerNode`: the second release happens when the lease no
longer holds its node. The totals of the cache are `Sum`s over its residents, and
an admission is one `SumWithout` (what goes) and one `SumAdds` (what comes), or a
`SumUpdate` for a node that is resident already. The refinement maps each lease
to its host bytes until `FreeHost`.

`EvictionIsDetermined` shows that the
declarative eviction has exactly one outcome, or none when all candidates
together leave too little room, so that a call is admitted or refused and never
both. Two outcomes would be prefixes of one strict order
and one inside the other, against "no larger than needed" (`OutcomesAgree`); one
exists because among the sufficient prefixes there is a smallest
(`OutcomeExists`), by the least-number principle, which `LeastNumber` takes from
the well-foundedness of the naturals.

**`CameraSessionProofs`**. `TypeCorrect`, `LateCompletions`, `BitmapsClosed`,
`OneFrame`, `PageFollows`, `StoppedStaysStopped`. The last is about steps: a run
that is over stays over, whatever settles late. None of these is inductive alone. `CurrentStarted`
says how far the current run has come (a presenter that is pending belongs to a
start that is presenting, a frame in flight to a session that has started);
`OneIsWaitedFor` that the capture that is waited for is the only one, of the
current run, of the size on show and newer than every frame; `OneIsInFlight` that
the frame in flight is with the worker or answered, once. Results of an old run
or an old frame number are ignored by comparing identities, and the invariant
says why these two comparisons are enough.

**`GpuPoolsProofs`**. `RetentionIsExact`, `OneUserPerBuffer`,
`BuffersNeverReturn` (what a pool or its batches let go never comes back to them;
for one order this is the test of `scratch.rs:40-58`). The invariant
lists every holder of a buffer (pools, batches, abandoned encoders) and says
that they are pairwise apart, hold each buffer once and only created ones, so
that a pool's counters are cardinalities and sums of its free lists
(`PoolsSound`) and nothing created or given from outside is unaccounted for
(`Conserved`); a discarded buffer leaves the counters of what is retained alone
(`DiscardSound`), so the branch of `recycle` that refuses a buffer is one case
beside `put` (`RecycledSound`). `Fresh` is
what makes commands read their own data: the tag of every upload that is held is
what its buffer will contain when the staged writes have landed. It survives the
submissions of others because their scratch is apart, and a new upload because
its buffer was nobody's.

## 5. What is only model-checked

- Liveness (`ReachesTheEnd`, `PullAnswered`, `DropReturns`, `StartSettles`,
  `FrameIsAnswered`, `StillCameraConverges`): fairness and ENABLED are out of
  the prover's reach. The safety core of `PullAnswered` and `DropReturns` is
  proved as `NoMutualWait`.
- `StreamingPipeline` and `SpatialGraph`: their properties compare recursive
  folds over sequences (a merge, the walks of a graph) with a reference, which
  needs induction over data that the installed provers cannot instantiate. The
  least-number principle is at hand, but it does not unfold a recursive
  definition.
- `LodFrame`: a composition of `LodResidency`'s coarse view with the planner,
  whose plan is the greedy choice over sets of candidates; its point is
  convergence, which is liveness. Its residency side is what
  `LodResidencyProofs` proves in detail.

The other way round, some theorems are not properties of a run: the two
refinements of `RecordStream`, the three action theorems (`FilesAreTheirOwners`,
`StoppedStaysStopped`, `BuffersNeverReturn`),
`DropReleasesAll`, `NoMutualWait` and `EvictionIsDetermined` are stated in the
proof modules, over what the runs' specifications already declare.

Not modelled inside the modelled parts: `StreamingReceipt`; contents of columns
and files; durability of data after `sync_all`; the tracking and drawing of the
camera page. Atomics are taken as sequentially consistent: each counter is one
variable, and no property relates the order of accesses to two variables other
than `PeakIsExact` for the snapshot, whose overshoot exists already under this
stronger order.

## 6. Plan

Done, in the order of importance:

1. `MemoryTracker` with `BudgetLedger`; all leases rest on it. Proved.
2. `RecyclingSource`: leases and recycling. Safety proved.
3. `PrefetchSource`: the concurrent source. Safety proved.
4. `BoundedSpool`: crash and file ownership. Safety proved.
5. `LodResidency`: session, leases and cache. Safety proved.
6. `CameraSession`: event loop with late completions. Safety proved.
7. `StreamingPipeline`: stages, external sort, iterator and file sinks.
8. `LodFrame`: planner, session and cache composed.
9. `SpatialGraph`: builder, compiler, queue and execution.
10. `GpuPools`: retention and scratch leases over submit and abandon. Safety
    proved.
11. The memory steps of `RecyclingSource` and `LodResidency` implement
    `BudgetLedger`. Proved.
12. `RecyclingSource` and `PrefetchSource` implement `RecordStream`; what a step
    may never do to files, runs and buffers; the eviction has one
    outcome; worker and consumer never wait for each other. Proved.

Theorems that could follow: the memory steps of `PrefetchSource` as a
`BudgetLedger` (a chunk changes hands, so the mapping needs an identity per
reservation, and dropping the receiver gives back several leases in what is one
step of this model); that
`LodFrame`'s session and cache implement a coarse view of `LodResidency`; the
live bytes of `StreamingPipeline` with `ByteSum` in place of its folds; the
bounded queue of `SpatialGraph`.

Open as models: the frame graph and replay index of `sync`, the range cache of
the COPC reader, ownership across the Arrow and DLPack release callbacks.

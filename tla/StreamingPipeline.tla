--------------------------- MODULE StreamingPipeline ---------------------------
(***************************************************************************)
(* The bounded pipeline of crates/spatialrust-pipeline/src/workflow.rs     *)
(* over the stages of streaming.rs: a metered source, an optional          *)
(* ChunkMapSource (crop or transform), an optional StreamingVoxelSource    *)
(* (external sort and k-way merge) and the iterator that closes at the     *)
(* first error.  A direct job pulls the last stage itself and may pull     *)
(* again after an error, as the trait allows; run_to_sink drains the       *)
(* iterator into a file that counts its points (io/src/pcd/writer.rs,      *)
(* io/src/las/writer.rs).  All stages, the consumer's leases and the rest  *)
(* of the program share one MemoryTracker, used through the grants and     *)
(* give-backs of BudgetLedger; the cancellation token is set by another    *)
(* thread.  A step is one pull of the source, one merged chunk, one        *)
(* reservation, or one chunk written.                                      *)
(*                                                                         *)
(* A point is the number of its voxel, or NaN; values and centroids are    *)
(* abstracted to the order in which a voxel adds its points, which is all  *)
(* a floating-point sum depends on.                                        *)
(***************************************************************************)
EXTENDS Integers, FiniteSets, SequencesExt

CONSTANTS Jobs,      \* the pipelines: input, sizes, stages, limits and who pulls
          Fields,    \* numeric fields of the schema
          Foreign    \* bytes the rest of the program takes and gives back

NaN == -1

Open == -1   \* a sink without an expected number of points

ASSUME PipelineAssumption ==
    /\ Jobs \subseteq [points : Seq(Nat \cup {NaN}), chunk : Nat \ {0},
                       map : [on : BOOLEAN, keeps : SUBSET (Nat \cup {NaN})],
                       voxel : BOOLEAN, run : Nat \ {0}, runs : Nat \ {0},
                       spool : Nat, memory : Nat,
                       caller : {"iterator", "direct", "sink"}, expects : Nat \cup {Open}]
    /\ Fields \in Nat \ {0} /\ Foreign \in Nat \ {0}

VARIABLES job,        \* what runs
          phase,      \* where the pipeline is
          cancelled,  \* the token
          tracked,    \* the tracker's current_bytes
          foreign,    \* the part of it that belongs to others
          read,       \* points the source has handed out
          mapped,     \* the map stage's next_sequence and next_point_offset
          expected,   \* the voxel stage's expected_sequence and expected_point_offset
          run,        \* the run buffer
          spilled,    \* the sorted runs in the spool
          taken,      \* records each cursor has read beyond the heap
          pending,    \* the voxel that is being added up
          out,        \* chunks emitted
          leased,     \* those the consumer still holds
          sink,       \* the file that is written: its rows, and what the sink has counted
          receipt,    \* the StreamingReceipt, or what it would count for a direct job
          skipped     \* history: an error lost data and the consumer pulled on

input == <<read, mapped>>
sort == <<expected, run, spilled>>
merge == <<taken, pending>>
output == <<out, leased, sink>>
vars == <<job, phase, cancelled, tracked, foreign, input, sort, merge, output, receipt, skipped>>

-----------------------------------------------------------------------------
(* Bytes *)

PointBytes == 4 * Fields
ChunkBytes == PointBytes * job.chunk
RunBytes == job.run * (8 * Fields + 40) + job.runs * 16
MergeBytes(n) == (n + 2) * (8 * Fields + 96) + 16 * Fields
SpillBytes(runs) == FoldLeft(LAMBDA b, r : b + 8 + Len(r) * (32 + 8 * Fields), 0, runs)

Fits(bytes) == tracked + bytes <= job.memory

-----------------------------------------------------------------------------
(* Records, in the order of the spill and of the heap *)

NoVoxel == [key |-> NaN, members |-> <<>>]

Before(a, b) == a.key < b.key \/ (a.key = b.key /\ a.source < b.source)

Sorted(records) == SetToSortSeq(ToSet(records), Before)

Heads(position) == {r \in DOMAIN spilled : position[r] < Len(spilled[r])}

Head1(position, r) == spilled[r][position[r] + 1]

\* Bug: equal keys come in the order of the runs, the latest first.
PopsLatestFirst(position, r) ==
    \A s \in Heads(position) :
        \/ Head1(position, r).key < Head1(position, s).key
        \/ Head1(position, r).key = Head1(position, s).key /\ s <= r

\* HeapRecord: the least of (key, source_index, run_index) is popped.
Pops(position, r) ==
    \A s \in Heads(position) :
        Before(Head1(position, r), Head1(position, s)) \/ s = r

-----------------------------------------------------------------------------
Init ==
    /\ job \in Jobs
    /\ phase = IF job.voxel THEN "start" ELSE "streaming"
    /\ cancelled = FALSE
    /\ tracked = 0 /\ foreign = 0
    /\ read = 0
    /\ mapped = [sequence |-> 0, offset |-> 0]
    /\ expected = [sequence |-> 0, offset |-> 0]
    /\ run = <<>> /\ spilled = <<>>
    /\ taken = <<>> /\ pending = NoVoxel
    /\ out = <<>> /\ leased = {}
    /\ sink = [rows |-> <<>>, written |-> 0, finished |-> FALSE]
    /\ receipt = [points_in |-> 0, chunks_in |-> 0, points_out |-> 0, spill |-> 0]
    /\ skipped = FALSE

Cancel ==
    /\ ~cancelled
    /\ cancelled' = TRUE
    /\ UNCHANGED <<job, phase, tracked, foreign, input, sort, merge, output, receipt, skipped>>

\* Others reserve from the same tracker and release again.
TakeForeign ==
    /\ foreign = 0 /\ Fits(Foreign)
    /\ foreign' = Foreign
    /\ tracked' = tracked + Foreign
    /\ UNCHANGED <<job, phase, cancelled, input, sort, merge, output, receipt, skipped>>

GiveForeign ==
    /\ foreign > 0
    /\ foreign' = 0
    /\ tracked' = tracked - foreign
    /\ UNCHANGED <<job, phase, cancelled, input, sort, merge, output, receipt, skipped>>

-----------------------------------------------------------------------------
(* One pull of the source, through the meter and the map stage.  The map    *)
(* stage reserves its output while it holds the input chunk.                *)

Ahead == IF job.chunk < Len(job.points) - read THEN job.chunk ELSE Len(job.points) - read

SourceEnds == ~cancelled /\ read = Len(job.points)

SourceRefuses == cancelled \/ (read < Len(job.points) /\ ~Fits(ChunkBytes))

SourceYields == ~cancelled /\ read < Len(job.points) /\ Fits(ChunkBytes)

MapFits == job.map.on => Fits(ChunkBytes + PointBytes * Ahead)

\* The points of the chunk that are handed on, by their place in the source.
Kept == SelectSeq([i \in 1..Ahead |-> read + i],
                  LAMBDA i : job.map.on => job.points[i] \in job.map.keeps)

Identity == IF job.map.on THEN mapped
            ELSE [sequence |-> receipt.chunks_in, offset |-> read]

\* The meter counts what the source hands out, whatever becomes of it.
Advance ==
    /\ read' = read + Ahead
    /\ receipt' = [receipt EXCEPT !.points_in = @ + Ahead, !.chunks_in = @ + 1]

Renumber ==
    mapped' = IF job.map.on
              THEN [sequence |-> mapped.sequence + 1, offset |-> mapped.offset + Len(Kept)]
              ELSE mapped

Pulling == phase = "building" \/ (phase = "streaming" /\ ~job.voxel)

\* A chunk of which nothing is left is dropped and the next one pulled.
MapEmpty ==
    /\ Pulling
    /\ SourceYields /\ MapFits
    /\ Kept = <<>>
    /\ Advance
    /\ UNCHANGED <<job, phase, cancelled, tracked, foreign, mapped, sort, merge, output, skipped>>

-----------------------------------------------------------------------------
(* StreamingVoxelSource::try_build *)

ReserveRun ==
    /\ phase = "start"
    /\ Fits(RunBytes)
    /\ phase' = "building"
    /\ tracked' = tracked + RunBytes
    /\ UNCHANGED <<job, cancelled, foreign, input, sort, merge, output, receipt, skipped>>

\* flush_run: the limits of runs and of the spool are met before a run counts.
Flush(s) ==
    LET runs == Append(s.runs, Sorted(s.run))
    IN  [run |-> <<>>, runs |-> runs,
         over |-> s.over \/ Len(s.runs) = job.runs \/ SpillBytes(runs) > job.spool]

\* A full buffer is flushed before the next point is looked at.
Push(s, record) ==
    LET room == IF Len(s.run) = job.run THEN Flush(s) ELSE s
    IN  IF record.key = NaN THEN room ELSE [room EXCEPT !.run = Append(@, record)]

Records == [i \in DOMAIN Kept |-> [key |-> job.points[Kept[i]], source |-> Identity.offset + i - 1]]

Pushed == FoldLeft(Push, [run |-> run, runs |-> spilled, over |-> FALSE], Records)

Flushed == LET s == [run |-> run, runs |-> spilled, over |-> FALSE]
           IN  IF run = <<>> THEN s ELSE Flush(s)

BuildChunk ==
    /\ phase = "building"
    /\ SourceYields /\ MapFits
    /\ Kept # <<>>
    /\ Identity = expected
    /\ ~Pushed.over
    /\ Advance /\ Renumber
    /\ run' = Pushed.run /\ spilled' = Pushed.runs
    /\ expected' = [sequence |-> expected.sequence + 1, offset |-> expected.offset + Len(Kept)]
    /\ UNCHANGED <<job, phase, cancelled, tracked, foreign, merge, output, skipped>>

\* Bug: the run buffer stays reserved until the merge is over.
KeepRun ==
    /\ phase = "building"
    /\ SourceEnds
    /\ ~Flushed.over
    /\ phase' = "sorted"
    /\ run' = Flushed.run /\ spilled' = Flushed.runs
    /\ UNCHANGED <<job, cancelled, tracked, foreign, input, expected, merge, output, receipt,
                   skipped>>

\* The run buffer is released before the merge is reserved.
EndBuild ==
    /\ phase = "building"
    /\ SourceEnds
    /\ ~Flushed.over
    /\ phase' = "sorted"
    /\ run' = Flushed.run /\ spilled' = Flushed.runs
    /\ tracked' = tracked - RunBytes
    /\ UNCHANGED <<job, cancelled, foreign, input, expected, merge, output, receipt, skipped>>

OpenMerge ==
    /\ phase = "sorted"
    /\ Fits(MergeBytes(Len(spilled)))
    /\ phase' = "streaming"
    /\ tracked' = tracked + MergeBytes(Len(spilled))
    /\ taken' = [r \in DOMAIN spilled |-> 0]
    /\ receipt' = [receipt EXCEPT !.spill = SpillBytes(spilled)]
    /\ UNCHANGED <<job, cancelled, foreign, input, sort, pending, output, skipped>>

\* Refused, cancelled, over a limit, or failed by the file system: the build
\* drops its source, its buffer and its spool.
BuildError ==
    \/ phase = "start" /\ ~Fits(RunBytes)
    \/ phase = "building" /\ SourceRefuses
    \/ phase = "building" /\ SourceYields /\ ~MapFits
    \/ phase = "building" /\ SourceYields /\ MapFits /\ (Identity # expected \/ Pushed.over)
    \/ phase = "building" /\ SourceEnds /\ Flushed.over
    \/ phase = "sorted" /\ ~Fits(MergeBytes(Len(spilled)))

BuildFails ==
    /\ BuildError
    /\ phase' = "failed"
    /\ tracked' = tracked - (IF phase = "building" THEN RunBytes ELSE 0)
    /\ UNCHANGED <<job, cancelled, foreign, input, sort, merge, output, receipt, skipped>>

-----------------------------------------------------------------------------
(* The last stage under the iterator or a direct caller *)

Emit(identity, bytes, items) ==
    /\ out' = Append(out, [sequence |-> identity.sequence, offset |-> identity.offset,
                           bytes |-> bytes, items |-> items])
    /\ leased' = leased \cup {Len(out) + 1}
    /\ tracked' = tracked + bytes

PullChunk ==
    /\ phase = "streaming" /\ ~job.voxel
    /\ SourceYields /\ MapFits
    /\ Kept # <<>>
    /\ Emit(Identity, IF job.map.on THEN PointBytes * Ahead ELSE ChunkBytes,
            [i \in DOMAIN Kept |-> [key |-> job.points[Kept[i]], members |-> <<Kept[i]>>]])
    /\ read' = read + Ahead
    /\ receipt' = [receipt EXCEPT !.points_in = @ + Ahead, !.chunks_in = @ + 1,
                                  !.points_out = @ + Len(Kept)]
    /\ Renumber
    /\ UNCHANGED <<job, phase, cancelled, foreign, sort, merge, sink, skipped>>

\* next_accumulator: one record is popped and added, or a voxel is complete.
MergeStep(s) ==
    IF s.ended \/ Len(s.filled) = job.chunk THEN s
    ELSE IF Heads(s.taken) = {}
    THEN IF s.pending = NoVoxel THEN [s EXCEPT !.ended = TRUE]
         ELSE [s EXCEPT !.filled = Append(@, s.pending), !.pending = NoVoxel]
    ELSE LET r == CHOOSE h \in Heads(s.taken) : Pops(s.taken, h)
             head == Head1(s.taken, r)
             popped == [s EXCEPT !.taken[r] = @ + 1]
         IN  IF s.pending.key = head.key
             THEN [popped EXCEPT !.pending.members = Append(@, head.source)]
             ELSE [popped EXCEPT !.pending = [key |-> head.key, members |-> <<head.source>>],
                                 !.filled = IF s.pending = NoVoxel THEN @
                                            ELSE Append(@, s.pending)]

\* At most every point is popped, then the last voxel and the end are met.
Merged == FoldLeft(LAMBDA s, i : MergeStep(s),
                   [taken |-> taken, pending |-> pending, filled |-> <<>>, ended |-> FALSE],
                   [i \in 1..Len(job.points) + 2 |-> i])

Voxels == FlattenSeq([i \in DOMAIN out |-> out[i].items])

VoxelChunk ==
    /\ phase = "streaming" /\ job.voxel
    /\ ~cancelled /\ Fits(ChunkBytes)
    /\ Merged.filled # <<>>
    /\ Emit([sequence |-> Len(out), offset |-> Len(Voxels)], ChunkBytes, Merged.filled)
    /\ taken' = Merged.taken /\ pending' = Merged.pending
    /\ phase' = IF Merged.ended THEN "drained" ELSE phase
    /\ receipt' = [receipt EXCEPT !.points_out = @ + Len(Merged.filled)]
    /\ UNCHANGED <<job, cancelled, foreign, input, sort, sink, skipped>>

\* next_chunk returns None.
Complete ==
    /\ \/ phase = "streaming" /\ ~job.voxel /\ SourceEnds
       \/ phase = "streaming" /\ job.voxel /\ ~cancelled /\ Fits(ChunkBytes) /\ Merged.filled = <<>>
       \/ phase = "drained"
    /\ phase' = "complete"
    /\ UNCHANGED <<job, cancelled, tracked, foreign, input, sort, merge, output, receipt, skipped>>

\* Bug: the iterator goes on after an error.
GoOn(p) == p

\* StreamingPipelineIter: the first error is the last item.
AfterError(p) == IF job.caller = "direct" THEN p ELSE "closed"

\* A pull that is refused leaves its stage as it was.
Refused ==
    /\ phase = "streaming"
    /\ IF job.voxel THEN cancelled \/ ~Fits(ChunkBytes) ELSE SourceRefuses
    /\ phase' = AfterError(phase)
    /\ UNCHANGED <<job, cancelled, tracked, foreign, input, sort, merge, output, receipt, skipped>>

\* The map stage has pulled its input when its output is refused.
MapRefused ==
    /\ phase = "streaming" /\ ~job.voxel
    /\ SourceYields /\ ~MapFits
    /\ phase' = AfterError(phase)
    /\ Advance
    /\ skipped' = (job.caller = "direct")
    /\ UNCHANGED <<job, cancelled, tracked, foreign, mapped, sort, merge, output>>

\* The spool cannot be written or read.  A caller gives up after this error.
SpoolFails ==
    /\ phase \in {"start", "building", "sorted", "streaming"} /\ job.voxel
    /\ phase' = IF phase = "streaming" THEN "closed" ELSE "failed"
    /\ tracked' = tracked - (IF phase = "building" THEN RunBytes ELSE 0)
    /\ UNCHANGED <<job, cancelled, foreign, input, sort, merge, output, receipt, skipped>>

DropChunk(c) ==
    /\ job.caller # "sink" /\ c \in leased
    /\ leased' = leased \ {c}
    /\ tracked' = tracked - out[c].bytes
    /\ UNCHANGED <<job, phase, cancelled, foreign, input, sort, merge, out, sink, receipt, skipped>>

HoldsMerge == job.voxel /\ phase \in {"streaming", "drained", "complete", "closed"}

MergeReserved == IF HoldsMerge THEN MergeBytes(Len(spilled)) ELSE 0

\* The consumer may leave at any time and keep its chunks; run_to_sink returns
\* with the first error.
DropStream ==
    /\ phase \in {"streaming", "drained", "complete", "closed"}
    /\ job.caller = "sink" => phase = "closed"
    /\ phase' = "dropped"
    /\ tracked' = tracked - MergeReserved
    /\ UNCHANGED <<job, cancelled, foreign, input, sort, merge, output, receipt, skipped>>

-----------------------------------------------------------------------------
(* StreamingPipeline::run_to_sink over PcdChunkSink and LasChunkSink.  A     *)
(* chunk is written and dropped before the next one is pulled.              *)

Writing == job.caller = "sink" /\ leased # {}

Chunk == out[Len(out)]

Counted == sink.written + Len(Chunk.items)

Accepts(points) == job.expects # Open => points <= job.expects

WriteChunk ==
    /\ Writing /\ Accepts(Counted)
    /\ sink' = [sink EXCEPT !.rows = @ \o Chunk.items, !.written = Counted]
    /\ leased' = {}
    /\ tracked' = tracked - Chunk.bytes
    /\ UNCHANGED <<job, phase, cancelled, foreign, input, sort, merge, out, receipt, skipped>>

\* A chunk that is too many is not begun; another may stop after any row, and is
\* not counted.  The chunk and the stream are dropped.
WriteFails ==
    /\ Writing
    /\ \E rows \in IF Accepts(Counted) THEN 0..Len(Chunk.items) ELSE {0} :
          sink' = [sink EXCEPT !.rows = @ \o SubSeq(Chunk.items, 1, rows)]
    /\ phase' = "dropped"
    /\ leased' = {}
    /\ tracked' = tracked - Chunk.bytes - MergeReserved
    /\ UNCHANGED <<job, cancelled, foreign, input, sort, merge, out, receipt, skipped>>

\* Bug: the number of points is not compared with what the header says.
FinishesShort == TRUE

Agrees == job.expects # Open => sink.written = job.expects

\* The sink is finished, or refuses, or cannot be flushed; the stream is dropped.
Finish ==
    /\ job.caller = "sink" /\ phase = "complete" /\ leased = {}
    /\ sink' \in {sink} \cup (IF Agrees THEN {[sink EXCEPT !.finished = TRUE]} ELSE {})
    /\ phase' = "dropped"
    /\ tracked' = tracked - MergeReserved
    /\ UNCHANGED <<job, cancelled, foreign, input, sort, merge, out, leased, receipt, skipped>>

-----------------------------------------------------------------------------
Build == ReserveRun \/ BuildChunk \/ EndBuild \/ OpenMerge \/ BuildFails

Pull == MapEmpty \/ PullChunk \/ VoxelChunk \/ Complete \/ Refused \/ MapRefused

Next ==
    \/ Build
    \/ ~Writing /\ (Pull \/ SpoolFails)
    \/ WriteChunk \/ WriteFails \/ Finish
    \/ \E c \in DOMAIN out : DropChunk(c)
    \/ DropStream
    \/ Cancel \/ TakeForeign \/ GiveForeign

\* Nobody has to pull, to drop or to answer.
Spec == Init /\ [][Next]_vars

-----------------------------------------------------------------------------
\* What should come out: the points that are kept, in their order, or one voxel
\* for every key, in the order of the keys, its points in the order of the source.
Survivors == SelectSeq([i \in DOMAIN job.points |-> i],
                       LAMBDA i : job.map.on => job.points[i] \in job.map.keeps)

Members(key) ==
    SetToSortSeq({i - 1 : i \in {j \in DOMAIN Survivors : job.points[Survivors[j]] = key}},
                  LAMBDA a, b : a < b)

Reference ==
    IF job.voxel
    THEN LET keys == SetToSortSeq({job.points[Survivors[i]] : i \in DOMAIN Survivors} \ {NaN},
                               LAMBDA a, b : a < b)
         IN  [k \in DOMAIN keys |-> [key |-> keys[k], members |-> Members(keys[k])]]
    ELSE [i \in DOMAIN Survivors |-> [key |-> job.points[Survivors[i]],
                                      members |-> <<Survivors[i]>>]]

\* Whatever the sizes of chunks and runs, and whatever is refused, cancelled or
\* retried, the stream emits the beginning of the reference in chunks with
\* contiguous identities, and all of it, with a true receipt, when it ends
\* without an error.  The one exception is a caller that pulls a map stage again
\* after its output was refused: the input of that chunk is gone.  A file holds
\* what was emitted, once and in order, and a file that is finished holds the
\* whole reference, as many points as its header and the receipt say.
StreamMatchesReference ==
    ~skipped =>
    /\ IsPrefix(Voxels, Reference)
    /\ \A c \in DOMAIN out :
          /\ out[c].sequence = c - 1
          /\ out[c].offset = Len(FlattenSeq([i \in 1..c - 1 |-> out[i].items]))
    /\ phase = "complete" =>
          /\ Voxels = Reference
          /\ receipt.points_in = Len(job.points) /\ receipt.points_out = Len(Reference)
    /\ IsPrefix(sink.rows, Voxels)
    /\ sink.finished =>
          /\ sink.rows = Reference
          /\ job.expects \in {Open, Len(sink.rows)} /\ receipt.points_out = Len(sink.rows)

RunReserved == IF phase = "building" THEN RunBytes ELSE 0

\* The tracker counts what is alive and nothing else: the run buffer only while
\* runs are built, the merge only while the stream exists, each chunk until its
\* holder drops it, also after the stream; a failed build and a sink leave
\* nothing.  The three limits hold at once: of the tracker, of the runs (of
\* records and of their number) and of the spool, which a refused flush does not
\* count.
LiveBytesExact ==
    /\ tracked = foreign + RunReserved + MergeReserved
                 + FoldSet(LAMBDA c, b : out[c].bytes + b, 0, leased)
    /\ tracked <= job.memory
    /\ Len(run) <= job.run /\ Len(spilled) <= job.runs
    /\ SpillBytes(spilled) <= job.spool /\ receipt.spill <= SpillBytes(spilled)
    /\ job.caller = "sink" =>
          /\ Cardinality(leased) <= 1
          /\ phase \in {"failed", "dropped"} => tracked = foreign
=============================================================================

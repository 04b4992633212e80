---------------------------- MODULE LodResidency ----------------------------
(***************************************************************************)
(* LodUploadSession, HostChunkLease and LodGpuCache                        *)
(* (crates/spatialrust-lod/src/residency.rs).  Threads that share a        *)
(* session lease nodes under its lock; each lease is cancelled, completed  *)
(* or dropped by whichever thread holds it.  A lease ends in several       *)
(* steps: complete_upload admits the node to the cache and releases the    *)
(* lease under the lock, then Drop releases again, then the field          *)
(* `reservation` gives the host bytes back.  The cache has one owner, who  *)
(* may call it directly as well; each of its operations is one step.       *)
(*                                                                         *)
(* The host tracker is used through the grants and give-backs of           *)
(* BudgetLedger, which MemoryTracker implements.                           *)
(***************************************************************************)
EXTENDS Integers, FiniteSets, ByteSum

CONSTANTS Node,        \* node ids, numbers: ties of use are broken by id
          Lease,       \* the leases that may be alive at once
          MaxPoints, MaxHost, MaxGpu, MaxUpload, MaxInFlight, \* LodBudgets
          Chunks,      \* [points, host, upload] of the chunks callers lease
          GpuSizes,    \* resident bytes that callers declare
          PointCounts, \* points that callers of `admit` declare
          MaxFrame     \* bound: the last frame generation

ASSUME LodAssumption ==
    /\ IsFiniteSet(Node) /\ Node \subseteq Nat
    /\ IsFiniteSet(Lease)
    /\ {MaxPoints, MaxHost, MaxGpu, MaxUpload, MaxInFlight} \subseteq Nat \ {0}
    /\ Chunks \subseteq [points : Nat \ {0}, host : Nat \ {0}, upload : Nat \ {0}]
    /\ GpuSizes \subseteq Nat /\ PointCounts \subseteq Nat
    /\ MaxFrame \in Nat

VARIABLES generation,  \* UploadState: the frame
          admitted,    \* UploadState: upload bytes admitted in this frame
          in_flight,   \* UploadState: the nodes in flight
          host,        \* the tracker's current_bytes
          stage,       \* where each lease is
          lease,       \* its node, chunk and generation
          cancelled,   \* its cancellation token
          residents,   \* the cache's nodes, by id
          totals,      \* resident_points and resident_gpu_bytes
          uploaded     \* history: upload bytes leased in each frame

session == <<generation, admitted, in_flight>>
leases == <<host, stage, lease, cancelled>>
cache == <<residents, totals>>
vars == <<session, leases, cache, uploaded>>

NoLease == [node |-> 0, points |-> 0, host |-> 0, upload |-> 0, generation |-> 0]

Init ==
    /\ generation = 0
    /\ admitted = 0
    /\ in_flight = {}
    /\ host = 0
    /\ stage = [l \in Lease |-> "none"]
    /\ lease = [l \in Lease |-> NoLease]
    /\ cancelled = [l \in Lease |-> FALSE]
    /\ residents = [n \in {} |-> NoLease]
    /\ totals = [points |-> 0, gpu |-> 0]
    /\ uploaded = [g \in 0..MaxFrame |-> 0]

-----------------------------------------------------------------------------
(* LodUploadSession *)

\* Bug: the frame under way may be begun again.
IsSameOrNewFrame(g) == g >= generation

IsNewFrame(g) == g > generation

\* Only the ledger of upload bytes starts again; leases go on.
BeginFrame(g) ==
    /\ IsNewFrame(g)
    /\ generation' = g
    /\ admitted' = 0
    /\ UNCHANGED <<in_flight, leases, cache, uploaded>>

\* Everything is checked and reserved under the lock; a refused reservation
\* leaves nothing behind.
TryLease(l, n, chunk) ==
    /\ stage[l] = "none"
    /\ n \notin in_flight
    /\ Cardinality(in_flight) < MaxInFlight
    /\ admitted + chunk.upload <= MaxUpload
    /\ host + chunk.host <= MaxHost
    /\ host' = host + chunk.host
    /\ in_flight' = in_flight \cup {n}
    /\ admitted' = admitted + chunk.upload
    /\ uploaded' = [uploaded EXCEPT ![generation] = @ + chunk.upload]
    /\ stage' = [stage EXCEPT ![l] = "held"]
    /\ lease' = [lease EXCEPT ![l] = [node |-> n, points |-> chunk.points, host |-> chunk.host,
                                      upload |-> chunk.upload, generation |-> generation]]
    /\ UNCHANGED <<generation, cancelled, cache>>

\* Of a token that is cancelled later nothing is read.
CancelLease(l) ==
    /\ stage[l] = "held"
    /\ ~cancelled[l]
    /\ cancelled' = [cancelled EXCEPT ![l] = TRUE]
    /\ UNCHANGED <<session, host, stage, lease, cache, uploaded>>

-----------------------------------------------------------------------------
(* LodGpuCache *)

\* The order of eviction: least recently used generation first, then id.
UsedBefore(m, n) ==
    \/ residents[m].used < residents[n].used
    \/ residents[m].used = residents[n].used /\ m <= n

\* What some of the resident nodes hold.
ResidentPoints(nodes) == Sum([n \in DOMAIN residents |-> residents[n].points], nodes)
ResidentBytes(nodes) == Sum([n \in DOMAIN residents |-> residents[n].gpu], nodes)

\* What the cache would hold with a node of these sizes and without the nodes
\* that are gone.
TotalsWithout(gone, points, gpu) ==
    [points |-> totals.points + points - ResidentPoints(gone),
     gpu |-> totals.gpu + gpu - ResidentBytes(gone)]

\* Bug: the bytes are not looked at.
FitsPoints(t) == t.points <= MaxPoints

FitsCache(t) == t.points <= MaxPoints /\ t.gpu <= MaxGpu

\* The loop takes the candidates in their order, stops as soon as the rest fits
\* and fails when they run out.
Evicted(gone, points, gpu, protected) ==
    LET candidates == DOMAIN residents \ protected
    IN  /\ gone \in SUBSET candidates
        /\ \A m \in gone, n \in candidates \ gone : UsedBefore(m, n)
        /\ FitsCache(TotalsWithout(gone, points, gpu))
        /\ \A last \in gone : (\A m \in gone : UsedBefore(m, last)) =>
              ~FitsCache(TotalsWithout(gone \ {last}, points, gpu))

AdmitNew(n, points, gpu, g, protected) ==
    \E gone \in SUBSET DOMAIN residents :
        /\ Evicted(gone, points, gpu, protected)
        /\ totals' = TotalsWithout(gone, points, gpu)
        /\ residents' = [m \in (DOMAIN residents \ gone) \cup {n} |->
                            IF m = n THEN [points |-> points, gpu |-> gpu, used |-> g]
                            ELSE residents[m]]

\* A size of zero, or one that alone exceeds its budget, is refused.
SizesFit(points, gpu) == points > 0 /\ gpu > 0 /\ points <= MaxPoints /\ gpu <= MaxGpu

\* touch: the node keeps the sizes it was admitted with.
Touched(n, g) == [residents EXCEPT ![n].used = g]

\* Bug: a node that is resident already is admitted once more.
AdmitAgain(n, points, gpu, g, protected) ==
    /\ SizesFit(points, gpu)
    /\ AdmitNew(n, points, gpu, g, protected)

Admit(n, points, gpu, g, protected) ==
    /\ SizesFit(points, gpu)
    /\ \/ /\ n \in DOMAIN residents
          /\ residents' = Touched(n, g)
          /\ UNCHANGED totals
       \/ /\ n \notin DOMAIN residents
          /\ AdmitNew(n, points, gpu, g, protected)

\* The loop runs out of candidates before the rest fits.
HasRoom(points, gpu, protected) ==
    FitsCache(TotalsWithout(DOMAIN residents \ protected, points, gpu))

Refused(n, points, gpu, protected) ==
    \/ ~SizesFit(points, gpu)
    \/ n \notin DOMAIN residents /\ ~HasRoom(points, gpu, protected)

\* Bug: the loop subtracts from the totals of the cache, not from its own.
RefuseHalfway(n, points, gpu, protected) ==
    /\ Refused(n, points, gpu, protected)
    /\ totals' = IF SizesFit(points, gpu)
                 THEN TotalsWithout(DOMAIN residents \ protected, points, gpu)
                 ELSE totals
    /\ UNCHANGED residents

\* An admission that fails leaves the cache as it was.
Refuse(n, points, gpu, protected) ==
    /\ Refused(n, points, gpu, protected)
    /\ UNCHANGED cache

\* admit and touch are public: callers use them without a lease and under the
\* generation they like.
AdmitNode(n, points, gpu, g, protected) ==
    /\ \/ Admit(n, points, gpu, g, protected)
       \/ Refuse(n, points, gpu, protected)
    /\ UNCHANGED <<session, leases, uploaded>>

Touch(n, g) ==
    /\ n \in DOMAIN residents
    /\ residents' = Touched(n, g)
    /\ UNCHANGED <<session, leases, totals, uploaded>>

RemoveNode(n) ==
    /\ n \in DOMAIN residents
    /\ totals' = [points |-> totals.points - residents[n].points,
                  gpu |-> totals.gpu - residents[n].gpu]
    /\ residents' = [m \in DOMAIN residents \ {n} |-> residents[m]]
    /\ UNCHANGED <<session, leases, uploaded>>

-----------------------------------------------------------------------------
(* The end of a lease *)

\* Bug: no `released` flag: the second release takes the node from whoever has
\* leased it in between.
ReleaseAlways(l) == in_flight' = in_flight \ {lease[l].node}

\* release: once, under the lock.
Release(l) ==
    in_flight' = IF stage[l] \in {"held", "admitted"} THEN in_flight \ {lease[l].node}
                 ELSE in_flight

\* complete_upload: the token is checked, then the node is admitted under the
\* generation of the lease.  A cancellation after the check comes too late.
CompleteUpload(l, gpu, protected) ==
    /\ stage[l] = "held"
    /\ ~cancelled[l]
    /\ Admit(lease[l].node, lease[l].points, gpu, lease[l].generation, protected)
    /\ stage' = [stage EXCEPT ![l] = "admitted"]
    /\ UNCHANGED <<session, host, lease, cancelled, uploaded>>

\* complete_upload: the explicit release before it returns.
FinishUpload(l) ==
    /\ stage[l] = "admitted"
    /\ Release(l)
    /\ stage' = [stage EXCEPT ![l] = "released"]
    /\ UNCHANGED <<generation, admitted, host, lease, cancelled, cache, uploaded>>

\* complete_upload returns an error, and its lease is dropped on the way out.
UploadFails(l, gpu, protected) ==
    /\ stage[l] = "held"
    /\ \/ (cancelled[l] \/ gpu = 0) /\ UNCHANGED cache
       \/ ~cancelled[l] /\ Refuse(lease[l].node, lease[l].points, gpu, protected)
    /\ Release(l)
    /\ stage' = [stage EXCEPT ![l] = "dropped"]
    /\ UNCHANGED <<generation, admitted, host, lease, cancelled, uploaded>>

\* Drop::drop: after a completed upload, or because the holder lets go of the
\* lease.
DropLease(l) ==
    /\ stage[l] \in {"held", "released"}
    /\ Release(l)
    /\ stage' = [stage EXCEPT ![l] = "dropped"]
    /\ UNCHANGED <<generation, admitted, host, lease, cancelled, cache, uploaded>>

\* Bug: the upload bytes are given back, not the host bytes.
FreeUploadBytes(l) ==
    /\ stage[l] = "dropped"
    /\ host' = host - lease[l].upload
    /\ stage' = [stage EXCEPT ![l] = "none"]
    /\ lease' = [lease EXCEPT ![l] = NoLease]
    /\ cancelled' = [cancelled EXCEPT ![l] = FALSE]
    /\ UNCHANGED <<session, cache, uploaded>>

\* The drop of the field `reservation`.
FreeHost(l) ==
    /\ stage[l] = "dropped"
    /\ host' = host - lease[l].host
    /\ stage' = [stage EXCEPT ![l] = "none"]
    /\ lease' = [lease EXCEPT ![l] = NoLease]
    /\ cancelled' = [cancelled EXCEPT ![l] = FALSE]
    /\ UNCHANGED <<session, cache, uploaded>>

-----------------------------------------------------------------------------
LeaseStep(l) ==
    \/ \E n \in Node, chunk \in Chunks : TryLease(l, n, chunk)
    \/ CancelLease(l)
    \/ \E gpu \in GpuSizes, protected \in SUBSET DOMAIN residents :
          CompleteUpload(l, gpu, protected) \/ UploadFails(l, gpu, protected)
    \/ FinishUpload(l)
    \/ DropLease(l)
    \/ FreeHost(l)

CacheStep(n) ==
    \/ \E points \in PointCounts, gpu \in GpuSizes, g \in 0..MaxFrame,
          protected \in SUBSET DOMAIN residents : AdmitNode(n, points, gpu, g, protected)
    \/ \E g \in 0..MaxFrame : Touch(n, g)
    \/ RemoveNode(n)

Next ==
    \/ \E g \in 1..MaxFrame : BeginFrame(g)
    \/ \E l \in Lease : LeaseStep(l)
    \/ \E n \in Node : CacheStep(n)

\* A lease that is let go of is dropped to the end; a lease may be held forever.
Spec == Init /\ [][Next]_vars

-----------------------------------------------------------------------------
TypeOK ==
    /\ generation \in 0..MaxFrame
    /\ admitted \in 0..MaxUpload
    /\ in_flight \in SUBSET Node
    /\ host \in 0..MaxHost
    /\ stage \in [Lease -> {"none", "held", "admitted", "released", "dropped"}]
    /\ lease \in [Lease -> [node : Node \cup {0}, points : Nat, host : Nat, upload : Nat,
                            generation : 0..MaxFrame]]
    /\ cancelled \in [Lease -> BOOLEAN]
    /\ DOMAIN residents \subseteq Node
    /\ \A n \in DOMAIN residents :
          residents[n] \in [points : 1..MaxPoints, gpu : 1..MaxGpu, used : 0..MaxFrame]
    /\ totals \in [points : 0..MaxPoints, gpu : 0..MaxGpu]
    /\ uploaded \in [0..MaxFrame -> Nat]

Alive == {l \in Lease : stage[l] # "none"}

\* A node is in flight exactly while one lease that has not been released holds
\* it: releasing a lease twice, or late, never frees the node of another lease.
InFlightHasOneLease ==
    /\ \A n \in in_flight :
          \E l \in Alive : stage[l] \in {"held", "admitted"} /\ lease[l].node = n
    /\ \A l \in Alive : stage[l] \in {"held", "admitted"} => lease[l].node \in in_flight
    /\ \A l, m \in Alive :
          /\ stage[l] \in {"held", "admitted"} /\ stage[m] \in {"held", "admitted"}
          /\ lease[l].node = lease[m].node
          => l = m
    /\ Cardinality(in_flight) <= MaxInFlight

\* The host bytes of a lease are counted until the very end of its drop, also
\* when its node is no longer in flight, and given back once.
HostBytesAreLeased == host = Sum([l \in Lease |-> lease[l].host], Alive)

\* The cache stays within its budgets and its running totals are what its nodes
\* hold, through evictions, removals, refused admissions and admissions of
\* resident nodes, by uploads or by direct calls.
CacheTotalsExact ==
    /\ totals.points = ResidentPoints(DOMAIN residents)
    /\ totals.gpu = ResidentBytes(DOMAIN residents)
    /\ totals.points <= MaxPoints /\ totals.gpu <= MaxGpu

\* No frame leases more upload bytes than its budget, although leases outlive
\* their frame and refused or cancelled ones are not refunded.
UploadBudgetPerFrame == \A g \in 0..MaxFrame : uploaded[g] <= MaxUpload
=============================================================================

------------------------------- MODULE LodFrame -------------------------------
(***************************************************************************)
(* The camera-driven planner of crates/spatialrust-lod/src/planner.rs over *)
(* a forest of index.rs, together with the upload session and the cache of *)
(* residency.rs: frame after frame a caller plans, cancels what the plan   *)
(* cancels and leases what it requests, while loads of earlier frames end  *)
(* on other threads.  LodResidency has the session and the cache in        *)
(* detail; here a load is in flight until its lease is dropped, host and   *)
(* device bytes go with the points, and the order of eviction is open.     *)
(*                                                                         *)
(* The caller is not part of the repository.  It protects from eviction    *)
(* what it desires, or what it displays too.  A camera is the projected    *)
(* error of every node, 0 for a node it does not see.                      *)
(***************************************************************************)
EXTENDS Integers, FiniteSets, SequencesExt, ByteSum

CONSTANTS Parent,      \* the forest: the parent of every node, 0 for a root
          Points, Upload,     \* of every node
          Cameras,     \* functions from nodes to errors
          Enter, Exit, \* the thresholds of refinement
          MaxPoints, MaxHost, MaxUpload, MaxInFlight,    \* LodBudgets
          MaxMoves, MaxFailures    \* bounds of the instance

Node == DOMAIN Parent

ASSUME FrameAssumption ==
    /\ IsFiniteSet(Node) /\ Node \subseteq Nat \ {0}
    /\ Parent \in [Node -> Node \cup {0}]
    /\ \E depth \in [Node -> 1..Cardinality(Node)] :
          \A n \in Node : Parent[n] # 0 => depth[Parent[n]] < depth[n]
    /\ \A n \in Node : Points[n] \in 1..MaxHost /\ Upload[n] \in 1..MaxUpload
    /\ Cameras \subseteq [Node -> Nat]
    /\ 0 < Exit /\ Exit < Enter
    /\ {MaxPoints, MaxInFlight} \subseteq Nat \ {0}
    /\ MaxMoves \in Nat /\ MaxFailures \in Nat

VARIABLES protects,   \* what the caller protects: "desired" or "display"
          camera, moves,
          refined,    \* the planner's hysteresis
          plan,       \* its last plan
          requests,   \* those of the plan the caller has not tried yet
          uploaded,   \* upload bytes admitted in this frame
          flight,     \* each node's lease: none, held, or held and cancelled
          resident,   \* the cache
          failures

view == <<protects, camera, moves>>
planner == <<refined, plan>>
session == <<requests, uploaded, flight>>
vars == <<view, planner, session, resident, failures>>

NoPlan == [desired |-> {}, denied |-> {}, display |-> {}]

Init ==
    /\ protects \in {"desired", "display"}
    /\ camera \in Cameras /\ moves = 0
    /\ refined = {} /\ plan = NoPlan
    /\ requests = {} /\ uploaded = 0
    /\ flight = [n \in Node |-> "none"]
    /\ resident = {}
    /\ failures = 0

InFlight == {n \in Node : flight[n] # "none"}

MoveCamera ==
    /\ moves < MaxMoves
    /\ camera' \in Cameras \ {camera}
    /\ moves' = moves + 1
    /\ UNCHANGED <<protects, planner, session, resident, failures>>

-----------------------------------------------------------------------------
(* LodPlanner *)

Lineage[n \in Node] == <<n>> \o (IF Parent[n] = 0 THEN <<>> ELSE Lineage[Parent[n]])

Above == [n \in Node |-> ToSet(Lineage[n]) \ {n}]

\* Bug: the thresholds are swapped.
SwappedThreshold(n) == IF n \in refined THEN Enter ELSE Exit

Threshold(n) == IF n \in refined THEN Exit ELSE Enter

Inner == {Parent[n] : n \in Node} \ {0}

Refines(n) == n \in Inner /\ camera[n] > Threshold(n)

\* collect goes down as long as nodes are seen and refine.
Reached(n) ==
    /\ camera[n] > 0
    /\ \A a \in Above[n] : camera[a] > 0 /\ Refines(a)

Refined == {n \in Node : Reached(n) /\ Refines(n)}

Candidates == {n \in Node : Reached(n) /\ ~Refines(n)}

\* The larger error first, then the smaller id.
RanksBefore(a, b) == camera[a] > camera[b] \/ (camera[a] = camera[b] /\ a < b)

\* By rank, every candidate that fits with those that were taken before it.
Greedy(fitting) ==
    LET taken[nodes \in SUBSET Candidates] ==
            IF nodes = {} THEN {}
            ELSE LET last == CHOOSE n \in nodes : \A m \in nodes \ {n} : RanksBefore(m, n)
                     before == taken[nodes \ {last}]
                 IN  IF before \cup {last} \in fitting THEN before \cup {last} ELSE before
    IN  taken[Candidates]

New(nodes) == nodes \ (resident \cup InFlight)

FitsPoints(nodes) == Sum(Points, nodes) <= MaxPoints

\* The budgets of points, upload bytes and new requests.
FitsFrame(nodes) ==
    /\ FitsPoints(nodes)
    /\ Sum(Upload, New(nodes)) <= MaxUpload
    /\ Cardinality(New(nodes)) <= MaxInFlight

Desired == Greedy({nodes \in SUBSET Candidates : FitsFrame(nodes)})

NearestResident(n) == SelectSeq(Lineage[n], LAMBDA a : a \in resident)

Display(nodes) ==
    {Head(NearestResident(n)) : n \in {m \in nodes : NearestResident(m) # <<>>}}

\* begin_frame and plan, over snapshots of the session and the cache; obsolete
\* loads are cancelled at once.
Frame ==
    /\ requests = {}
    /\ refined' = Refined
    /\ LET desired == Desired
           obsolete == InFlight \ desired
       IN  /\ plan' = [desired |-> desired, denied |-> Candidates \ desired,
                       display |-> Display(desired)]
           /\ requests' = New(desired)
           /\ flight' = [n \in Node |-> IF n \in obsolete THEN "cancelled" ELSE flight[n]]
    /\ uploaded' = 0
    /\ UNCHANGED <<view, resident, failures>>

-----------------------------------------------------------------------------
(* LodUploadSession and LodGpuCache *)

Leasable(n) ==
    /\ n \notin InFlight
    /\ Cardinality(InFlight) < MaxInFlight
    /\ uploaded + Upload[n] <= MaxUpload
    /\ Sum(Points, InFlight) + Points[n] <= MaxHost

\* The requests are tried in their order; a refused one has to be planned again.
Request ==
    /\ requests # {}
    /\ LET n == Min(requests)
       IN  /\ requests' = requests \ {n}
           /\ IF Leasable(n)
              THEN /\ flight' = [flight EXCEPT ![n] = "held"]
                   /\ uploaded' = uploaded + Upload[n]
              ELSE UNCHANGED <<flight, uploaded>>
    /\ UNCHANGED <<view, planner, resident, failures>>

\* Bug: whatever is resident may be evicted.
EvictsAnything(n, evicted) ==
    /\ evicted \subseteq resident
    /\ Sum(Points, resident \ evicted) + Points[n] <= MaxPoints

\* Nodes that are not protected go, one after the other, until the new one fits.
Evicts(n, evicted) ==
    /\ evicted \subseteq resident \ (IF protects = "desired" THEN plan.desired
                                     ELSE plan.desired \cup plan.display)
    /\ Sum(Points, resident \ evicted) + Points[n] <= MaxPoints
    /\ evicted # {} => \E last \in evicted :
          Sum(Points, resident \ (evicted \ {last})) + Points[n] > MaxPoints

Land(n) == flight' = [flight EXCEPT ![n] = "none"]

\* A cancellation that comes after the check of the token is too late.
CompleteUpload(n, evicted) ==
    /\ n \in InFlight
    /\ Evicts(n, evicted)
    /\ resident' = (resident \ evicted) \cup {n}
    /\ Land(n)
    /\ UNCHANGED <<view, planner, requests, uploaded, failures>>

\* What is protected leaves no room: the load was in vain.
UploadRefused(n) ==
    /\ flight[n] = "held"
    /\ \A evicted \in SUBSET resident : ~Evicts(n, evicted)
    /\ Land(n)
    /\ UNCHANGED <<view, planner, requests, uploaded, resident, failures>>

DropCancelled(n) ==
    /\ flight[n] = "cancelled"
    /\ Land(n)
    /\ UNCHANGED <<view, planner, requests, uploaded, resident, failures>>

\* The source cannot load the node this time.
LoadFails(n) ==
    /\ flight[n] = "held" /\ failures < MaxFailures
    /\ failures' = failures + 1
    /\ Land(n)
    /\ UNCHANGED <<view, planner, requests, uploaded, resident>>

-----------------------------------------------------------------------------
Answer(n) ==
    \/ \E evicted \in SUBSET resident : CompleteUpload(n, evicted)
    \/ UploadRefused(n) \/ DropCancelled(n)

Next ==
    \/ MoveCamera
    \/ Frame \/ Request
    \/ \E n \in Node : Answer(n) \/ LoadFails(n)

\* Frames go on, and of the loads in flight one or another ends.
Fairness == WF_vars(Frame \/ Request) /\ WF_vars(\E n \in Node : Answer(n))

Spec == Init /\ [][Next]_vars /\ Fairness

-----------------------------------------------------------------------------
\* What a camera deserves: its candidates by rank as far as the points go.
Deserved == Greedy({nodes \in SUBSET Candidates : FitsPoints(nodes)})

\* Budgets hold across the snapshots of the plan and the loads of earlier frames,
\* no node is loaded while it is resident, and a caller that protects what it
\* displays never displays a node that has left the cache since the plan.
ResidencyFollowsPlan ==
    /\ Sum(Points, resident) <= MaxPoints /\ Sum(Points, plan.desired) <= MaxPoints
    /\ Cardinality(InFlight) <= MaxInFlight /\ uploaded <= MaxUpload
    /\ Sum(Points, InFlight) <= MaxHost
    /\ InFlight \cap resident = {} /\ requests \cap (InFlight \cup resident) = {}
    /\ protects = "display" => plan.display \subseteq resident

\* Once the camera stays where it is, a caller that protects what it desires comes
\* to display exactly what the camera deserves, and asks for nothing more, whatever
\* was in flight, refused, cancelled or failed before: the plans do not oscillate
\* and no node is loaded and evicted in turn.
StillCameraConverges ==
    protects = "desired" =>
        <>[](/\ InFlight = {} /\ requests = {}
             /\ plan.display = plan.desired /\ plan.desired = Deserved)
=============================================================================

----------------------------- MODULE SpatialGraph -----------------------------
(***************************************************************************)
(* The operator graph of crates/spatialrust-runtime/src/graph.rs: a        *)
(* builder whose calls come in any order, compile, the bounded input queue *)
(* (the policy of crates/spatialrust-distribute/src/backpressure.rs) and   *)
(* run_next, node by node.  Calls the builder refuses change nothing and   *)
(* are stutters.                                                           *)
(*                                                                         *)
(* What an operator computes is abstracted to the path a value has taken:  *)
(* an operator appends its node.  It may fail at any value.                *)
(***************************************************************************)
EXTENDS Integers, FiniteSets, SequencesExt

CONSTANTS Placements,   \* the graph's nodes with their device and fusability
          Edges,        \* the edges a caller may connect, at most MaxEdges of them
          Transfers,    \* the transfers a caller may declare: [name, from, to]
          SoftLimit, HardLimit,
          MaxEdges, MaxSubmits    \* bounds of the instance

ASSUME GraphAssumption ==
    /\ SoftLimit \in Nat \ {0} /\ HardLimit \in Nat /\ SoftLimit <= HardLimit
    /\ \A p \in Placements : DOMAIN p \subseteq Nat
    /\ \A e \in Edges : e[1] # e[2]
    /\ MaxEdges \in Nat /\ MaxSubmits \in Nat

VARIABLES specs,      \* what the nodes will be
          nodes, edges, transfers,    \* the builder, then the compiled graph
          phase,      \* building, rejected, compiled (between runs) or running
          order, groups,              \* the schedule
          inputs,     \* the queue; a value is the number of its submission
          softTrips, hardRejects, submitted,
          ran,        \* history: the values that run_next has taken, in that order
          current,    \* the value that runs and the depth of the queue it left
          position,   \* the place in the order of the next node to run
          pending,    \* the values that wait at each node
          sinks, ledger,
          answer      \* what the last run that succeeded returned

graph == <<specs, nodes, edges, transfers>>
schedule == <<order, groups>>
queue == <<inputs, softTrips, hardRejects, submitted, ran>>
progress == <<current, position, pending, sinks, ledger>>
vars == <<graph, phase, schedule, queue, progress, answer>>

Idle == [value |-> 0, depth |-> 0]

NoAnswer == [value |-> 0, sinks |-> <<>>, ledger |-> <<>>, depth |-> 0]

Init ==
    /\ specs \in Placements
    /\ nodes = {} /\ edges = <<>> /\ transfers = <<>>
    /\ phase = "building"
    /\ order = <<>> /\ groups = <<>>
    /\ inputs = <<>> /\ softTrips = 0 /\ hardRejects = 0 /\ submitted = 0 /\ ran = <<>>
    /\ current = Idle /\ position = 1 /\ pending = <<>> /\ sinks = <<>> /\ ledger = <<>>
    /\ answer = NoAnswer

-----------------------------------------------------------------------------
(* SpatialExecutionGraph *)

AddNode(id) ==
    /\ phase = "building"
    /\ id \notin nodes
    /\ nodes' = nodes \cup {id}
    /\ UNCHANGED <<specs, edges, transfers, phase, schedule, queue, progress, answer>>

Connect(e) ==
    /\ phase = "building"
    /\ e[1] \in nodes /\ e[2] \in nodes
    /\ ~Contains(edges, e) /\ Len(edges) < MaxEdges
    /\ edges' = Append(edges, e)
    /\ UNCHANGED <<specs, nodes, transfers, phase, schedule, queue, progress, answer>>

DeclareTransfer(t) ==
    /\ phase = "building"
    /\ ~Contains(transfers, t)
    /\ transfers' = Append(transfers, t)
    /\ UNCHANGED <<specs, nodes, edges, phase, schedule, queue, progress, answer>>

Successors(id) ==
    LET from == SelectSeq(edges, LAMBDA e : e[1] = id) IN [i \in DOMAIN from |-> from[i][2]]

Predecessors(id) == {n \in nodes : Contains(edges, <<n, id>>)}

\* The least identifier of which every predecessor is in the order already.
Ready(sofar) ==
    {id \in nodes \ ToSet(sofar) : Predecessors(id) \subseteq ToSet(sofar)}

TopologicalOrder ==
    FoldLeft(LAMBDA sofar, i : IF Ready(sofar) = {} THEN sofar ELSE Append(sofar, Min(Ready(sofar))),
             <<>>, [i \in 1..Cardinality(nodes) |-> i])

\* Bug: a node that others feed too is fused.
FusesJoins(a, b) ==
    /\ Contains(edges, <<a, b>>)
    /\ Len(Successors(a)) = 1
    /\ specs[a].fusable /\ specs[b].fusable
    /\ specs[a].device = specs[b].device

Fuses(a, b) ==
    /\ Contains(edges, <<a, b>>)
    /\ Len(Successors(a)) = 1 /\ Cardinality(Predecessors(b)) = 1
    /\ specs[a].fusable /\ specs[b].fusable
    /\ specs[a].device = specs[b].device

FusionGroups(ids) ==
    FoldLeft(LAMBDA gs, id : IF gs # <<>> /\ Fuses(Last(Last(gs)), id)
                             THEN Append(Front(gs), Append(Last(gs), id))
                             ELSE Append(gs, <<id>>),
             <<>>, ids)

Carries(t, e) == t.from = e[1] /\ t.to = e[2]

Crosses(e) == specs[e[1]].device # specs[e[2]].device

Valid ==
    /\ nodes # {}
    /\ Len(TopologicalOrder) = Cardinality(nodes)
    /\ Cardinality({id \in nodes : Predecessors(id) = {}}) = 1
    /\ \A e \in ToSet(edges) : Crosses(e) => \E t \in ToSet(transfers) : Carries(t, e)
    /\ \A t \in ToSet(transfers) : \E e \in ToSet(edges) : Carries(t, e)

Compile ==
    /\ phase = "building"
    /\ IF Valid
       THEN /\ phase' = "compiled"
            /\ order' = TopologicalOrder
            /\ groups' = FusionGroups(TopologicalOrder)
       ELSE phase' = "rejected" /\ UNCHANGED schedule
    /\ UNCHANGED <<graph, queue, progress, answer>>

-----------------------------------------------------------------------------
(* CompiledSpatialGraph *)

\* Bug: the hard limit is met one value late.
EvaluateLate(depth) ==
    IF depth > HardLimit THEN "hard" ELSE IF depth >= SoftLimit THEN "soft" ELSE "ok"

Evaluate(depth) ==
    IF depth >= HardLimit THEN "hard" ELSE IF depth >= SoftLimit THEN "soft" ELSE "ok"

Admit ==
    /\ phase = "compiled" /\ submitted < MaxSubmits
    /\ Evaluate(Len(inputs)) # "hard"
    /\ submitted' = submitted + 1
    /\ inputs' = Append(inputs, submitted')
    /\ softTrips' = softTrips + (IF Evaluate(Len(inputs)) = "soft" THEN 1 ELSE 0)
    /\ UNCHANGED <<graph, phase, schedule, hardRejects, ran, progress, answer>>

Reject ==
    /\ phase = "compiled" /\ submitted < MaxSubmits
    /\ Evaluate(Len(inputs)) = "hard"
    /\ submitted' = submitted + 1
    /\ hardRejects' = hardRejects + 1
    /\ UNCHANGED <<graph, phase, schedule, inputs, softTrips, ran, progress, answer>>

Source == CHOOSE id \in nodes : Predecessors(id) = {}

StartRun ==
    /\ phase = "compiled" /\ inputs # <<>>
    /\ phase' = "running"
    /\ current' = [value |-> Head(inputs), depth |-> Len(inputs)]
    /\ inputs' = Tail(inputs)
    /\ ran' = Append(ran, Head(inputs))
    /\ position' = 1
    /\ pending' = [id \in nodes |-> IF id = Source THEN <<<<>>>> ELSE <<>>]
    /\ sinks' = <<>> /\ ledger' = <<>>
    /\ UNCHANGED <<graph, schedule, softTrips, hardRejects, submitted, answer>>

Id == order[position]

Outputs == [i \in DOMAIN pending[Id] |-> Append(pending[Id][i], Id)]

\* Bug: an output replaces what waits at a node.
HandOver(n) ==
    IF n = Id THEN <<>>
    ELSE IF Contains(Successors(Id), n) /\ Outputs # <<>> THEN <<Last(Outputs)>> ELSE pending[n]

\* What waits at n when the node has run: every output goes to every successor.
HandOn(n) ==
    IF n = Id THEN <<>>
    ELSE pending[n] \o (IF Contains(Successors(Id), n) THEN Outputs ELSE <<>>)

\* The first transfer that is declared for an edge is recorded.
Recorded(e) ==
    LET named == SelectSeq(transfers, LAMBDA t : Carries(t, e))
    IN  IF named = <<>> THEN <<>> ELSE <<Head(named)>>

Records ==
    FlattenSeq([i \in DOMAIN Outputs |->
        FlattenSeq([s \in DOMAIN Successors(Id) |-> Recorded(<<Id, Successors(Id)[s]>>)])])

RunNode ==
    /\ phase = "running" /\ position <= Len(order)
    /\ pending' = [n \in nodes |-> HandOn(n)]
    /\ sinks' = sinks \o (IF Successors(Id) = <<>> THEN Outputs ELSE <<>>)
    /\ ledger' = ledger \o Records
    /\ position' = position + 1
    /\ UNCHANGED <<graph, phase, schedule, queue, current, answer>>

Return ==
    /\ phase' = "compiled"
    /\ current' = Idle /\ position' = 1 /\ pending' = <<>> /\ sinks' = <<>> /\ ledger' = <<>>
    /\ UNCHANGED <<graph, schedule>>

OperatorFails ==
    /\ phase = "running" /\ position <= Len(order)
    /\ pending[Id] # <<>>

\* Bug: the value goes back to the front of the queue.
FailAndRequeue ==
    /\ OperatorFails
    /\ Return
    /\ inputs' = <<current.value>> \o inputs
    /\ UNCHANGED <<softTrips, hardRejects, submitted, ran, answer>>

\* An operator fails: the value, and what the others made of it, is gone.
NodeFails ==
    /\ OperatorFails
    /\ Return
    /\ UNCHANGED <<queue, answer>>

EndRun ==
    /\ phase = "running" /\ position > Len(order)
    /\ answer' = [value |-> current.value, sinks |-> sinks, ledger |-> ledger,
                  depth |-> current.depth]
    /\ Return
    /\ UNCHANGED queue

-----------------------------------------------------------------------------
Next ==
    \/ \E id \in DOMAIN specs : AddNode(id)
    \/ \E e \in Edges : Connect(e)
    \/ \E t \in Transfers : DeclareTransfer(t)
    \/ Compile
    \/ Admit \/ Reject
    \/ StartRun \/ RunNode \/ NodeFails \/ EndRun

Spec == Init /\ [][Next]_vars

-----------------------------------------------------------------------------
\* Shapes; the queue never exceeds the hard limit; every submission was refused,
\* waits or has been taken, each once and in the order of admission, whatever
\* failed in between: a value that fails is not run again and takes none of those
\* behind it along.
TypeOK ==
    /\ specs \in Placements /\ nodes \subseteq DOMAIN specs
    /\ ToSet(edges) \subseteq Edges /\ ToSet(transfers) \subseteq Transfers
    /\ phase \in {"building", "rejected", "compiled", "running"}
    /\ Len(inputs) <= HardLimit
    /\ LET admitted == ran \o inputs
       IN  /\ \A i \in DOMAIN admitted : admitted[i] \in 1..submitted
           /\ \A i, j \in DOMAIN admitted : i < j => admitted[i] < admitted[j]
           /\ Len(admitted) + hardRejects = submitted
           /\ softTrips <= Len(admitted)
    /\ phase = "running" => current.value = Last(ran) /\ answer.value < current.value
    /\ answer # NoAnswer => answer.value \in ToSet(ran)
    /\ current.depth \in 0..HardLimit
    /\ position \in 1..Cardinality(nodes) + 1

-----------------------------------------------------------------------------
(* What a run should return, from the edges alone *)

\* The walks of n nodes that start at the source.
Walks[n \in Nat] ==
    IF n <= 1 THEN {<<Source>>}
    ELSE {Append(w, e[2]) : <<w, e>> \in
             {x \in Walks[n - 1] \X ToSet(edges) : Last(x[1]) = x[2][1]}}

AllWalks == UNION {Walks[n] : n \in 1..Cardinality(nodes)}

Paths == {w \in AllWalks : Successors(Last(w)) = <<>>}

\* A value crosses an edge once for every walk that ends with it.
Crossings(e) == Cardinality({w \in AllWalks : Len(w) > 1 /\ w[Len(w) - 1] = e[1] /\ Last(w) = e[2]})

SinkNodes == {id \in nodes : Successors(id) = <<>>}

\* The receipt of a run that succeeds says what happened: a transfer is recorded
\* for every time a value went over an edge that has one, in particular over every
\* edge between two devices, and for nothing else; every node lies on a path to a
\* sink, every sink is answered, by values that came to it from the source, and
\* by one of them only where no node has two predecessors.
ReceiptMatchesEdges ==
    answer # NoAnswer =>
    /\ \A e \in ToSet(edges) :
          LET declared == \E t \in ToSet(transfers) : Carries(t, e)
          IN  /\ Len(SelectSeq(answer.ledger, LAMBDA t : Carries(t, e)))
                     = IF declared THEN Crossings(e) ELSE 0
              /\ Crosses(e) => declared
    /\ UNION {ToSet(p) : p \in Paths} = ToSet(order)
    /\ ToSet(answer.sinks) \subseteq Paths
    /\ {Last(answer.sinks[i]) : i \in DOMAIN answer.sinks} = SinkNodes
    /\ (\A id \in nodes : Cardinality(Predecessors(id)) <= 1) =>
          Len(answer.sinks) = Cardinality(SinkNodes)

\* "returns one value per sink": where paths join, run_next returns one for every
\* path that reaches the sink.
OneValuePerSink ==
    answer # NoAnswer => Len(answer.sinks) = Cardinality(SinkNodes)

\* No queue is needed inside a fusion group: the groups cut the order into
\* pieces, and a value that meets a group runs through it from its first node to
\* its last with nothing in between, on one device; a node that may not be fused
\* is a group of its own.
GroupsElideQueues ==
    phase \in {"compiled", "running"} =>
    /\ FlattenSeq(groups) = order
    /\ \A g \in ToSet(groups), p \in Paths :
          /\ ToSet(g) \cap ToSet(p) # {} => \E i \in 0..Len(p) - Len(g) :
                SubSeq(p, i + 1, i + Len(g)) = g
          /\ Cardinality({specs[id].device : id \in ToSet(g)}) = 1
          /\ Len(g) > 1 => \A id \in ToSet(g) : specs[id].fusable
=============================================================================

---------------------------- MODULE MCSpatialGraph ----------------------------
(***************************************************************************)
(* Small instances of SpatialGraph for TLC: up to four nodes, connected in *)
(* every order by edges that make chains, forks, joins, an order against   *)
(* the identifiers, second sources and a cycle.                            *)
(***************************************************************************)
EXTENDS SpatialGraph

Cpu == [device |-> "cpu", fusable |-> TRUE]
Gpu == [device |-> "gpu", fusable |-> TRUE]
Queued == [device |-> "cpu", fusable |-> FALSE]

MCPlacements == {<<Cpu, Cpu, Cpu, Gpu>>, <<Cpu, Queued, Cpu, Cpu>>, <<Cpu, Cpu, Cpu, Cpu>>}

MCEdges == {<<1, 2>>, <<1, 3>>, <<2, 4>>, <<4, 3>>, <<3, 4>>, <<1, 4>>}

MCTransfers == {[name |-> "upload", from |-> 3, to |-> 4], [name |-> "upload", from |-> 2, to |-> 4],
                [name |-> "copy", from |-> 3, to |-> 4], [name |-> "readback", from |-> 4, to |-> 3]}
=============================================================================

------------------------ MODULE MCStreamingPipeline ------------------------
(***************************************************************************)
(* Small instances of StreamingPipeline for TLC: every input of three      *)
(* points and some of five, cut into chunks and runs in every way.         *)
(***************************************************************************)
EXTENDS StreamingPipeline

Off == [on |-> FALSE, keeps |-> {}]
Crop == [on |-> TRUE, keeps |-> {1, NaN}]
Transform == [on |-> TRUE, keeps |-> {0, 1, 2, NaN}]

Short == [1..3 -> {NaN, 0, 1}]
Long == {<<2, 0, 2, 0, 1>>, <<1, 0, 1, 0, 1>>, <<0, NaN, 1, 1, 0>>}

\* Two leases, or one and the chunk that is mapped.
PlainJobs ==
    [points : Short \cup Long, chunk : {1, 2}, map : {Off, Crop, Transform},
     voxel : {FALSE}, run : {1}, runs : {1}, spool : {0}, memory : {48},
     caller : {"iterator", "direct"}, expects : {Open}]

\* A merge of two runs fits, with two leases; one of three does not.
TightJobs ==
    [points : Short, chunk : {1, 2}, map : {Off, Crop},
     voxel : {TRUE}, run : {1, 2}, runs : {3}, spool : {1000}, memory : {576},
     caller : {"iterator", "direct"}, expects : {Open}]

\* All merges fit; the limit of runs or of the spool is met, or is not.
WideJobs ==
    [points : Long, chunk : {1, 2, 3}, map : {Off, Transform},
     voxel : {TRUE}, run : {1, 2, 5}, runs : {2, 5}, spool : {200, 1000}, memory : {1000},
     caller : {"iterator"}, expects : {Open}]

\* Not even the run buffer fits when others use the tracker.
SmallJobs ==
    [points : {<<0, 1, 0>>}, chunk : {1}, map : {Off, Crop}, voxel : {TRUE}, run : {1}, runs : {1},
     spool : {1000}, memory : {100, 120}, caller : {"iterator"}, expects : {Open}]

\* Files that expect any number, too few, as many as come, or too many.
SinkJobs ==
    [points : Short, chunk : {1, 2}, map : {Off, Crop},
     voxel : BOOLEAN, run : {2}, runs : {3}, spool : {1000}, memory : {576},
     caller : {"sink"}, expects : {Open, 1, 2, 3}]

MCJobs == PlainJobs \cup TightJobs \cup WideJobs \cup SmallJobs \cup SinkJobs
=============================================================================

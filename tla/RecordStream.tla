---------------------------- MODULE RecordStream ----------------------------
(***************************************************************************)
(* What BoundedSpatialRecordSource promises its caller, whoever implements *)
(* it (crates/spatialrust-records/src/bounded.rs): chunks that hold points *)
(* continue one another without gaps, and the end is announced when, and   *)
(* only when, everything that was produced has been delivered.  After the  *)
(* end or a failure nothing more is delivered.  Pulls that are refused for *)
(* lack of memory and may be retried change nothing.                       *)
(***************************************************************************)
EXTENDS Integers

VARIABLES produced,  \* points the producer has produced
          position,  \* the identity of the chunk that comes next
          delivered, \* the chunks that were returned
          state      \* "open", "ended" or "failed"

vars == <<produced, position, delivered, state>>

Init ==
    /\ produced \in Nat
    /\ position = [sequence |-> 0, point_offset |-> 0]
    /\ delivered = {}
    /\ state = "open"

\* The producer works ahead, also after a failure that it has not noticed.
Produce ==
    /\ state # "ended"
    /\ \E points \in Nat \ {0} : produced' = produced + points
    /\ UNCHANGED <<position, delivered, state>>

Deliver ==
    /\ state = "open"
    /\ \E points \in Nat \ {0} :
          /\ position.point_offset + points <= produced
          /\ delivered' = delivered \cup {[identity |-> position, points |-> points]}
          /\ position' = [sequence |-> position.sequence + 1,
                          point_offset |-> position.point_offset + points]
    /\ UNCHANGED <<produced, state>>

Finish ==
    /\ state = "open"
    /\ position.point_offset = produced
    /\ state' = "ended"
    /\ UNCHANGED <<produced, position, delivered>>

\* A cancelled stream may say so even after its end.
Fail ==
    /\ state' = "failed"
    /\ UNCHANGED <<produced, position, delivered>>

Next == Produce \/ Deliver \/ Finish \/ Fail

Spec == Init /\ [][Next]_vars
=============================================================================

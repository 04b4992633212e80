---------------------------- MODULE BudgetLedger ----------------------------
(***************************************************************************)
(* What the documentation of MemoryTracker promises, with no counter and   *)
(* no atomics: clients own bytes; a grant happens in one step and only     *)
(* when what everyone owns, plus the grant, fits the limit; an owner gives *)
(* back part or all of what it owns.  Refusals change nothing.             *)
(***************************************************************************)
EXTENDS ByteSum

CONSTANTS Client,  \* the reservations that may exist
          Limit    \* MemoryBudget::limit_bytes

VARIABLE owned     \* [Client -> 0..Limit]

OwnedTotal == Total(owned, Client, Limit)

Init == owned = [c \in Client |-> 0]

Grant(c) ==
    \E n \in 1..Limit :
        /\ owned[c] = 0
        /\ OwnedTotal + n <= Limit
        /\ owned' = [owned EXCEPT ![c] = n]

GiveBack(c) ==
    \E n \in 0..Limit :
        /\ n < owned[c]
        /\ owned' = [owned EXCEPT ![c] = n]

Next == \E c \in Client : Grant(c) \/ GiveBack(c)

Spec == Init /\ [][Next]_owned
=============================================================================

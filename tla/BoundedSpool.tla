---------------------------- MODULE BoundedSpool ----------------------------
(***************************************************************************)
(* BoundedSpool (crates/spatialrust-io/src/spool.rs): threads of one       *)
(* process create uniquely named .part files, write and seek in them, and  *)
(* commit or drop them.  The file system outlives the process: a crash     *)
(* leaves .part files behind, and the next process, whose counter starts   *)
(* at zero again, may have the same process id and so the same names.      *)
(* Other processes share nothing but the destinations, for which a thread  *)
(* of this one stands.                                                     *)
(***************************************************************************)
EXTENDS Integers, FiniteSets

CONSTANTS Spool,      \* the spools that may be in use at once
          Dest,       \* destination paths
          NoFile,     \* a destination that does not exist
          Limit,      \* SpoolOptions::limit_bytes
          Tries,      \* names tried before create gives up
          MaxSeek,    \* bound: the largest position sought
          MaxId,      \* bound: ids one process draws
          MaxCrashes  \* bound: crashes

ASSUME SpoolAssumption ==
    /\ IsFiniteSet(Spool)
    /\ NoFile \notin Spool
    /\ Limit \in Nat \ {0} /\ Tries \in Nat \ {0}
    /\ MaxSeek \in Nat /\ MaxId \in Nat /\ MaxCrashes \in Nat

VARIABLES nextId,    \* NEXT_SPOOL_ID
          state,     \* where each spool is
          id,        \* the id in its path
          tries,     \* names it has tried
          position,  \* its file's stream position
          extent,    \* extent_bytes
          target,    \* the destination it is being committed to
          parts,     \* the .part files that exist, by id
          length,    \* their lengths
          dest,      \* who wrote the file at each destination
          leftovers, \* history: the .part files crashes and failed removals left
          crashes    \* how many

handle == <<id, tries, position, extent, target>>
files == <<parts, length, dest>>
vars == <<nextId, state, handle, files, leftovers, crashes>>

Larger(a, b) == IF a < b THEN b ELSE a

Init ==
    /\ nextId = 0
    /\ state = [s \in Spool |-> "none"]
    /\ id = [s \in Spool |-> 0]
    /\ tries = [s \in Spool |-> 0]
    /\ position = [s \in Spool |-> 0]
    /\ extent = [s \in Spool |-> 0]
    /\ target = [s \in Spool |-> NoFile]
    /\ parts = {}
    /\ length = [i \in 0..MaxId |-> 0]
    /\ dest = [d \in Dest |-> NoFile]
    /\ leftovers = {}
    /\ crashes = 0

\* The handle of s ceases to exist.
Forget(s) ==
    /\ state' = [state EXCEPT ![s] = "none"]
    /\ id' = [id EXCEPT ![s] = 0]
    /\ tries' = [tries EXCEPT ![s] = 0]
    /\ position' = [position EXCEPT ![s] = 0]
    /\ extent' = [extent EXCEPT ![s] = 0]
    /\ target' = [target EXCEPT ![s] = NoFile]

\* Bug: the handle goes and its file stays.
ForgetOnly(s) ==
    /\ Forget(s)
    /\ UNCHANGED <<nextId, files, leftovers, crashes>>

\* Drop of a spool that is not committed: close, then remove by path.  The
\* result of the removal is ignored: when it fails, the file is left over.
DropUncommitted(s) ==
    /\ Forget(s)
    /\ \/ /\ parts' = parts \ {id[s]}
          /\ UNCHANGED leftovers
       \/ /\ leftovers' = leftovers \cup {id[s]}
          /\ UNCHANGED parts
    /\ UNCHANGED <<nextId, length, dest, crashes>>

-----------------------------------------------------------------------------
(* create *)

\* Bug: the id is drawn with a load and the counter never moves on.
DrawSameId(s) ==
    /\ state[s] \in {"none", "retry"}
    /\ nextId < MaxId
    /\ id' = [id EXCEPT ![s] = nextId]
    /\ tries' = [tries EXCEPT ![s] = @ + 1]
    /\ state' = [state EXCEPT ![s] = "named"]
    /\ UNCHANGED <<nextId, position, extent, target, files, leftovers, crashes>>

\* The counter is drawn from in one step, the name is tried in another.
DrawId(s) ==
    /\ state[s] \in {"none", "retry"}
    /\ nextId < MaxId
    /\ nextId' = nextId + 1
    /\ id' = [id EXCEPT ![s] = nextId]
    /\ tries' = [tries EXCEPT ![s] = @ + 1]
    /\ state' = [state EXCEPT ![s] = "named"]
    /\ UNCHANGED <<position, extent, target, files, leftovers, crashes>>

\* create_new succeeds only on a name that does not exist.
OpenNew(s) ==
    /\ state[s] = "named"
    /\ id[s] \notin parts
    /\ parts' = parts \cup {id[s]}
    /\ length' = [length EXCEPT ![id[s]] = 0]
    /\ state' = [state EXCEPT ![s] = "open"]
    /\ UNCHANGED <<nextId, handle, dest, leftovers, crashes>>

NameTaken(s) ==
    /\ state[s] = "named"
    /\ id[s] \in parts
    /\ state' = [state EXCEPT ![s] = IF tries[s] < Tries THEN "retry" ELSE "exhausted"]
    /\ UNCHANGED <<nextId, handle, files, leftovers, crashes>>

\* Any other error of open ends create at once.
OpenFails(s) ==
    /\ state[s] = "named"
    /\ Forget(s)
    /\ UNCHANGED <<nextId, files, leftovers, crashes>>

GiveUp(s) ==
    /\ state[s] = "exhausted"
    /\ Forget(s)
    /\ UNCHANGED <<nextId, files, leftovers, crashes>>

-----------------------------------------------------------------------------
(* Write and Seek *)

\* Bug: the position is checked and not where the write ends.
WriteFromLimit(s, n, written) ==
    /\ state[s] = "open"
    /\ position[s] < Limit
    /\ written <= n
    /\ position' = [position EXCEPT ![s] = @ + written]
    /\ extent' = [extent EXCEPT ![s] = Larger(@, position[s] + written)]
    /\ length' = IF written = 0 THEN length
                 ELSE [length EXCEPT ![id[s]] = Larger(@, position[s] + written)]
    /\ UNCHANGED <<nextId, state, id, tries, target, parts, dest, leftovers, crashes>>

\* Bug: the extent follows the last write, also after a seek back.
WriteSetsExtent(s, n, written) ==
    /\ state[s] = "open"
    /\ position[s] + n <= Limit
    /\ written <= n
    /\ position' = [position EXCEPT ![s] = @ + written]
    /\ extent' = [extent EXCEPT ![s] = position[s] + written]
    /\ length' = IF written = 0 THEN length
                 ELSE [length EXCEPT ![id[s]] = Larger(@, position[s] + written)]
    /\ UNCHANGED <<nextId, state, id, tries, target, parts, dest, leftovers, crashes>>

\* A write of n bytes is refused when it would end beyond the limit; the file
\* system may take only some of them.
Write(s, n, written) ==
    /\ state[s] = "open"
    /\ position[s] + n <= Limit
    /\ written <= n
    /\ position' = [position EXCEPT ![s] = @ + written]
    /\ extent' = [extent EXCEPT ![s] = Larger(@, position[s] + written)]
    /\ length' = IF written = 0 THEN length
                 ELSE [length EXCEPT ![id[s]] = Larger(@, position[s] + written)]
    /\ UNCHANGED <<nextId, state, id, tries, target, parts, dest, leftovers, crashes>>

\* Seek; a read also only moves the position.
Seek(s, p) ==
    /\ state[s] = "open"
    /\ position' = [position EXCEPT ![s] = p]
    /\ UNCHANGED <<nextId, state, id, tries, extent, target, files, leftovers, crashes>>

-----------------------------------------------------------------------------
(* commit: look, flush and close, rename; every error drops the spool *)

DestinationFree(s, d) ==
    /\ state[s] = "open"
    /\ dest[d] = NoFile
    /\ state' = [state EXCEPT ![s] = "sync"]
    /\ target' = [target EXCEPT ![s] = d]
    /\ UNCHANGED <<nextId, id, tries, position, extent, files, leftovers, crashes>>

DestinationExists(s, d) ==
    /\ state[s] = "open"
    /\ dest[d] # NoFile
    /\ DropUncommitted(s)

Sync(s) ==
    /\ state[s] = "sync"
    /\ state' = [state EXCEPT ![s] = "rename"]
    /\ UNCHANGED <<nextId, handle, files, leftovers, crashes>>

\* std::fs::rename replaces a file that exists at the destination.
Rename(s) ==
    /\ state[s] = "rename"
    /\ dest' = [dest EXCEPT ![target[s]] = s]
    /\ parts' = parts \ {id[s]}
    /\ Forget(s)
    /\ UNCHANGED <<nextId, length, leftovers, crashes>>

CommitFails(s) ==
    /\ state[s] \in {"sync", "rename"}
    /\ DropUncommitted(s)

DropOpen(s) ==
    /\ state[s] = "open"
    /\ DropUncommitted(s)

-----------------------------------------------------------------------------
\* The process dies: no destructor runs, the files stay.
Crash ==
    /\ crashes < MaxCrashes
    /\ crashes' = crashes + 1
    /\ leftovers' = parts
    /\ nextId' = 0
    /\ state' = [s \in Spool |-> "none"]
    /\ id' = [s \in Spool |-> 0]
    /\ tries' = [s \in Spool |-> 0]
    /\ position' = [s \in Spool |-> 0]
    /\ extent' = [s \in Spool |-> 0]
    /\ target' = [s \in Spool |-> NoFile]
    /\ UNCHANGED files

SpoolStep(s) ==
    \/ DrawId(s) \/ OpenNew(s) \/ NameTaken(s) \/ OpenFails(s) \/ GiveUp(s)
    \/ \E n \in 0..Limit, written \in 0..Limit : Write(s, n, written)
    \/ \E p \in 0..MaxSeek : Seek(s, p)
    \/ \E d \in Dest : DestinationFree(s, d) \/ DestinationExists(s, d)
    \/ Sync(s) \/ Rename(s) \/ CommitFails(s) \/ DropOpen(s)

Next == (\E s \in Spool : SpoolStep(s)) \/ Crash

Spec == Init /\ [][Next]_vars

-----------------------------------------------------------------------------
TypeOK ==
    /\ nextId \in 0..MaxId
    /\ state \in [Spool -> {"none", "named", "retry", "exhausted", "open", "sync", "rename"}]
    /\ id \in [Spool -> 0..MaxId]
    /\ tries \in [Spool -> 0..Tries]
    /\ position \in [Spool -> 0..Larger(MaxSeek, Limit)]
    /\ extent \in [Spool -> 0..Limit]
    /\ target \in [Spool -> Dest \cup {NoFile}]
    /\ parts \in SUBSET (0..MaxId)
    /\ length \in [0..MaxId -> Nat]
    /\ dest \in [Dest -> Spool \cup {NoFile}]
    /\ leftovers \in SUBSET (0..MaxId)
    /\ crashes \in 0..MaxCrashes

HasFile(s) == state[s] \in {"open", "sync", "rename"}

\* A .part file belongs to exactly one live spool or is what a crash or a failed
\* removal left: nothing else leaks on any path out of a spool, and no spool ever writes into,
\* renames or removes the file of another or of an earlier process.
PartsHaveOneOwner ==
    /\ parts = {id[s] : s \in {t \in Spool : HasFile(t)}} \cup leftovers
    /\ \A s \in Spool : HasFile(s) => id[s] \notin leftovers
    /\ \A s, t \in Spool : HasFile(s) /\ HasFile(t) /\ s # t => id[s] # id[t]

\* The disk budget: however writes, partial writes and seeks are mixed, the
\* file is within the reported extent and the extent within the limit.
ExtentCoversFile ==
    \A s \in Spool : HasFile(s) => length[id[s]] <= extent[s] /\ extent[s] <= Limit

\* create gives up only when there are as many left-over files as it tries
\* names: live spools of the same process never make it fail.
GivesUpOnlyWhenLittered ==
    (\E s \in Spool : state[s] = "exhausted") => Cardinality(leftovers) >= Tries

\* "Existing destinations are rejected rather than overwritten."
NeverOverwrites == [][\A d \in Dest : dest[d] # NoFile => dest'[d] = dest[d]]_vars
=============================================================================

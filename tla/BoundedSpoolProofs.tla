-------------------------- MODULE BoundedSpoolProofs --------------------------
(***************************************************************************)
(* Proofs about BoundedSpool for every set of spools and destinations and  *)
(* every limit: a .part file has one owner or is left over, whatever       *)
(* crashes and failed removals happened, nobody else changes or removes    *)
(* it, and a file stays within the disk budget.                            *)
(***************************************************************************)
EXTENDS BoundedSpool, FiniteSetTheorems, TLAPS

\* Names are counted from the first one on, and a retry has one left.
TriesBounded ==
    \A s \in Spool : /\ state[s] = "none" => tries[s] = 0
                     /\ state[s] = "retry" => tries[s] < Tries

IInv == TypeOK /\ TriesBounded /\ PartsHaveOneOwner /\ ExtentCoversFile

-----------------------------------------------------------------------------
LEMMA InitEstablishes ==
  ASSUME Init
  PROVE  IInv
<1>1. TypeOK
  BY SpoolAssumption DEF Init, TypeOK, Larger
<1>2. TriesBounded /\ PartsHaveOneOwner /\ ExtentCoversFile
  BY DEF Init, TriesBounded, PartsHaveOneOwner, ExtentCoversFile, HasFile
<1> QED
  BY <1>1, <1>2 DEF IInv

\* The spools that have a file and their lengths are all that the ownership
\* and the budget speak of.
LEMMA OwnersStay ==
  ASSUME PartsHaveOneOwner, ExtentCoversFile,
         UNCHANGED <<parts, leftovers, length, extent>>,
         \A s \in Spool : HasFile(s)' <=> HasFile(s),
         \A s \in Spool : HasFile(s) => id'[s] = id[s]
  PROVE  PartsHaveOneOwner' /\ ExtentCoversFile'
<1>1. {id'[s] : s \in {t \in Spool : HasFile(t)'}} = {id[s] : s \in {t \in Spool : HasFile(t)}}
  OBVIOUS
<1> QED
  BY <1>1 DEF PartsHaveOneOwner, ExtentCoversFile

\* What Forget leaves of a typed handle is typed.
LEMMA ForgetKeepsTypes ==
  ASSUME TypeOK, TriesBounded, NEW s \in Spool, Forget(s)
  PROVE  /\ state' \in [Spool -> {"none", "named", "retry", "exhausted", "open", "sync", "rename"}]
         /\ id' \in [Spool -> 0..MaxId]
         /\ tries' \in [Spool -> 0..Tries]
         /\ position' \in [Spool -> 0..Larger(MaxSeek, Limit)]
         /\ extent' \in [Spool -> 0..Limit]
         /\ target' \in [Spool -> Dest \cup {NoFile}]
         /\ TriesBounded'
         /\ \A t \in Spool : t # s => state'[t] = state[t] /\ id'[t] = id[t] /\ extent'[t] = extent[t]
         /\ state'[s] = "none"
<1> USE SpoolAssumption DEF Forget
<1>1. 0 \in 0..MaxId /\ 0 \in 0..Tries /\ 0 \in 0..Limit /\ 0 \in 0..Larger(MaxSeek, Limit)
  BY DEF Larger, TypeOK
<1>2. /\ id' \in [Spool -> 0..MaxId] /\ tries' \in [Spool -> 0..Tries]
      /\ position' \in [Spool -> 0..Larger(MaxSeek, Limit)]
      /\ extent' \in [Spool -> 0..Limit] /\ target' \in [Spool -> Dest \cup {NoFile}]
  BY <1>1 DEF TypeOK
<1>3. state' \in [Spool -> {"none", "named", "retry", "exhausted", "open", "sync", "rename"}]
  BY DEF TypeOK
<1>4. /\ \A t \in Spool : t # s => /\ state'[t] = state[t] /\ id'[t] = id[t]
                                 /\ extent'[t] = extent[t] /\ tries'[t] = tries[t]
      /\ state'[s] = "none" /\ tries'[s] = 0
  BY DEF TypeOK
<1>5. TriesBounded'
  BY <1>4 DEF TriesBounded
<1> QED
  BY <1>2, <1>3, <1>4, <1>5

\* A spool without a file is forgotten and its going disturbs nobody.
LEMMA ForgetWithoutFile ==
  ASSUME IInv, NEW s \in Spool, ~HasFile(s), Forget(s),
         UNCHANGED <<nextId, files, leftovers, crashes>>
  PROVE  IInv'
<1> USE DEF IInv
<1>1. TypeOK' /\ TriesBounded'
  BY ForgetKeepsTypes DEF TypeOK, files
<1>2. \A t \in Spool : HasFile(t)' <=> HasFile(t)
  BY ForgetKeepsTypes DEF HasFile
<1>3. \A t \in Spool : HasFile(t) => id'[t] = id[t] /\ extent'[t] = extent[t]
  BY ForgetKeepsTypes
<1>4. {id'[t] : t \in {u \in Spool : HasFile(u)'}} = {id[t] : t \in {u \in Spool : HasFile(u)}}
  BY <1>2, <1>3
<1>5. PartsHaveOneOwner'
  BY <1>2, <1>3, <1>4 DEF PartsHaveOneOwner, files
<1>6. ExtentCoversFile'
  BY <1>2, <1>3 DEF ExtentCoversFile, files
<1> QED
  BY <1>1, <1>5, <1>6

\* The handle of a spool goes, and its file goes or is left over.
LEMMA FileGoes ==
  ASSUME IInv, NEW s \in Spool, HasFile(s), Forget(s), UNCHANGED <<length, crashes, nextId>>,
         dest' \in [Dest -> Spool \cup {NoFile}],
         \/ parts' = parts \ {id[s]} /\ leftovers' = leftovers
         \/ parts' = parts /\ leftovers' = leftovers \cup {id[s]}
  PROVE  IInv'
<1> USE DEF IInv
<1>1. TypeOK' /\ TriesBounded'
  BY ZenonT(40), ForgetKeepsTypes DEF TypeOK
<1>2. \A t \in Spool : HasFile(t)' <=> HasFile(t) /\ t # s
  BY ForgetKeepsTypes DEF HasFile
<1>3. \A t \in Spool : t # s => id'[t] = id[t] /\ extent'[t] = extent[t]
  BY ForgetKeepsTypes
<1>4. \A t \in Spool : HasFile(t) /\ t # s => id[t] # id[s]
  BY DEF PartsHaveOneOwner
<1>5. id[s] \in parts /\ id[s] \notin leftovers
  BY DEF PartsHaveOneOwner
<1>6. {id[t] : t \in {u \in Spool : HasFile(u)}}
        = {id'[t] : t \in {u \in Spool : HasFile(u)'}} \cup {id[s]}
  BY <1>2, <1>3
<1>7. id[s] \notin {id'[t] : t \in {u \in Spool : HasFile(u)'}}
  BY <1>2, <1>3, <1>4
<1>8. parts' = {id'[t] : t \in {u \in Spool : HasFile(u)'}} \cup leftovers'
  BY <1>5, <1>6, <1>7 DEF PartsHaveOneOwner
<1>9. PartsHaveOneOwner'
  BY <1>2, <1>3, <1>4, <1>8 DEF PartsHaveOneOwner
<1>10. ExtentCoversFile'
  BY <1>2, <1>3 DEF ExtentCoversFile
<1> QED
  BY <1>1, <1>9, <1>10

LEMMA DropKeeps ==
  ASSUME IInv, NEW s \in Spool, HasFile(s), DropUncommitted(s)
  PROVE  IInv'
<1>1. dest' \in [Dest -> Spool \cup {NoFile}]
  BY DEF DropUncommitted, IInv, TypeOK
<1> QED
  BY <1>1, FileGoes DEF DropUncommitted

LEMMA RenameKeeps ==
  ASSUME IInv, NEW s \in Spool, Rename(s)
  PROVE  IInv'
<1>1. HasFile(s)
  BY DEF Rename, HasFile
<1>2. dest' \in [Dest -> Spool \cup {NoFile}]
  BY DEF Rename, IInv, TypeOK
<1> QED
  BY <1>1, <1>2, FileGoes DEF Rename

\* create_new refuses a name that exists, so the new file is nobody else's.
LEMMA OpenNewKeeps ==
  ASSUME IInv, NEW s \in Spool, OpenNew(s)
  PROVE  IInv'
<1> USE DEF IInv, OpenNew, handle
<1>1. TypeOK' /\ TriesBounded'
  BY SpoolAssumption DEF TypeOK, TriesBounded
<1>2. \A t \in Spool : HasFile(t)' <=> HasFile(t) \/ t = s
  BY DEF HasFile, TypeOK
<1>3. ~HasFile(s) /\ id' = id
  BY DEF HasFile
<1>4. {id'[t] : t \in {u \in Spool : HasFile(u)'}}
        = {id[t] : t \in {u \in Spool : HasFile(u)}} \cup {id[s]}
  BY <1>2, <1>3
<1>5. \A t \in Spool : HasFile(t) => id[t] \in parts /\ id[t] # id[s]
  BY DEF PartsHaveOneOwner
<1>6. id[s] \notin leftovers
  BY DEF PartsHaveOneOwner
<1>7. parts' = {id'[t] : t \in {u \in Spool : HasFile(u)'}} \cup leftovers'
  BY <1>4 DEF PartsHaveOneOwner
<1>8. PartsHaveOneOwner'
  BY <1>2, <1>3, <1>5, <1>6, <1>7 DEF PartsHaveOneOwner
<1>9. \A t \in Spool : HasFile(t) => length'[id[t]] = length[id[t]]
  BY <1>5 DEF TypeOK
<1>10. length'[id[s]] = 0 /\ extent[s] \in 0..Limit
  BY DEF TypeOK
<1>11. ExtentCoversFile'
  BY <1>2, <1>3, <1>9, <1>10, SpoolAssumption DEF ExtentCoversFile
<1> QED
  BY <1>1, <1>8, <1>11

\* A write ends at or below the limit, and touches no file but its own.
LEMMA WriteKeeps ==
  ASSUME IInv, NEW s \in Spool, NEW n \in 0..Limit, NEW written \in 0..Limit,
         Write(s, n, written)
  PROVE  IInv'
<1> USE DEF IInv
<1> DEFINE end == position[s] + written
<1>1. /\ end \in 0..Limit
      /\ extent' = [extent EXCEPT ![s] = Larger(extent[s], end)]
      /\ position' = [position EXCEPT ![s] = end]
      /\ length' = length \/ length' = [length EXCEPT ![id[s]] = Larger(length[id[s]], end)]
      /\ UNCHANGED <<nextId, state, id, tries, target, parts, dest, leftovers, crashes>>
      /\ state[s] = "open"
  <2>1. position[s] \in Nat
    <3>1. Larger(MaxSeek, Limit) \in Nat
      BY SpoolAssumption DEF Larger
    <3> QED
      BY <3>1 DEF TypeOK
  <2> QED
    BY <2>1, SpoolAssumption DEF Write
<1>2. extent[s] \in 0..Limit /\ length[id[s]] \in Nat
  BY DEF TypeOK
<1>3. Larger(extent[s], end) \in 0..Limit /\ Larger(length[id[s]], end) \in Nat
  BY <1>1, <1>2 DEF Larger
<1>4. end \in 0..Larger(MaxSeek, Limit)
  BY <1>1, SpoolAssumption DEF Larger
<1>5. TypeOK'
  BY <1>1, <1>3, <1>4 DEF TypeOK
<1>6. TriesBounded' /\ PartsHaveOneOwner'
  BY <1>1 DEF TriesBounded, PartsHaveOneOwner, HasFile
<1>7. ExtentCoversFile'
  <2> SUFFICES ASSUME NEW t \in Spool, HasFile(t)
               PROVE  length'[id[t]] <= extent'[t] /\ extent'[t] <= Limit
    BY <1>1 DEF ExtentCoversFile, HasFile
  <2>1. length[id[t]] <= extent[t] /\ extent[t] <= Limit
    BY DEF ExtentCoversFile
  <2>2. CASE t = s
    <3>1. extent'[s] = Larger(extent[s], end)
      BY <1>1 DEF TypeOK
    <3>2. length'[id[s]] = length[id[s]] \/ length'[id[s]] = Larger(length[id[s]], end)
      BY <1>1 DEF TypeOK
    <3> QED
      BY <1>1, <1>2, <2>1, <2>2, <3>1, <3>2, SpoolAssumption DEF Larger
  <2>3. CASE t # s
    <3>1. id[t] # id[s]
      BY <1>1, <2>3 DEF PartsHaveOneOwner, HasFile
    <3>2. extent'[t] = extent[t] /\ length'[id[t]] = length[id[t]]
      BY <1>1, <2>3, <3>1 DEF TypeOK
    <3> QED
      BY <2>1, <3>2
  <2> QED
    BY <2>2, <2>3
<1> QED
  BY <1>5, <1>6, <1>7

\* Steps that move a spool between states on the same side of HasFile.
LEMMA DrawIdKeeps ==
  ASSUME IInv, NEW s \in Spool, DrawId(s)
  PROVE  IInv'
<1> USE DEF IInv, DrawId, files
<1>1. tries[s] < Tries
  BY SpoolAssumption DEF TriesBounded
<1>2. TypeOK'
  <2>1. nextId \in 0..MaxId /\ nextId + 1 \in 0..MaxId
    BY SpoolAssumption DEF TypeOK
  <2>2. tries[s] + 1 \in 0..Tries
    BY <1>1, SpoolAssumption DEF TypeOK
  <2> QED
    BY <2>1, <2>2 DEF TypeOK
<1>3. TriesBounded'
  BY DEF TypeOK, TriesBounded
<1>4. \A t \in Spool : HasFile(t)' <=> HasFile(t)
  BY DEF HasFile, TypeOK
<1>5. \A t \in Spool : HasFile(t) => id'[t] = id[t]
  BY DEF HasFile, TypeOK
<1> QED
  BY <1>2, <1>3, <1>4, <1>5, OwnersStay

LEMMA NameTakenKeeps ==
  ASSUME IInv, NEW s \in Spool, NameTaken(s)
  PROVE  IInv'
<1> USE DEF IInv, NameTaken, files, handle
<1>1. TypeOK' /\ TriesBounded'
  BY DEF TypeOK, TriesBounded
<1>2. \A t \in Spool : HasFile(t)' <=> HasFile(t)
  BY DEF HasFile, TypeOK
<1> QED
  BY <1>1, <1>2, OwnersStay

LEMMA SeekKeeps ==
  ASSUME IInv, NEW s \in Spool, NEW p \in 0..MaxSeek, Seek(s, p)
  PROVE  IInv'
<1> USE DEF IInv, Seek, files
<1>1. p \in 0..Larger(MaxSeek, Limit)
  BY SpoolAssumption DEF Larger
<1>2. TypeOK' /\ TriesBounded'
  BY <1>1 DEF TypeOK, TriesBounded
<1>3. \A t \in Spool : HasFile(t)' <=> HasFile(t)
  BY DEF HasFile
<1> QED
  BY <1>2, <1>3, OwnersStay

LEMMA CommitStepKeeps ==
  ASSUME IInv, NEW s \in Spool, Sync(s) \/ \E d \in Dest : DestinationFree(s, d)
  PROVE  IInv'
<1> USE DEF IInv, Sync, DestinationFree, files, handle
<1>1. TypeOK' /\ TriesBounded'
  BY ZenonT(40) DEF TypeOK, TriesBounded
<1>2. \A t \in Spool : HasFile(t)' <=> HasFile(t)
  BY DEF HasFile, TypeOK
<1> QED
  BY <1>1, <1>2, OwnersStay

\* After a crash nobody owns a file, and every file is left over.
LEMMA CrashKeeps ==
  ASSUME IInv, Crash
  PROVE  IInv'
<1> USE DEF IInv, Crash, files
<1>1. TypeOK' /\ TriesBounded'
  BY SpoolAssumption DEF TypeOK, TriesBounded, Larger
<1>2. \A s \in Spool : ~HasFile(s)'
  BY DEF HasFile
<1> QED
  BY <1>1, <1>2 DEF PartsHaveOneOwner, ExtentCoversFile

-----------------------------------------------------------------------------
\* Every step keeps the invariant.
LEMMA NextKeeps ==
  ASSUME IInv, [Next]_vars
  PROVE  IInv'
<1>1. CASE Crash
  BY <1>1, CrashKeeps
<1>2. CASE UNCHANGED vars
  BY <1>2 DEF vars, handle, files, IInv, TypeOK, TriesBounded, PartsHaveOneOwner,
              ExtentCoversFile, HasFile
<1>3. ASSUME NEW s \in Spool, SpoolStep(s) PROVE IInv'
  <2>1. CASE DrawId(s)
    BY <2>1, DrawIdKeeps
  <2>2. CASE OpenNew(s)
    BY <2>2, OpenNewKeeps
  <2>3. CASE NameTaken(s)
    BY <2>3, NameTakenKeeps
  <2>4. CASE OpenFails(s)
    BY <2>4, ForgetWithoutFile DEF OpenFails, HasFile
  <2>5. CASE GiveUp(s)
    BY <2>5, ForgetWithoutFile DEF GiveUp, HasFile
  <2>6. CASE \E n \in 0..Limit, written \in 0..Limit : Write(s, n, written)
    BY <2>6, WriteKeeps
  <2>7. CASE \E p \in 0..MaxSeek : Seek(s, p)
    BY <2>7, SeekKeeps
  <2>8. CASE Sync(s) \/ \E d \in Dest : DestinationFree(s, d)
    BY <2>8, CommitStepKeeps
  <2>9. CASE \E d \in Dest : DestinationExists(s, d)
    BY <2>9, DropKeeps DEF DestinationExists, HasFile
  <2>10. CASE Rename(s)
    BY <2>10, RenameKeeps
  <2>11. CASE CommitFails(s) \/ DropOpen(s)
    BY <2>11, DropKeeps DEF CommitFails, DropOpen, HasFile
  <2> QED
    BY <1>3, <2>1, <2>2, <2>3, <2>4, <2>5, <2>6, <2>7, <2>8, <2>9, <2>10, <2>11 DEF SpoolStep
<1> QED
  BY <1>1, <1>2, <1>3 DEF Next

THEOREM Invariance == Spec => []IInv
<1>1. Init => IInv
  BY InitEstablishes
<1>2. IInv /\ [Next]_vars => IInv'
  BY NextKeeps
<1> QED
  BY <1>1, <1>2, PTL DEF Spec

\* Every variable keeps its range; no create tries more names than it may.
THEOREM SpoolTypeCorrect == Spec => []TypeOK
<1>1. IInv => TypeOK
  BY DEF IInv
<1> QED
  BY <1>1, Invariance, PTL

\* Exclusive creation is enough: although ids start again after a crash, no
\* spool ever owns the file of another or one that was left over, and every
\* path out of a spool accounts for its file.
THEOREM OwnershipIsExclusive == Spec => []PartsHaveOneOwner
<1>1. IInv => PartsHaveOneOwner
  BY DEF IInv
<1> QED
  BY <1>1, Invariance, PTL

\* No mix of writes, short writes and seeks takes a file beyond its extent, or
\* its extent beyond the limit.
THEOREM DiskBudgetHolds == Spec => []ExtentCoversFile
<1>1. IInv => ExtentCoversFile
  BY DEF IInv
<1> QED
  BY <1>1, Invariance, PTL

-----------------------------------------------------------------------------
(* create gives up only for left-over names *)

Below(names, i) == {j \in names : j < i}

\* The spools of one process have drawn different ids, each later than the ones
\* before, and every name that was taken is a left-over file's.
TriedNamesAreLittered ==
    /\ \A s \in Spool : state[s] # "none" => id[s] < nextId
    /\ \A s, t \in Spool : s # t /\ state[s] # "none" /\ state[t] # "none" => id[s] # id[t]
    /\ \A s \in Spool : state[s] = "named" => tries[s] <= Cardinality(Below(leftovers, id[s])) + 1
    /\ \A s \in Spool : state[s] \in {"retry", "exhausted"} =>
          tries[s] <= Cardinality(Below(leftovers, id[s] + 1))
    /\ \A s \in Spool : state[s] = "exhausted" => tries[s] >= Tries

LEMMA BelowGrows ==
  ASSUME NEW names \in SUBSET (0..MaxId), NEW i \in Nat,
         NEW fewer \in SUBSET names, NEW j \in Nat, j <= i
  PROVE  /\ Below(fewer, j) \in SUBSET Below(names, i)
         /\ IsFiniteSet(Below(names, i)) /\ Cardinality(Below(names, i)) \in Nat
         /\ Cardinality(Below(fewer, j)) \in Nat
         /\ Cardinality(Below(fewer, j)) <= Cardinality(Below(names, i))
<1>1. IsFiniteSet(0..MaxId)
  BY SpoolAssumption, FS_Interval
<1>2. IsFiniteSet(Below(names, i))
  <2>1. Below(names, i) \in SUBSET (0..MaxId)
    BY DEF Below
  <2> QED
    BY <1>1, <2>1, FS_Subset
<1>3. Below(fewer, j) \in SUBSET Below(names, i)
  <2> SUFFICES ASSUME NEW k \in Below(fewer, j) PROVE k \in Below(names, i)
    OBVIOUS
  <2>1. k \in names /\ k < j /\ k \in Int
    BY SpoolAssumption DEF Below
  <2> QED
    BY <2>1 DEF Below
<1> QED
  BY <1>2, <1>3, FS_Subset, FS_CardinalityType

LEMMA BelowIsFinite ==
  ASSUME NEW names \in SUBSET (0..MaxId), NEW i \in Nat
  PROVE  IsFiniteSet(Below(names, i)) /\ Cardinality(Below(names, i)) \in Nat
<1>1. names \in SUBSET names /\ i <= i
  OBVIOUS
<1> QED
  BY <1>1, BelowGrows

LEMMA NamesTyped ==
  ASSUME IInv
  PROVE  /\ nextId \in Nat /\ leftovers \in SUBSET (0..MaxId) /\ Tries \in Nat
         /\ \A t \in Spool : id[t] \in Nat /\ id[t] + 1 \in Nat /\ tries[t] \in Nat
<1>1. MaxId \in Nat /\ Tries \in Nat
  BY SpoolAssumption
<1>2. nextId \in 0..MaxId /\ leftovers \in SUBSET (0..MaxId) /\ id \in [Spool -> 0..MaxId]
      /\ tries \in [Spool -> 0..Tries]
  BY DEF IInv, TypeOK
<1> QED
  BY <1>1, <1>2

\* A step of one spool that tries no name: what is left over only grows.
LEMMA NamesStay ==
  ASSUME IInv, IInv', TriedNamesAreLittered, NEW s \in Spool,
         \A t \in Spool : t # s => state'[t] = state[t] /\ id'[t] = id[t] /\ tries'[t] = tries[t],
         \/ state'[s] = "none"
         \/ state'[s] \in {"open", "sync", "rename"} /\ state[s] # "none" /\ id'[s] = id[s]
         \/ state'[s] = state[s] /\ id'[s] = id[s] /\ tries'[s] = tries[s],
         nextId' = nextId, leftovers \subseteq leftovers'
  PROVE  TriedNamesAreLittered'
<1>1. leftovers' \in SUBSET (0..MaxId) /\ leftovers \in SUBSET leftovers'
  BY DEF IInv, TypeOK
<1>2. \A i \in Nat : /\ Cardinality(Below(leftovers, i)) \in Nat
                     /\ Cardinality(Below(leftovers', i)) \in Nat
                     /\ Cardinality(Below(leftovers, i)) <= Cardinality(Below(leftovers', i))
  <2> SUFFICES ASSUME NEW i \in Nat
               PROVE  /\ Cardinality(Below(leftovers, i)) \in Nat
                      /\ Cardinality(Below(leftovers', i)) \in Nat
                      /\ Cardinality(Below(leftovers, i)) <= Cardinality(Below(leftovers', i))
    OBVIOUS
  <2>1. i <= i
    OBVIOUS
  <2> QED
    BY <1>1, <2>1, BelowGrows
<1>3. \A t \in Spool : tries[t] \in Nat /\ id[t] \in Nat /\ id[t] + 1 \in Nat
  BY NamesTyped
<1>4. \A t \in Spool : state'[t] \in {"named", "retry", "exhausted"} =>
         state'[t] = state[t] /\ id'[t] = id[t] /\ tries'[t] = tries[t]
  OBVIOUS
<1>5. \A t \in Spool : state'[t] = "named" => tries'[t] <= Cardinality(Below(leftovers', id'[t])) + 1
  <2> SUFFICES ASSUME NEW t \in Spool, state'[t] = "named"
               PROVE  tries'[t] <= Cardinality(Below(leftovers', id'[t])) + 1
    OBVIOUS
  <2>1. tries[t] <= Cardinality(Below(leftovers, id[t])) + 1 /\ id'[t] = id[t] /\ tries'[t] = tries[t]
    BY <1>4 DEF TriedNamesAreLittered
  <2>2. /\ Cardinality(Below(leftovers, id[t])) \in Nat /\ Cardinality(Below(leftovers', id[t])) \in Nat
        /\ Cardinality(Below(leftovers, id[t])) <= Cardinality(Below(leftovers', id[t]))
    BY <1>2, <1>3
  <2>3. tries[t] <= Cardinality(Below(leftovers', id[t])) + 1
    BY <1>3, <2>1, <2>2
  <2> QED
    BY <2>1, <2>3
<1>6. \A t \in Spool : state'[t] \in {"retry", "exhausted"} =>
         tries'[t] <= Cardinality(Below(leftovers', id'[t] + 1))
  <2> SUFFICES ASSUME NEW t \in Spool, state'[t] \in {"retry", "exhausted"}
               PROVE  tries'[t] <= Cardinality(Below(leftovers', id'[t] + 1))
    OBVIOUS
  <2>1. tries[t] <= Cardinality(Below(leftovers, id[t] + 1)) /\ id'[t] = id[t] /\ tries'[t] = tries[t]
    BY <1>4 DEF TriedNamesAreLittered
  <2>2. /\ Cardinality(Below(leftovers, id[t] + 1)) \in Nat /\ Cardinality(Below(leftovers', id[t] + 1)) \in Nat
        /\ Cardinality(Below(leftovers, id[t] + 1)) <= Cardinality(Below(leftovers', id[t] + 1))
    BY <1>2, <1>3
  <2>3. tries[t] <= Cardinality(Below(leftovers', id[t] + 1))
    BY <1>3, <2>1, <2>2
  <2> QED
    BY <2>1, <2>3
<1>7. \A t \in Spool : state'[t] # "none" => state[t] # "none" /\ id'[t] = id[t]
  OBVIOUS
<1> QED
  BY <1>4, <1>5, <1>6, <1>7 DEF TriedNamesAreLittered

\* The next id is beyond every name that was tried.
LEMMA DrawIdKeepsNames ==
  ASSUME IInv, IInv', TriedNamesAreLittered, NEW s \in Spool, DrawId(s)
  PROVE  TriedNamesAreLittered'
<1>1. /\ state[s] \in {"none", "retry"} /\ nextId' = nextId + 1 /\ leftovers' = leftovers
      /\ id'[s] = nextId /\ tries'[s] = tries[s] + 1 /\ state'[s] = "named"
      /\ \A t \in Spool : t # s => state'[t] = state[t] /\ id'[t] = id[t] /\ tries'[t] = tries[t]
  BY DEF DrawId, IInv, TypeOK
<1>2. /\ nextId \in Nat /\ leftovers \in SUBSET (0..MaxId)
      /\ \A t \in Spool : id[t] \in Nat /\ id[t] + 1 \in Nat /\ tries[t] \in Nat
  BY NamesTyped
<1>3. tries[s] <= Cardinality(Below(leftovers, nextId)) /\ Cardinality(Below(leftovers, nextId)) \in Nat
  <2>1. Cardinality(Below(leftovers, nextId)) \in Nat
    BY <1>2, BelowIsFinite
  <2>2. CASE state[s] = "none"
    BY <2>1, <2>2 DEF IInv, TriesBounded
  <2>3. CASE state[s] = "retry"
    <3>1. tries[s] <= Cardinality(Below(leftovers, id[s] + 1)) /\ id[s] < nextId
      BY <2>3 DEF TriedNamesAreLittered
    <3>2. id[s] + 1 <= nextId
      BY <1>2, <3>1
    <3>3. /\ Cardinality(Below(leftovers, id[s] + 1)) <= Cardinality(Below(leftovers, nextId))
          /\ Cardinality(Below(leftovers, id[s] + 1)) \in Nat
      BY <1>2, <3>2, BelowGrows
    <3> QED
      BY <1>2, <2>1, <3>1, <3>3
  <2> QED
    BY <1>1, <2>2, <2>3
<1>5. \A t \in Spool : state'[t] = "named" => tries'[t] <= Cardinality(Below(leftovers', id'[t])) + 1
  <2> SUFFICES ASSUME NEW t \in Spool, state'[t] = "named"
               PROVE  tries'[t] <= Cardinality(Below(leftovers', id'[t])) + 1
    BY DEF Below
  <2>1. CASE t = s
    BY <1>1, <1>2, <1>3, <2>1
  <2>2. CASE t # s
    BY <1>1, <2>2 DEF TriedNamesAreLittered
  <2> QED
    BY <2>1, <2>2
<1>6. \A t \in Spool : state'[t] \in {"retry", "exhausted"} =>
         t # s /\ tries'[t] <= Cardinality(Below(leftovers', id'[t] + 1))
  BY <1>1 DEF TriedNamesAreLittered
<1>7. \A t \in Spool : state'[t] # "none" => id'[t] < nextId'
  BY <1>1, <1>2 DEF TriedNamesAreLittered
<1>8. \A t, u \in Spool : t # u /\ state'[t] # "none" /\ state'[u] # "none" => id'[t] # id'[u]
  BY <1>1, <1>2 DEF TriedNamesAreLittered
<1>9. \A t \in Spool : state'[t] = "exhausted" => tries'[t] >= Tries
  BY <1>1 DEF TriedNamesAreLittered
<1> QED
  BY <1>5, <1>6, <1>7, <1>8, <1>9 DEF TriedNamesAreLittered

LEMMA LeftSplits ==
  ASSUME NEW names \in SUBSET (0..MaxId), NEW i \in names
  PROVE  Below(names, i + 1) = Below(names, i) \cup {i} /\ i \notin Below(names, i) /\ i \in Nat
<1>1. \A k \in names : k \in Int
  BY SpoolAssumption
<1>2. \A k \in Int : k < i + 1 <=> k < i \/ k = i
  BY <1>1
<1>3. i \in Nat
  BY SpoolAssumption
<1>4. ASSUME NEW k PROVE k \in Below(names, i + 1) <=> k \in Below(names, i) \cup {i}
  BY <1>1, <1>2 DEF Below
<1>5. ~(i < i)
  BY <1>3
<1> QED
  BY <1>3, <1>4, <1>5 DEF Below

\* A taken name belongs to no spool of this process, so it is left over.
LEMMA NameTakenKeepsNames ==
  ASSUME IInv, IInv', TriedNamesAreLittered, NEW s \in Spool, NameTaken(s)
  PROVE  TriedNamesAreLittered'
<1>1. /\ state[s] = "named" /\ id[s] \in parts
      /\ state'[s] = IF tries[s] < Tries THEN "retry" ELSE "exhausted"
      /\ UNCHANGED <<nextId, id, tries, leftovers>>
      /\ \A t \in Spool : t # s => state'[t] = state[t]
  BY DEF NameTaken, handle, IInv, TypeOK
<1>2. /\ leftovers \in SUBSET (0..MaxId) /\ Tries \in Nat
      /\ \A t \in Spool : id[t] \in Nat /\ tries[t] \in Nat
  BY NamesTyped
<1>3. id[s] \in leftovers
  <2>1. id[s] \notin {id[t] : t \in {u \in Spool : HasFile(u)}}
    BY <1>1 DEF HasFile, TriedNamesAreLittered
  <2> QED
    BY <1>1, <2>1 DEF IInv, PartsHaveOneOwner
<1>4. tries[s] <= Cardinality(Below(leftovers, id[s] + 1))
  <2>1. Below(leftovers, id[s] + 1) = Below(leftovers, id[s]) \cup {id[s]} /\ id[s] \notin Below(leftovers, id[s])
    BY <1>2, <1>3, LeftSplits
  <2>2. Cardinality(Below(leftovers, id[s] + 1)) = Cardinality(Below(leftovers, id[s])) + 1
    BY <1>2, <2>1, BelowIsFinite, FS_AddElement
  <2> QED
    BY <1>1, <2>2 DEF TriedNamesAreLittered
<1>6. \A t \in Spool : state'[t] \in {"retry", "exhausted"} =>
         tries'[t] <= Cardinality(Below(leftovers', id'[t] + 1))
  <2> SUFFICES ASSUME NEW t \in Spool, state'[t] \in {"retry", "exhausted"}
               PROVE  tries[t] <= Cardinality(Below(leftovers, id[t] + 1))
    BY <1>1
  <2>1. CASE t = s
    BY <1>4, <2>1 DEF Below
  <2>2. CASE t # s
    BY <1>1, <2>2 DEF TriedNamesAreLittered
  <2> QED
    BY <2>1, <2>2
<1>7. \A t \in Spool : state'[t] = "named" =>
         tries'[t] <= Cardinality(Below(leftovers', id'[t])) + 1
  BY <1>1 DEF TriedNamesAreLittered
<1>8. \A t \in Spool : state'[t] = "exhausted" => tries'[t] >= Tries
  BY <1>1, <1>2 DEF TriedNamesAreLittered
<1>9. \A t \in Spool : state'[t] # "none" => state[t] # "none"
  BY <1>1
<1> QED
  BY <1>1, <1>6, <1>7, <1>8, <1>9 DEF TriedNamesAreLittered

LEMMA NextKeepsNames ==
  ASSUME IInv, IInv', TriedNamesAreLittered, [Next]_vars
  PROVE  TriedNamesAreLittered'
<1>1. CASE Crash
  BY <1>1 DEF Crash, TriedNamesAreLittered
<1>2. CASE UNCHANGED vars
  BY <1>2 DEF vars, handle, TriedNamesAreLittered
<1>3. ASSUME NEW s \in Spool, SpoolStep(s) PROVE TriedNamesAreLittered'
  <2> USE DEF handle, files, IInv, TypeOK
  <2>1. CASE DrawId(s)
    BY <2>1, DrawIdKeepsNames
  <2>2. CASE NameTaken(s)
    BY <2>2, NameTakenKeepsNames
  <2>3. CASE OpenNew(s) \/ Sync(s) \/ \E d \in Dest : DestinationFree(s, d)
    BY <2>3, NamesStay DEF OpenNew, Sync, DestinationFree
  <2>4. CASE \E n \in 0..Limit, written \in 0..Limit : Write(s, n, written)
    BY <2>4, NamesStay DEF Write
  <2>5. CASE \E p \in 0..MaxSeek : Seek(s, p)
    BY <2>5, NamesStay DEF Seek
  <2>6. CASE OpenFails(s) \/ GiveUp(s) \/ Rename(s)
    BY <2>6, NamesStay DEF OpenFails, GiveUp, Rename, Forget
  <2>7. CASE CommitFails(s) \/ DropOpen(s) \/ \E d \in Dest : DestinationExists(s, d)
    BY ZenonT(40), <2>7, NamesStay
       DEF CommitFails, DropOpen, DestinationExists, DropUncommitted, Forget
  <2> QED
    BY <1>3, <2>1, <2>2, <2>3, <2>4, <2>5, <2>6, <2>7 DEF SpoolStep
<1> QED
  BY <1>1, <1>2, <1>3 DEF Next

\* create fails with "exhausted" only when as many files were left over as it
\* tries names: however many spools are live, they never make it fail.
THEOREM LiveSpoolsNeverExhaustNames == Spec => []GivesUpOnlyWhenLittered
<1>1. Init => TriedNamesAreLittered
  BY DEF Init, TriedNamesAreLittered
<1>2. IInv /\ IInv' /\ TriedNamesAreLittered /\ [Next]_vars => TriedNamesAreLittered'
  BY NextKeepsNames
<1>3. IInv /\ TriedNamesAreLittered => GivesUpOnlyWhenLittered
  <2> SUFFICES ASSUME IInv, TriedNamesAreLittered, NEW s \in Spool, state[s] = "exhausted"
               PROVE  Cardinality(leftovers) >= Tries
    BY DEF GivesUpOnlyWhenLittered
  <2>1. tries[s] >= Tries /\ tries[s] <= Cardinality(Below(leftovers, id[s] + 1))
    BY DEF TriedNamesAreLittered
  <2>2. Below(leftovers, id[s] + 1) \in SUBSET leftovers /\ IsFiniteSet(leftovers)
    <3>1. leftovers \in SUBSET (0..MaxId) /\ IsFiniteSet(0..MaxId)
      BY SpoolAssumption, NamesTyped, FS_Interval
    <3> QED
      BY <3>1, FS_Subset DEF Below
  <2>3. /\ Cardinality(Below(leftovers, id[s] + 1)) <= Cardinality(leftovers)
        /\ Cardinality(Below(leftovers, id[s] + 1)) \in Nat /\ Cardinality(leftovers) \in Nat
    BY <2>2, FS_Subset, FS_CardinalityType
  <2>4. tries[s] \in Nat
    BY SpoolAssumption DEF IInv, TypeOK
  <2> QED
    BY <2>1, <2>3, <2>4, SpoolAssumption
<1> QED
  BY <1>1, <1>2, <1>3, Invariance, PTL DEF Spec

-----------------------------------------------------------------------------
(* What no step does to a file *)

\* What an earlier process or a failed removal left stays as it is; a file that
\* goes, goes with the spool that owns it, which removes it or has become the
\* file at its destination; only the spool that has a file open changes it; and
\* what appears at a destination was a spool's whole .part file.
FilesFollowTheirOwners ==
    /\ \A i \in leftovers : i \in parts' /\ i \in leftovers' /\ length'[i] = length[i]
    /\ \A i \in parts \ parts' : \E s \in Spool :
          /\ HasFile(s) /\ id[s] = i /\ state'[s] = "none"
          /\ dest' = dest \/ (state[s] = "rename" /\ dest' = [dest EXCEPT ![target[s]] = s])
    /\ \A i \in parts : length'[i] # length[i] =>
          \E s \in Spool : state[s] = "open" /\ id[s] = i /\ extent'[s] = Larger(extent[s], position'[s])
    /\ \A d \in Dest : dest'[d] # dest[d] =>
          \E s \in Spool : state[s] = "rename" /\ target[s] = d /\ dest'[d] = s /\ id[s] \in parts \ parts'

\* A step that leaves the files alone.
LEMMA FilesUntouched ==
  ASSUME IInv, UNCHANGED files, leftovers' \in {leftovers, parts}
  PROVE  FilesFollowTheirOwners
BY DEF FilesFollowTheirOwners, files, IInv, PartsHaveOneOwner

\* A spool drops its own file, which is nobody's left-over.
LEMMA DropFollows ==
  ASSUME IInv, NEW s \in Spool, HasFile(s), DropUncommitted(s)
  PROVE  FilesFollowTheirOwners
<1>1. id[s] \in parts /\ id[s] \notin leftovers /\ leftovers \in SUBSET parts
  BY DEF IInv, PartsHaveOneOwner
<1>2. /\ \/ parts' = parts \ {id[s]} /\ leftovers' = leftovers
         \/ parts' = parts /\ leftovers' = leftovers \cup {id[s]}
      /\ length' = length /\ dest' = dest
  BY DEF DropUncommitted
<1>3. state'[s] = "none"
  BY DEF DropUncommitted, Forget, IInv, TypeOK
<1> QED
  BY <1>1, <1>2, <1>3 DEF FilesFollowTheirOwners

\* The .part file becomes the file at the destination; it is still there.
LEMMA RenameFollows ==
  ASSUME IInv, NEW s \in Spool, Rename(s)
  PROVE  FilesFollowTheirOwners
<1>1. state[s] = "rename" /\ HasFile(s)
  BY DEF Rename, HasFile
<1>2. id[s] \in parts /\ id[s] \notin leftovers /\ leftovers \in SUBSET parts
  BY <1>1 DEF IInv, PartsHaveOneOwner
<1>3. /\ parts' = parts \ {id[s]} /\ leftovers' = leftovers /\ length' = length
      /\ dest' = [dest EXCEPT ![target[s]] = s]
  BY DEF Rename
<1>4. state'[s] = "none"
  BY DEF Rename, Forget, IInv, TypeOK
<1>5. \A d \in Dest : dest'[d] # dest[d] => target[s] = d /\ dest'[d] = s
  BY <1>3 DEF IInv, TypeOK
<1> QED
  BY <1>1, <1>2, <1>3, <1>4, <1>5 DEF FilesFollowTheirOwners

\* A new file takes a name that no file had.
LEMMA OpenNewFollows ==
  ASSUME IInv, NEW s \in Spool, OpenNew(s)
  PROVE  FilesFollowTheirOwners
<1>1. id[s] \notin parts /\ leftovers \in SUBSET parts
  BY DEF OpenNew, IInv, PartsHaveOneOwner
<1>2. parts' = parts \cup {id[s]} /\ leftovers' = leftovers /\ dest' = dest
  BY DEF OpenNew
<1>3. \A i \in parts : length'[i] = length[i]
  BY <1>1 DEF OpenNew, IInv, TypeOK
<1> QED
  BY <1>1, <1>2, <1>3 DEF FilesFollowTheirOwners

\* A write changes the length of the file of an open spool alone.
LEMMA WriteFollows ==
  ASSUME IInv, NEW s \in Spool, NEW n \in 0..Limit, NEW written \in 0..Limit, Write(s, n, written)
  PROVE  FilesFollowTheirOwners
<1>1. state[s] = "open" /\ HasFile(s)
  BY DEF Write, HasFile
<1>2. id[s] \notin leftovers /\ leftovers \in SUBSET parts
  BY <1>1 DEF IInv, PartsHaveOneOwner
<1>3. parts' = parts /\ leftovers' = leftovers /\ dest' = dest
  BY DEF Write
<1>4. \A i \in parts : length'[i] # length[i] => i = id[s]
  BY DEF Write, IInv, TypeOK
<1>5. extent'[s] = Larger(extent[s], position'[s])
  BY DEF Write, IInv, TypeOK
<1> QED
  BY <1>1, <1>2, <1>3, <1>4, <1>5 DEF FilesFollowTheirOwners

\* No spool, in whatever order creations, writes, commits, failed removals and
\* crashes come, changes or removes the file of another or of an earlier process.
THEOREM FilesAreTheirOwners == Spec => [][FilesFollowTheirOwners]_vars
<1>1. IInv /\ [Next]_vars => [FilesFollowTheirOwners]_vars
  <2> SUFFICES ASSUME IInv, Next
               PROVE  FilesFollowTheirOwners
    OBVIOUS
  <2>1. CASE Crash
    BY <2>1, FilesUntouched DEF Crash
  <2>2. ASSUME NEW s \in Spool, SpoolStep(s)
        PROVE  FilesFollowTheirOwners
    <3>1. CASE \/ DrawId(s) \/ NameTaken(s) \/ OpenFails(s) \/ GiveUp(s) \/ Sync(s)
               \/ (\E p \in 0..MaxSeek : Seek(s, p))
               \/ (\E d \in Dest : DestinationFree(s, d))
      BY <3>1, FilesUntouched
         DEF DrawId, NameTaken, OpenFails, GiveUp, Sync, Seek, DestinationFree
    <3>2. CASE OpenNew(s)
      BY <3>2, OpenNewFollows
    <3>3. CASE \E n \in 0..Limit, written \in 0..Limit : Write(s, n, written)
      BY <3>3, WriteFollows
    <3>4. CASE CommitFails(s) \/ DropOpen(s) \/ \E d \in Dest : DestinationExists(s, d)
      BY <3>4, DropFollows DEF CommitFails, DropOpen, DestinationExists, HasFile
    <3>5. CASE Rename(s)
      BY <3>5, RenameFollows
    <3> QED
      BY <2>2, <3>1, <3>2, <3>3, <3>4, <3>5 DEF SpoolStep
  <2> QED
    BY <2>1, <2>2 DEF Next
<1> QED
  BY <1>1, Invariance, PTL DEF Spec
=============================================================================

------------------------- MODULE PrefetchSourceProofs -------------------------
(***************************************************************************)
(* Proofs about PrefetchSource for every capacity, chunk size and budget,  *)
(* any number of records and any source, honest or not: every byte is      *)
(* accounted for, the budget that is demanded is enough, the consumer      *)
(* receives a prefix of the stream (the whole is a RecordStream), nobody   *)
(* waits in vain, and a drop releases everything.                          *)
(***************************************************************************)
EXTENDS PrefetchSource, ByteSumProofs

\* The identity that follows chunk m.
After(m) == Advance(m.identity, m.points)

\* An honest source goes on at a; a faulty one numbers a later chunk b.
Follows(a, b) == b = a \/ b.sequence > a.sequence

Pending == worker = "send" /\ message.kind = "item"

\* Where the chunk after the queued ones belongs.
Tip == IF queue = <<>> THEN expected ELSE After(queue[Len(queue)])

\* The worker holds a full reservation, a chunk or nothing, and works only on a
\* budget that was accepted.
WorkerHolds ==
    /\ worker \in {"check", "pull", "gone"} => lease = 0
    /\ worker = "read" => lease = MaxChunk
    /\ worker = "send" => lease = Leased(message)
    /\ worker # "gone" => Accepted

\* An error or the end is the last message of a worker that has left.
FinalIsLast ==
    \A i \in DOMAIN queue : queue[i].kind # "item" => i = Len(queue) /\ worker = "gone"

\* Sequence numbers rise from what the consumer expects through the channel to
\* the chunk being sent and the next one of the source.
Numbered ==
    /\ \A i, j \in DOMAIN queue : i < j /\ queue[i].kind = "item" /\ queue[j].kind = "item" =>
          queue[i].identity.sequence < queue[j].identity.sequence
    /\ \A i \in DOMAIN queue : i > 1 /\ queue[i].kind = "item" =>
          Follows(After(queue[i - 1]), queue[i].identity)
    /\ queue # <<>> /\ queue[1].kind = "item" => Follows(expected, queue[1].identity)
    /\ Pending => Follows(Tip, message.identity) /\ source.next = After(message)
    /\ worker \in {"check", "pull", "read"} => Follows(Tip, source.next)

Broken == \E i \in DOMAIN answers : answers[i].kind # "item"

\* After an error or the end nothing that arrives is expected any more.
BrokenStaysBroken ==
    Broken =>
    /\ \A i \in DOMAIN queue : queue[i].kind = "item" =>
          queue[i].identity.sequence > expected.sequence
    /\ Pending => message.identity.sequence > expected.sequence
    /\ worker \in {"check", "pull", "read"} => source.next.sequence > expected.sequence

\* What has been answered so far leads up to what is expected.
AnswersLead ==
    ~Broken => expected = IF answers = <<>> THEN Start ELSE After(answers[Len(answers)])

NoError == \A i \in DOMAIN answers : answers[i].kind # "error"

\* While nothing was lost, every record is answered, queued or being sent.
RecordsCounted ==
    /\ consumer \in {"idle", "recv", "dropping"} /\ worker # "gone" => receiver
    /\ finished => consumer # "recv"
    /\ (\E i \in DOMAIN answers : answers[i].kind = "end") => finished
    /\ ~finished /\ NoError /\ consumer \in {"idle", "recv"} =>
          source.yielded = Len(answers) + Len(queue)
              + (IF Pending THEN 1 ELSE 0)
              - (IF \E i \in DOMAIN queue : queue[i].kind # "item" THEN 1 ELSE 0)
    /\ finished /\ NoError => worker = "gone"

\* The consumer's chunks are older than what is expected; a frugal consumer has
\* one, none while it waits, and was never refused memory.
HeldAreOld ==
    /\ IsFiniteSet(held)
    /\ \A c \in held : c.identity.sequence < expected.sequence
    /\ ~greedy => /\ \A c, d \in held : c = d
                  /\ consumer = "recv" => held = {}
                  /\ \A i \in DOMAIN queue : queue[i] # Error("budget")

IInv ==
    /\ TypeOK /\ LeasesAccounted
    /\ WorkerHolds /\ FinalIsLast /\ Numbered /\ BrokenStaysBroken
    /\ AnswersLead /\ RecordsCounted /\ HeldAreOld
    /\ EnoughForTheFrugal /\ StreamContract

-----------------------------------------------------------------------------
(* Messages and the bytes of a channel *)

LEMMA MessageFacts ==
  ASSUME NEW m \in Message
  PROVE  /\ m.kind \in {"item", "error", "end"}
         /\ m.kind = "item" => m \in Items
         /\ m.kind = "end" => m = End
         /\ Leased(m) \in 0..MaxChunk
         /\ m.kind # "item" => Leased(m) = 0
BY PrefetchAssumption DEF Message, Items, Errors, End, Leased

LEMMA ItemFacts ==
  ASSUME NEW m \in Items
  PROVE  /\ m \in Message /\ m.kind = "item" /\ Leased(m) = m.points
         /\ m.points \in 1..MaxChunk /\ m.identity \in Identity
         /\ After(m) \in Identity /\ After(m).sequence = m.identity.sequence + 1
BY PrefetchAssumption DEF Message, Items, Leased, After, Advance, Identity

LEMMA FollowsComposes ==
  ASSUME NEW a \in Identity, NEW b \in Identity, NEW c \in Identity, Follows(a, b), Follows(b, c)
  PROVE  Follows(a, c)
BY DEF Follows, Identity

BytesOf(q) == Sum([i \in DOMAIN q |-> Leased(q[i])], DOMAIN q)

LEMMA BytesAreBounded ==
  ASSUME NEW q \in Seq(Message)
  PROVE  /\ IsFiniteSet(DOMAIN q)
         /\ \A i \in DOMAIN q : [j \in DOMAIN q |-> Leased(q[j])][i] \in 0..MaxChunk
         /\ BytesOf(q) \in Nat
         /\ BytesOf(q) <= Len(q) * MaxChunk
<1> DEFINE bytes == [j \in DOMAIN q |-> Leased(q[j])]
<1>1. DOMAIN q = 1..Len(q) /\ Len(q) \in Nat
  OBVIOUS
<1>2. IsFiniteSet(1..Len(q)) /\ Cardinality(1..Len(q)) = Len(q)
  BY <1>1, FS_Interval
<1>3. \A i \in DOMAIN q : bytes[i] \in 0..MaxChunk
  BY MessageFacts
<1>4. MaxChunk \in Nat
  BY PrefetchAssumption
<1> HIDE DEF bytes
<1>5. Sum(bytes, DOMAIN q) \in Nat
  BY <1>1, <1>2, <1>3, <1>4, SumIsNat
<1>6. Sum(bytes, DOMAIN q) <= Len(q) * MaxChunk
  BY <1>1, <1>2, <1>3, <1>4, SumIsBounded
<1> QED
  BY <1>1, <1>2, <1>3, <1>5, <1>6 DEF bytes, BytesOf

LEMMA AppendBytes ==
  ASSUME NEW q \in Seq(Message), NEW m \in Message
  PROVE  BytesOf(Append(q, m)) = BytesOf(q) + Leased(m)
<1> DEFINE r == Append(q, m)
           n == Len(q) + 1
           f == [i \in DOMAIN q |-> Leased(q[i])]
           g == [i \in DOMAIN r |-> Leased(r[i])]
<1>1. /\ DOMAIN r = DOMAIN q \cup {n} /\ n \notin DOMAIN q /\ r \in Seq(Message)
      /\ g[n] = Leased(m) /\ \A i \in DOMAIN q : g[i] = f[i]
  OBVIOUS
<1>2. IsFiniteSet(DOMAIN q) /\ \A i \in DOMAIN q : f[i] \in Nat
  BY BytesAreBounded
<1>3. g[n] \in Nat /\ \A i \in DOMAIN q : g[i] \in Nat
  BY <1>1, <1>2, MessageFacts
<1> HIDE DEF f, g, n
<1>4. Sum(g, DOMAIN q \cup {n}) = Sum(g, DOMAIN q) + g[n]
  BY <1>1, <1>2, <1>3, SumAdds
<1>5. Sum(g, DOMAIN q) = Sum(f, DOMAIN q)
  BY <1>1, SumOfSame
<1> QED
  BY <1>1, <1>4, <1>5 DEF BytesOf, f, g

LEMMA TailBytes ==
  ASSUME NEW q \in Seq(Message), q # <<>>
  PROVE  BytesOf(q) = BytesOf(Tail(q)) + Leased(Head(q))
<1> DEFINE t == Tail(q)
           f == [i \in DOMAIN q |-> Leased(q[i])]
           g == [i \in DOMAIN t |-> Leased(t[i])]
           up == [i \in DOMAIN t |-> i + 1]
<1>1. /\ t \in Seq(Message) /\ 1 \in DOMAIN q /\ Head(q) = q[1]
      /\ DOMAIN q = 1..Len(q) /\ DOMAIN t = 1..(Len(q) - 1) /\ Len(q) \in Nat
      /\ \A i \in DOMAIN t : t[i] = q[i + 1]
  OBVIOUS
<1>2. up \in Bijection(DOMAIN t, DOMAIN q \ {1})
  <2>1. \A i \in DOMAIN t : up[i] = i + 1 /\ i + 1 \in DOMAIN q \ {1}
    BY <1>1
  <2>2. \A k \in DOMAIN q \ {1} : k - 1 \in DOMAIN t /\ up[k - 1] = k
    BY <1>1
  <2>3. \A i, j \in DOMAIN t : up[i] = up[j] => i = j
    BY <1>1, <2>1
  <2> QED
    BY <2>1, <2>2, <2>3 DEF Bijection, Injection, Surjection, IsInjective
<1>3. \A i \in DOMAIN t : g[i] \in Nat /\ f[up[i]] = g[i]
  <2>1. \A i \in DOMAIN t : t[i] \in Message /\ i + 1 \in DOMAIN q /\ up[i] = i + 1
    BY <1>1
  <2>2. \A i \in DOMAIN t : g[i] = Leased(t[i]) /\ f[i + 1] = Leased(q[i + 1])
    BY <2>1
  <2> HIDE DEF f, g, up, t
  <2> QED
    BY <1>1, <2>1, <2>2, MessageFacts
<1>4. IsFiniteSet(DOMAIN t) /\ IsFiniteSet(DOMAIN q) /\ \A i \in DOMAIN q : f[i] \in Nat
  <2>1. IsFiniteSet(DOMAIN t) /\ IsFiniteSet(DOMAIN q)
    BY <1>1, FS_Interval
  <2>2. \A i \in DOMAIN q : f[i] = Leased(q[i]) /\ q[i] \in Message
    OBVIOUS
  <2> HIDE DEF f
  <2> QED
    BY <2>1, <2>2, MessageFacts
<1>5. f[1] = Leased(Head(q))
  BY <1>1
<1> HIDE DEF f, g, up, t
<1>6. Sum(f, DOMAIN q \ {1}) = Sum(g, DOMAIN t)
  BY <1>2, <1>3, <1>4, SumOfRenamed
<1>7. Sum(f, DOMAIN q) = Sum(f, DOMAIN q \ {1}) + f[1]
  BY <1>1, <1>4, SumRemoves
<1> QED
  BY <1>5, <1>6, <1>7 DEF BytesOf, f, g, t

LEMMA EmptyBytes == BytesOf(<<>>) = 0
<1>1. DOMAIN <<>> = {}
  OBVIOUS
<1> QED
  BY <1>1, SumOfNone DEF BytesOf

PointsOf(chunks) == Sum([c \in chunks |-> c.points], chunks)

LEMMA HeldArePositive ==
  ASSUME NEW chunks \in SUBSET Items, IsFiniteSet(chunks)
  PROVE  PointsOf(chunks) \in Nat
<1>1. \A c \in chunks : [d \in chunks |-> d.points][c] \in Nat
  BY ItemFacts
<1> QED
  BY <1>1, SumIsNat DEF PointsOf

LEMMA HeldGains ==
  ASSUME NEW chunks \in SUBSET Items, IsFiniteSet(chunks), NEW m \in Items, m \notin chunks
  PROVE  /\ PointsOf(chunks \cup {m}) = PointsOf(chunks) + m.points
         /\ IsFiniteSet(chunks \cup {m})
<1> DEFINE f == [c \in chunks |-> c.points]
           g == [c \in chunks \cup {m} |-> c.points]
<1>1. /\ \A c \in chunks : g[c] \in Nat /\ g[c] = f[c]
      /\ g[m] \in Nat /\ g[m] = m.points
  BY ItemFacts
<1> HIDE DEF f, g
<1>2. Sum(g, chunks \cup {m}) = Sum(g, chunks) + g[m]
  BY <1>1, SumAdds
<1>3. Sum(g, chunks) = Sum(f, chunks)
  BY <1>1, SumOfSame
<1> QED
  BY <1>1, <1>2, <1>3, FS_AddElement DEF PointsOf, f, g

LEMMA HeldLoses ==
  ASSUME NEW chunks \in SUBSET Items, IsFiniteSet(chunks), NEW m \in chunks
  PROVE  /\ PointsOf(chunks) = PointsOf(chunks \ {m}) + m.points
         /\ IsFiniteSet(chunks \ {m})
<1>1. IsFiniteSet(chunks \ {m}) /\ chunks \ {m} \in SUBSET Items /\ (chunks \ {m}) \cup {m} = chunks
  BY FS_RemoveElement
<1> QED
  BY <1>1, HeldGains

\* A count that is the sum of three and within a limit is typed.
LEMMA SumInRange ==
  ASSUME NEW a \in Nat, NEW b \in Nat, NEW c \in Nat, NEW top \in Nat,
         NEW n, n = a + b + c, n <= top
  PROVE  n \in 0..top
OBVIOUS

LEMMA SumLess ==
  ASSUME NEW a \in Nat, NEW b \in Nat, NEW c \in Nat, NEW p \in Nat, NEW top \in Nat,
         NEW n, n = a + (b + p) + c, n <= top
  PROVE  n - p \in 0..top /\ n - p = a + b + c
OBVIOUS

-----------------------------------------------------------------------------
LEMMA InitEstablishes ==
  ASSUME Init
  PROVE  IInv
<1> USE DEF Init
<1>1. TypeOK
  <2>1. Start \in Identity /\ End \in Message
    BY DEF Start, Identity, Message
  <2>2. 0 \in 0..limit /\ 0 \in 0..MaxRecords /\ 0 \in 0..MaxChunk
    BY PrefetchAssumption
  <2>3. <<>> \in Seq(Message) /\ Len(<<>>) <= Capacity
    BY PrefetchAssumption
  <2>4. Accepted \in BOOLEAN
    BY DEF Accepted
  <2>5. /\ receiver \in BOOLEAN /\ worker \in {"check", "gone"} /\ consumer \in {"idle", "gone"}
    BY <2>4
  <2>6. limit \in Budgets /\ limit \in Nat /\ current \in 0..limit
    BY PrefetchAssumption
  <2> QED
    BY <2>1, <2>2, <2>3, <2>5, <2>6 DEF TypeOK
<1>2. LeasesAccounted
  <2>1. QueueBytes = 0
    BY EmptyBytes DEF QueueBytes, BytesOf
  <2>2. HeldBytes = 0
    BY SumOfNone DEF HeldBytes
  <2> QED
    BY <2>1, <2>2 DEF LeasesAccounted
<1>3. WorkerHolds /\ FinalIsLast
  BY DEF WorkerHolds, FinalIsLast
<1>4. Numbered
  BY DEF Numbered, Pending, Tip, Follows
<1>5. BrokenStaysBroken /\ AnswersLead
  BY DEF BrokenStaysBroken, AnswersLead, Broken
<1>6. RecordsCounted
  BY DEF RecordsCounted, Pending
<1>7. HeldAreOld
  BY FS_EmptySet DEF HeldAreOld
<1>8. EnoughForTheFrugal
  BY DEF EnoughForTheFrugal, End, Error
<1>9. StreamContract
  BY DEF StreamContract
<1> QED
  BY <1>1, <1>2, <1>3, <1>4, <1>5, <1>6, <1>7, <1>8, <1>9 DEF IInv

-----------------------------------------------------------------------------
(* The worker *)

\* What a running worker may do before it sends: the reservation changes hands
\* with the tracker, and a record it makes a message of follows its source.
LEMMA WorkerStepKeeps ==
  ASSUME IInv, worker \in {"check", "pull", "read"},
         UNCHANGED <<limit, cancelled, queue, receiver, consumerVars>>,
         worker' \in {"check", "pull", "read", "send", "gone"},
         message' \in Message, lease' \in 0..MaxChunk,
         source' \in [yielded : 0..MaxRecords, next : Identity],
         current' = current - lease + lease', current' <= limit,
         worker' \in {"check", "pull", "gone"} => lease' = 0,
         worker' = "read" => lease' = MaxChunk,
         worker' = "send" => lease' = Leased(message'),
         message' = Error("budget") => message = Error("budget") \/ greedy,
         \/ source' = source /\ ~Pending'
         \/ /\ Pending' /\ Follows(source.next, message'.identity)
            /\ source'.next = After(message') /\ source'.yielded = source.yielded + 1
  PROVE  IInv'
<1> USE DEF IInv, consumerVars
<1>1. queue' = queue /\ held' = held /\ answers' = answers /\ expected' = expected
      /\ finished' = finished /\ consumer' = consumer /\ receiver' = receiver /\ limit' = limit
      /\ greedy' = greedy
  OBVIOUS
<1>2. QueueBytes' = QueueBytes /\ HeldBytes' = HeldBytes
  BY <1>1 DEF QueueBytes, HeldBytes
<1>3. QueueBytes \in Nat /\ HeldBytes \in Nat
  <2>1. QueueBytes \in Nat
    BY BytesAreBounded DEF TypeOK, QueueBytes, BytesOf
  <2>2. HeldBytes \in Nat
    BY HeldArePositive DEF TypeOK, HeldAreOld, HeldBytes, PointsOf
  <2> QED
    BY <2>1, <2>2
<1>4. lease \in Nat /\ lease' \in Nat /\ limit \in Nat /\ current \in Nat
  BY PrefetchAssumption DEF TypeOK
<1>5. current' = lease' + QueueBytes + HeldBytes
  BY <1>3, <1>4 DEF LeasesAccounted
<1>6. TypeOK'
  <2>1. current' \in 0..limit
    BY <1>3, <1>4, <1>5, SumInRange
  <2> QED
    BY <1>1, <2>1 DEF TypeOK
<1>7. LeasesAccounted'
  BY <1>2, <1>5 DEF LeasesAccounted
<1>8. WorkerHolds'
  BY <1>1 DEF WorkerHolds, Accepted
<1>9. FinalIsLast' /\ \A i \in DOMAIN queue : queue[i].kind = "item"
  BY <1>1 DEF FinalIsLast
<1>10. Tip' = Tip /\ Tip \in Identity
  <2>1. queue # <<>> => queue[Len(queue)] \in Items
    BY <1>9, MessageFacts DEF TypeOK
  <2> QED
    BY <1>1, <2>1, ItemFacts DEF Tip, TypeOK
<1>11. Follows(Tip, source.next) /\ source.next \in Identity /\ ~Pending
  BY DEF Numbered, TypeOK, Pending
<1>12. Pending' => Follows(Tip, message'.identity)
  <2>1. Pending' => message' \in Items
    BY MessageFacts DEF Pending
  <2> QED
    BY <1>10, <1>11, <2>1, ItemFacts, FollowsComposes
<1>13. Numbered'
  <2>1. worker' \in {"check", "pull", "read"} => source' = source
    BY DEF Pending
  <2>2. Pending' => source'.next = After(message')
    OBVIOUS
  <2> QED
    BY <1>1, <1>10, <1>11, <1>12, <2>1, <2>2 DEF Numbered
<1>14. BrokenStaysBroken'
  <2>1. Broken' <=> Broken
    BY <1>1 DEF Broken
  <2>2. Broken => source.next.sequence > expected.sequence
    BY DEF BrokenStaysBroken
  <2>3. Pending' => message'.identity.sequence >= source.next.sequence /\ message'.identity.sequence \in Nat
    <3>1. Pending' => message' \in Items
      BY MessageFacts DEF Pending
    <3> QED
      BY <1>11, <3>1, ItemFacts DEF Follows, Identity
  <2>4. worker' \in {"check", "pull", "read"} => source' = source
    BY DEF Pending
  <2>5. source.next.sequence \in Nat /\ expected.sequence \in Nat
    BY DEF TypeOK, Identity
  <2> QED
    BY <1>1, <2>1, <2>2, <2>3, <2>4, <2>5 DEF BrokenStaysBroken
<1>15. AnswersLead' /\ StreamContract'
  <2>1. ~(finished /\ NoError)
    BY DEF RecordsCounted
  <2> QED
    BY <1>1, <2>1 DEF AnswersLead, Broken, StreamContract, NoError
<1>16. RecordsCounted'
  BY <1>1, <1>9, <1>11 DEF RecordsCounted, NoError, TypeOK
<1>17. HeldAreOld'
  BY <1>1 DEF HeldAreOld
<1>18. EnoughForTheFrugal'
  BY <1>1 DEF EnoughForTheFrugal
<1> QED
  BY <1>6, <1>7, <1>8, <1>9, <1>13, <1>14, <1>15, <1>16, <1>17, <1>18

\* The bytes the consumer, the channel and the worker hold are typed.
LEMMA BytesAreTyped ==
  ASSUME IInv
  PROVE  /\ QueueBytes \in Nat /\ HeldBytes \in Nat /\ lease \in Nat /\ current \in Nat
         /\ limit \in Nat /\ MaxChunk \in Nat
         /\ current = lease + QueueBytes + HeldBytes /\ current <= limit
<1> USE DEF IInv
<1>1. QueueBytes \in Nat
  BY BytesAreBounded DEF TypeOK, QueueBytes, BytesOf
<1>2. HeldBytes \in Nat
  BY HeldArePositive DEF TypeOK, HeldAreOld, HeldBytes, PointsOf
<1>3. lease \in Nat /\ limit \in Nat /\ current \in Nat /\ MaxChunk \in Nat /\ current <= limit
  BY PrefetchAssumption DEF TypeOK
<1> QED
  BY <1>1, <1>2, <1>3 DEF LeasesAccounted

\* A frugal consumer's chunk, the channel and the chunk to come fit the budget
\* that try_new demands.
LEMMA FrugalFits ==
  ASSUME IInv, worker = "pull", ~greedy
  PROVE  current + MaxChunk <= limit
<1> USE DEF IInv
<1>1. lease = 0 /\ MaxChunk * (Capacity + 2) <= limit
  BY DEF WorkerHolds, Accepted, Required
<1>2. Capacity \in Nat /\ MaxChunk \in Nat /\ Len(queue) \in Nat /\ Len(queue) <= Capacity
  BY PrefetchAssumption DEF TypeOK
<1>3. QueueBytes <= Len(queue) * MaxChunk
  BY BytesAreBounded DEF TypeOK, QueueBytes, BytesOf
<1>4. Len(queue) * MaxChunk <= Capacity * MaxChunk
  <2>1. \A a, b, c \in Nat : a <= b => a * c <= b * c
    OBVIOUS
  <2> QED
    BY <1>2, <2>1
<1>5. HeldBytes <= MaxChunk
  <2>1. CASE held = {}
    BY <1>2, <2>1, SumOfNone DEF HeldBytes
  <2>2. CASE held # {}
    <3>1. PICK c \in held : held = {c}
      BY <2>2 DEF HeldAreOld
    <3>2. c.points \in 1..MaxChunk
      BY ItemFacts DEF TypeOK
    <3> DEFINE f == [d \in held |-> d.points]
    <3>3. f[c] = c.points /\ f[c] \in Nat
      BY <3>2
    <3>4. HeldBytes = Sum(f, {c})
      BY <3>1 DEF HeldBytes
    <3> HIDE DEF f
    <3>5. HeldBytes = c.points
      BY <3>3, <3>4, SumOfOne
    <3> QED
      BY <1>2, <3>2, <3>5
  <2> QED
    BY <2>1, <2>2
<1>6. MaxChunk * (Capacity + 2) = Capacity * MaxChunk + MaxChunk + MaxChunk
  BY <1>2
<1>7. Len(queue) * MaxChunk \in Nat /\ Capacity * MaxChunk \in Nat
  BY <1>2
<1> QED
  BY <1>1, <1>2, <1>3, <1>4, <1>5, <1>6, <1>7, BytesAreTyped

LEMMA WorkerChecksOrPulls ==
  ASSUME IInv, WorkerCancelled \/ WorkerContinues \/ PullCancelled \/ PullRefused \/ PullReserves
  PROVE  IInv'
<1> USE DEF consumerVars
<1>1. /\ worker \in {"check", "pull"} /\ lease = 0 /\ source' = source
      /\ UNCHANGED <<limit, cancelled, queue, receiver, consumerVars>>
      /\ source \in [yielded : 0..MaxRecords, next : Identity] /\ message \in Message
  BY DEF WorkerCancelled, WorkerContinues, PullCancelled, PullRefused, PullReserves, IInv,
         WorkerHolds, TypeOK
<1>2. current \in Nat /\ current <= limit /\ 0 \in 0..MaxChunk /\ MaxChunk \in 0..MaxChunk
      /\ MaxChunk \in Nat
  BY BytesAreTyped
<1>3. Error("cancelled") \in Message /\ Error("budget") \in Message
  BY DEF Message, Errors, Error
<1>4. CASE WorkerCancelled \/ WorkerContinues
  <2>1. worker' \in {"gone", "pull"} /\ message' = message /\ lease' = 0 /\ current' = current
    BY <1>1, <1>4 DEF WorkerCancelled, WorkerContinues
  <2>2. current' = current - lease + lease'
    BY <1>1, <1>2, <2>1
  <2>3. ~Pending'
    BY <2>1 DEF Pending
  <2> QED
    BY <1>1, <1>2, <2>1, <2>2, <2>3, WorkerStepKeeps
<1>5. CASE PullCancelled \/ PullRefused
  <2>1. /\ worker' = "send" /\ message' \in {Error("cancelled"), Error("budget")}
        /\ lease' = 0 /\ current' = current
    BY <1>1, <1>5 DEF PullCancelled, PullRefused
  <2>2. current' = current - lease + lease'
    BY <1>1, <1>2, <2>1
  <2>3. ~Pending' /\ Leased(message') = 0
    BY <2>1 DEF Pending, Error, Leased
  <2>4. message' = Error("budget") => greedy
    <3>1. CASE PullCancelled
      BY <3>1 DEF PullCancelled, Error
    <3>2. CASE PullRefused
      BY <3>2, <1>2, FrugalFits, BytesAreTyped DEF PullRefused
    <3> QED
      BY <1>5, <3>1, <3>2
  <2> QED
    BY <1>1, <1>2, <1>3, <2>1, <2>2, <2>3, <2>4, WorkerStepKeeps
<1>6. CASE PullReserves
  <2>1. /\ worker' = "read" /\ message' = message /\ lease' = MaxChunk
        /\ current' = current + MaxChunk /\ current' <= limit
    BY <1>6 DEF PullReserves
  <2>2. current' = current - lease + lease'
    BY <1>1, <1>2, <2>1
  <2>3. ~Pending'
    BY <2>1 DEF Pending
  <2> QED
    BY <1>1, <1>2, <2>1, <2>2, <2>3, WorkerStepKeeps
<1> QED
  BY <1>4, <1>5, <1>6

LEMMA SourceStopsKeeps ==
  ASSUME IInv, SourceEnds \/ SourceFails
  PROVE  IInv'
<1> USE DEF consumerVars
<1>1. /\ worker = "read" /\ source' = source /\ worker' = "send" /\ lease' = 0
      /\ current' = current - lease /\ message' \in {End, Error("source")}
      /\ UNCHANGED <<limit, cancelled, queue, receiver, consumerVars>>
      /\ source \in [yielded : 0..MaxRecords, next : Identity]
  BY DEF SourceEnds, SourceFails, IInv, TypeOK
<1>2. message' \in Message /\ message' # Error("budget") /\ ~Pending' /\ Leased(message') = 0
  BY <1>1 DEF Message, Errors, Error, End, Pending, Leased
<1>3. /\ 0 \in 0..MaxChunk /\ current - lease + 0 = current - lease
      /\ current - lease <= limit
  BY BytesAreTyped
<1> QED
  BY <1>1, <1>2, <1>3, WorkerStepKeeps

LEMMA SourceYieldsKeeps ==
  ASSUME IInv, SourceYields
  PROVE  IInv'
<1> USE DEF consumerVars
<1>1. /\ worker = "read" /\ worker' = "send" /\ source.yielded < MaxRecords
      /\ UNCHANGED <<limit, cancelled, queue, receiver, consumerVars>>
      /\ source \in [yielded : 0..MaxRecords, next : Identity] /\ lease = MaxChunk
  BY DEF SourceYields, IInv, TypeOK, WorkerHolds
<1>2. PICK points \in 1..MaxChunk, skip \in Skips :
        LET identity == [source.next EXCEPT !.sequence = @ + skip]
        IN  /\ message' = Item(identity, points)
            /\ source' = [yielded |-> source.yielded + 1, next |-> Advance(identity, points)]
            /\ current' = current - (lease - points)
            /\ lease' = points
  BY DEF SourceYields
<1> DEFINE identity == [source.next EXCEPT !.sequence = @ + skip]
<1>3. identity \in Identity /\ Follows(source.next, identity)
  <2>1. source.next \in Identity /\ skip \in Nat
    BY <1>1, PrefetchAssumption
  <2>2. identity \in Identity /\ identity.sequence = source.next.sequence + skip
        /\ identity.point_offset = source.next.point_offset
    BY <2>1 DEF Identity
  <2>3. CASE skip = 0
    <3>1. identity = source.next
      BY <2>1, <2>2, <2>3 DEF Identity
    <3> QED
      BY <2>2, <3>1 DEF Follows
  <2>4. CASE skip # 0
    <3>1. identity.sequence > source.next.sequence
      BY <2>1, <2>2, <2>4 DEF Identity
    <3> QED
      BY <2>2, <3>1 DEF Follows
  <2> QED
    BY <2>2, <2>3, <2>4
<1> HIDE DEF identity
<1>4. /\ message' = Item(identity, points) /\ lease' = points
      /\ source' = [yielded |-> source.yielded + 1, next |-> Advance(identity, points)]
      /\ current' = current - (lease - points)
  BY <1>2 DEF identity
<1>5. /\ message' \in Items /\ message'.identity = identity /\ message'.points = points
      /\ Pending' /\ message' # Error("budget") /\ message' \in Message /\ Leased(message') = points
  BY <1>1, <1>3, <1>4 DEF Item, Items, Message, Pending, Error, Leased
<1>6. /\ source'.next = After(message') /\ source'.yielded = source.yielded + 1
      /\ source' \in [yielded : 0..MaxRecords, next : Identity]
  <2>1. Advance(identity, points) \in Identity
    BY <1>5, ItemFacts DEF After
  <2>2. source.yielded + 1 \in 0..MaxRecords
    BY <1>1, PrefetchAssumption
  <2> QED
    BY <1>4, <1>5, <2>1, <2>2 DEF After
<1>7. /\ points \in 0..MaxChunk /\ current - (lease - points) = current - lease + points
      /\ current - (lease - points) <= limit
  BY <1>1, BytesAreTyped
<1> QED
  BY <1>1, <1>3, <1>4, <1>5, <1>6, <1>7, WorkerStepKeeps

\* The message moves to the channel with its lease; the channel goes on where it
\* ended, or ends with an error or the end.
LEMMA SendKeeps ==
  ASSUME IInv, Send
  PROVE  IInv'
<1> USE DEF IInv, consumerVars
<1> DEFINE n == Len(queue)
<1>1. /\ worker = "send" /\ message \in Message /\ queue \in Seq(Message) /\ n \in Nat
      /\ n < Capacity /\ lease = Leased(message) /\ Accepted /\ receiver
      /\ source \in [yielded : 0..MaxRecords, next : Identity]
      /\ \A i \in DOMAIN queue : queue[i] \in Items
  <2>1. \A i \in DOMAIN queue : queue[i].kind = "item" /\ queue[i] \in Message
    BY DEF Send, FinalIsLast, TypeOK
  <2> QED
    BY <2>1, MessageFacts DEF Send, TypeOK, WorkerHolds
<1>2. /\ queue' = Append(queue, message) /\ lease' = 0
      /\ worker' = IF message.kind = "item" THEN "check" ELSE "gone"
      /\ UNCHANGED <<limit, current, cancelled, source, message, receiver, consumer, finished,
                      expected, held, answers, greedy>>
  BY DEF Send
<1>3. /\ queue' \in Seq(Message) /\ Len(queue') = n + 1 /\ DOMAIN queue' = 1..(n + 1)
      /\ DOMAIN queue = 1..n /\ queue' # <<>> /\ (n = 0 <=> queue = <<>>)
      /\ \A i \in 1..n : queue'[i] = queue[i]
      /\ queue'[n + 1] = message
  BY <1>1, <1>2
<1>4. /\ ~Pending' /\ Pending = (message.kind = "item")
      /\ message.kind \in {"item", "error", "end"}
      /\ message.kind = "item" => message \in Items
  BY <1>1, <1>2, MessageFacts DEF Pending
<1> HIDE DEF n
<1>5. TypeOK'
  <2>1. 0 \in 0..MaxChunk
    BY PrefetchAssumption
  <2>2. n + 1 <= Capacity
    BY <1>1, PrefetchAssumption
  <2>3. worker' \in {"check", "pull", "read", "send", "gone"}
    BY <1>2
  <2> QED
    BY <1>2, <1>3, <2>1, <2>2, <2>3 DEF TypeOK
<1>6. LeasesAccounted'
  <2>1. QueueBytes' = QueueBytes + Leased(message)
    BY <1>1, <1>2, AppendBytes DEF QueueBytes, BytesOf
  <2>2. HeldBytes' = HeldBytes
    BY <1>2 DEF HeldBytes
  <2>3. Leased(message) \in Nat
    BY <1>1, BytesAreTyped
  <2>4. Leased(message) + QueueBytes + HeldBytes = 0 + (QueueBytes + Leased(message)) + HeldBytes
    BY <2>3, BytesAreTyped
  <2> QED
    BY <1>1, <1>2, <2>1, <2>2, <2>4, BytesAreTyped DEF LeasesAccounted
<1>7. WorkerHolds'
  BY <1>1, <1>2 DEF WorkerHolds, Accepted
<1>8. FinalIsLast'
  BY <1>1, <1>2, <1>3, ItemFacts DEF FinalIsLast
<1>9. Numbered'
  <2>1. ASSUME NEW i \in 1..n, NEW j \in 1..(n + 1), i < j, queue'[j].kind = "item"
        PROVE  queue[i].identity.sequence < queue'[j].identity.sequence
    <3>1. CASE j \in 1..n
      BY SMTT(30), <1>1, <1>3, <2>1, <3>1, ItemFacts DEF Numbered
    <3>2. CASE j = n + 1
      <4>1. queue[i] \in Items /\ queue[n] \in Items /\ i <= n /\ n \in 1..n /\ message \in Items
        BY <1>1, <1>3, <1>4, <2>1, <3>2
      <4>2. /\ queue[i].identity.sequence \in Nat /\ queue[n].identity.sequence \in Nat
            /\ message.identity.sequence \in Nat
            /\ After(queue[n]).sequence = queue[n].identity.sequence + 1
        BY <4>1, ItemFacts DEF Identity
      <4>3. queue[i].identity.sequence <= queue[n].identity.sequence
        <5>1. CASE i = n
          BY <4>2, <5>1
        <5>2. CASE i < n
          <6>1. queue[i].kind = "item" /\ queue[n].kind = "item" /\ i \in DOMAIN queue /\ n \in DOMAIN queue
            BY <1>3, <4>1, ItemFacts
          <6>2. queue[i].identity.sequence < queue[n].identity.sequence
            BY <5>2, <6>1 DEF Numbered
          <6> QED
            BY <4>2, <6>2
        <5> QED
          BY <1>1, <5>1, <5>2
      <4>4. Follows(After(queue[n]), message.identity)
        <5>1. queue # <<>> /\ Pending
          <6>1. n # 0 /\ message.kind = "item"
            BY <4>1, ItemFacts
          <6> QED
            BY <1>3, <1>4, <6>1
        <5> QED
          BY <5>1 DEF Numbered, Tip, n
      <4> QED
        BY <1>3, <3>2, <4>2, <4>3, <4>4 DEF Follows
    <3> QED
      BY <1>1, <2>1, <3>1, <3>2
  <2>2. ASSUME NEW i \in 1..(n + 1), i > 1, queue'[i].kind = "item"
        PROVE  Follows(After(queue'[i - 1]), queue'[i].identity)
    <3>1. i - 1 \in 1..n /\ queue'[i - 1] = queue[i - 1]
      BY <1>1, <1>3, <2>2
    <3>2. CASE i \in 1..n
      BY <1>3, <2>2, <3>1, <3>2 DEF Numbered
    <3>3. CASE i = n + 1
      <4>1. queue # <<>> /\ Pending /\ i - 1 = n
        <5>1. i - 1 = n /\ n # 0 /\ message.kind = "item"
          BY <1>1, <1>3, <2>2, <3>1, <3>3
        <5> QED
          BY <1>3, <1>4, <5>1
      <4> QED
        BY <1>3, <3>1, <3>3, <4>1 DEF Numbered, Tip, n
    <3> QED
      BY <1>1, <3>2, <3>3
  <2>3. queue'[1].kind = "item" => Follows(expected, queue'[1].identity)
    <3>1. CASE n = 0
      <4>1. queue = <<>> /\ queue'[1] = message
        BY <1>1, <1>3, <3>1
      <4> QED
        BY <1>4, <4>1 DEF Numbered, Tip
    <3>2. CASE n # 0
      <4>1. 1 \in 1..n /\ queue # <<>>
        BY <1>1, <1>3, <3>2
      <4> QED
        BY <1>3, <4>1 DEF Numbered
    <3> QED
      BY <3>1, <3>2
  <2>4. worker' \in {"check", "pull", "read"} => Follows(Tip', source.next)
    <3>1. SUFFICES ASSUME message.kind = "item" PROVE Follows(Tip', source.next)
      BY <1>2
    <3>2. source.next = After(message)
      BY <1>4, <3>1 DEF Numbered
    <3>3. Tip' = After(message)
      BY <1>3 DEF Tip
    <3> QED
      BY <3>2, <3>3 DEF Follows
  <2>5. \A i, j \in DOMAIN queue' : i < j /\ queue'[i].kind = "item" /\ queue'[j].kind = "item" =>
          queue'[i].identity.sequence < queue'[j].identity.sequence
    <3>1. \A i, j \in 1..(n + 1) : i < j => i \in 1..n
      BY <1>1
    <3> QED
      BY <1>3, <2>1, <3>1
  <2> QED
    BY <1>2, <1>3, <1>4, <2>2, <2>3, <2>4, <2>5 DEF Numbered
<1>10. BrokenStaysBroken'
  <2>1. Broken' <=> Broken
    BY <1>2 DEF Broken
  <2>2. Broken /\ Pending => source.next.sequence > expected.sequence
    <3>1. SUFFICES ASSUME Broken, Pending PROVE source.next.sequence > expected.sequence
      OBVIOUS
    <3>2. message \in Items /\ source.next = After(message)
          /\ message.identity.sequence > expected.sequence
      BY <1>4, <3>1 DEF Numbered, BrokenStaysBroken
    <3>3. message.identity.sequence \in Nat /\ expected.sequence \in Nat
      BY <3>2, ItemFacts DEF Identity, TypeOK
    <3> QED
      BY <3>2, <3>3, ItemFacts
  <2>3. \A i \in DOMAIN queue' : i \in 1..n \/ i = n + 1
    BY <1>1, <1>3
  <2>4. Broken => \A i \in DOMAIN queue' : queue'[i].kind = "item" =>
             queue'[i].identity.sequence > expected.sequence
    BY <1>3, <1>4, <2>3 DEF BrokenStaysBroken
  <2> QED
    BY <1>2, <1>4, <2>1, <2>2, <2>4 DEF BrokenStaysBroken
<1>11. AnswersLead' /\ StreamContract'
  BY <1>2 DEF AnswersLead, Broken, StreamContract
<1>12. RecordsCounted'
  <2>1. (\E i \in DOMAIN queue' : queue'[i].kind # "item") <=> message.kind # "item"
    <3>1. n + 1 \in DOMAIN queue'
      BY <1>1, <1>3
    <3>2. \A i \in DOMAIN queue' : i \in 1..n \/ i = n + 1
      BY <1>1, <1>3
    <3> QED
      BY <1>1, <1>3, <3>1, <3>2, ItemFacts
  <2>2. ~\E i \in DOMAIN queue : queue[i].kind # "item"
    BY <1>1, ItemFacts
  <2>3. ~finished /\ NoError /\ consumer \in {"idle", "recv"} =>
          source.yielded = Len(answers) + n + (IF message.kind = "item" THEN 1 ELSE 0) - 0
    BY <1>4, <2>2 DEF RecordsCounted, n
  <2>4. Len(answers) \in Nat /\ source.yielded \in Nat
    BY DEF TypeOK
  <2>5. ~finished /\ NoError /\ consumer \in {"idle", "recv"} =>
          source.yielded = Len(answers) + (n + 1) + 0 - (IF message.kind # "item" THEN 1 ELSE 0)
    BY <1>1, <2>3, <2>4
  <2>6. ~(finished /\ NoError)
    BY <1>1 DEF RecordsCounted
  <2>7. NoError' = NoError
    BY <1>2 DEF NoError
  <2>8. ~finished' /\ NoError' /\ consumer' \in {"idle", "recv"} =>
          source'.yielded = Len(answers') + Len(queue') + (IF Pending' THEN 1 ELSE 0)
              - (IF \E i \in DOMAIN queue' : queue'[i].kind # "item" THEN 1 ELSE 0)
    BY <1>2, <1>3, <1>4, <2>1, <2>5, <2>7
  <2> QED
    BY <1>1, <1>2, <2>6, <2>7, <2>8 DEF RecordsCounted
<1>13. HeldAreOld'
  <2>1. ~greedy => message # Error("budget")
    BY DEF EnoughForTheFrugal
  <2>2. \A i \in DOMAIN queue' : i \in 1..n \/ i = n + 1
    BY <1>1, <1>3
  <2> QED
    BY <1>2, <1>3, <2>1, <2>2 DEF HeldAreOld
<1>14. EnoughForTheFrugal'
  BY <1>2 DEF EnoughForTheFrugal
<1> QED
  BY <1>5, <1>6, <1>7, <1>8, <1>9, <1>10, <1>11, <1>12, <1>13, <1>14

\* A message that cannot be sent is dropped with its lease.
LEMMA SendFailsKeeps ==
  ASSUME IInv, SendFails
  PROVE  IInv'
<1> USE DEF IInv, consumerVars
<1>1. /\ worker = "send" /\ ~receiver /\ worker' = "gone" /\ lease' = 0 /\ current' = current - lease
      /\ UNCHANGED <<limit, cancelled, source, message, queue, receiver, consumer, finished,
                      expected, held, answers, greedy>>
  BY DEF SendFails
<1>2. /\ current - lease \in 0..limit /\ 0 \in 0..MaxChunk
      /\ current - lease = 0 + QueueBytes + HeldBytes
  BY BytesAreTyped
<1>3. TypeOK'
  BY <1>1, <1>2 DEF TypeOK
<1>4. LeasesAccounted'
  <2>1. QueueBytes' = QueueBytes /\ HeldBytes' = HeldBytes
    BY <1>1 DEF QueueBytes, HeldBytes
  <2> QED
    BY <1>1, <1>2, <2>1 DEF LeasesAccounted
<1>5. WorkerHolds' /\ FinalIsLast'
  BY <1>1 DEF WorkerHolds, FinalIsLast
<1>6. ~Pending' /\ Tip' = Tip /\ (Broken' <=> Broken) /\ (NoError' <=> NoError)
  BY <1>1 DEF Pending, Tip, Broken, NoError
<1>7. Numbered' /\ BrokenStaysBroken' /\ AnswersLead'
  BY <1>1, <1>6 DEF Numbered, BrokenStaysBroken, AnswersLead
<1>8. RecordsCounted'
  <2>1. consumer \notin {"idle", "recv", "dropping"}
    BY <1>1 DEF RecordsCounted
  <2> QED
    BY <1>1, <1>6, <2>1 DEF RecordsCounted
<1>9. HeldAreOld' /\ EnoughForTheFrugal' /\ StreamContract'
  BY <1>1 DEF HeldAreOld, EnoughForTheFrugal, StreamContract
<1> QED
  BY <1>3, <1>4, <1>5, <1>7, <1>8, <1>9

-----------------------------------------------------------------------------
(* The consumer *)

\* What follows the channel comes after every chunk in it.
LEMMA TipIsAfterHead ==
  ASSUME IInv, queue # <<>>
  PROVE  \A b \in Identity : Follows(Tip, b) /\ worker # "gone" =>
             b.sequence > queue[1].identity.sequence
<1> USE DEF IInv
<1> SUFFICES ASSUME NEW b \in Identity, Follows(Tip, b), worker # "gone"
             PROVE  b.sequence > queue[1].identity.sequence
  OBVIOUS
<1> DEFINE n == Len(queue)
<1>1. /\ n \in Nat /\ n \in DOMAIN queue /\ 1 \in DOMAIN queue
      /\ n = 1 \/ n > 1
      /\ queue[1] \in Items /\ queue[n] \in Items
  <2>1. queue \in Seq(Message) /\ n \in Nat /\ n # 0 /\ DOMAIN queue = 1..n
    BY DEF TypeOK
  <2>2. \A i \in DOMAIN queue : queue[i].kind = "item" /\ queue[i] \in Message
    BY <2>1 DEF FinalIsLast
  <2> HIDE DEF n
  <2> QED
    BY <2>1, <2>2, MessageFacts
<1>2. /\ queue[1].kind = "item" /\ queue[n].kind = "item"
      /\ queue[1].identity.sequence \in Nat /\ queue[n].identity.sequence \in Nat
      /\ b.sequence \in Nat
      /\ After(queue[n]).sequence = queue[n].identity.sequence + 1
  BY <1>1, ItemFacts DEF Identity
<1>3. queue[1].identity.sequence <= queue[n].identity.sequence
  <2>1. CASE n = 1
    BY <1>2, <2>1
  <2>2. CASE n > 1
    BY <1>1, <1>2, <2>2 DEF Numbered
  <2> QED
    BY <1>1, <2>1, <2>2
<1>4. b.sequence >= queue[n].identity.sequence + 1
  <2>1. Tip = After(queue[n])
    BY DEF Tip
  <2> QED
    BY <1>2, <2>1 DEF Follows
<1> QED
  BY <1>2, <1>3, <1>4

\* What follows the channel follows what the consumer expects.
LEMMA TipIsAhead ==
  ASSUME IInv
  PROVE  \A b \in Identity : Follows(Tip, b) /\ worker # "gone" => Follows(expected, b)
<1> USE DEF IInv
<1> SUFFICES ASSUME NEW b \in Identity, Follows(Tip, b), worker # "gone" PROVE Follows(expected, b)
  OBVIOUS
<1>1. CASE queue = <<>>
  BY <1>1 DEF Tip
<1>2. CASE queue # <<>>
  <2>1. 1 \in DOMAIN queue /\ queue[1] \in Items
    <3>1. 1 \in DOMAIN queue /\ queue[1] \in Message
      BY <1>2 DEF TypeOK
    <3> QED
      BY <3>1, MessageFacts DEF FinalIsLast
  <2>2. Follows(expected, queue[1].identity)
    BY <1>2, <2>1, ItemFacts DEF Numbered
  <2>3. queue[1].identity.sequence \in Nat /\ expected.sequence \in Nat /\ b.sequence \in Nat
    BY <2>1, ItemFacts DEF Identity, TypeOK
  <2>4. b.sequence > queue[1].identity.sequence
    BY <1>2, TipIsAfterHead
  <2> QED
    BY <2>2, <2>3, <2>4 DEF Follows
<1> QED
  BY <1>1, <1>2

\* Steps that leave the worker, the channel and the answers as they are.
LEMMA QuietKeeps ==
  ASSUME IInv, UNCHANGED <<limit, workerVars, queue, finished, expected, answers>>,
         cancelled' \in BOOLEAN, receiver' = receiver,
         consumer' \in {"idle", "recv", "dropping", "joining", "gone"},
         consumer' \in {"idle", "recv", "dropping"} => consumer \in {"idle", "recv", "dropping"},
         consumer' \in {"idle", "recv"} => consumer \in {"idle", "recv"},
         finished => consumer' # "recv",
         greedy' \in BOOLEAN, greedy => greedy',
         held' \in SUBSET held, current' \in 0..limit,
         current' = lease + QueueBytes + HeldBytes',
         ~greedy' /\ consumer' = "recv" => held' = {}
  PROVE  IInv'
<1> USE DEF IInv, workerVars
<1>1. TypeOK'
  BY DEF TypeOK
<1>2. LeasesAccounted'
  BY DEF LeasesAccounted, QueueBytes
<1>3. WorkerHolds' /\ FinalIsLast'
  BY DEF WorkerHolds, FinalIsLast, Accepted
<1>4. (Pending' <=> Pending) /\ Tip' = Tip /\ (Broken' <=> Broken) /\ (NoError' <=> NoError)
  BY DEF Pending, Tip, Broken, NoError
<1>5. Numbered' /\ BrokenStaysBroken' /\ AnswersLead'
  BY <1>4 DEF Numbered, BrokenStaysBroken, AnswersLead
<1>6. RecordsCounted'
  BY <1>4 DEF RecordsCounted
<1>7. HeldAreOld'
  <2>1. IsFiniteSet(held')
    BY FS_Subset DEF HeldAreOld
  <2> QED
    BY <2>1 DEF HeldAreOld
<1>8. EnoughForTheFrugal' /\ StreamContract'
  BY DEF EnoughForTheFrugal, StreamContract
<1> QED
  BY <1>1, <1>2, <1>3, <1>5, <1>6, <1>7, <1>8

LEMMA CallNextKeeps ==
  ASSUME IInv, CallNext
  PROVE  IInv'
<1>1. /\ consumer = "idle" /\ ~finished /\ consumer' = "recv" /\ greedy' = (greedy \/ held # {})
      /\ held' = held /\ current' = current /\ receiver' = receiver /\ cancelled' = cancelled
      /\ UNCHANGED <<limit, workerVars, queue, finished, expected, answers>>
  BY DEF CallNext
<1>2. current \in 0..limit /\ cancelled \in BOOLEAN /\ greedy \in BOOLEAN
  BY DEF IInv, TypeOK
<1>3. current' = lease + QueueBytes + HeldBytes'
  BY <1>1, BytesAreTyped DEF HeldBytes
<1> QED
  BY <1>1, <1>2, <1>3, QuietKeeps

LEMMA DropChunkKeeps ==
  ASSUME IInv, NEW c \in held, DropChunk(c)
  PROVE  IInv'
<1>1. /\ held' = held \ {c} /\ current' = current - c.points
      /\ UNCHANGED <<limit, cancelled, workerVars, queue, receiver, consumer, finished, expected,
                      answers, greedy>>
  BY DEF DropChunk
<1>2. /\ cancelled \in BOOLEAN /\ greedy \in BOOLEAN
      /\ consumer \in {"idle", "recv", "dropping", "joining", "gone"}
      /\ finished => consumer # "recv"
      /\ ~greedy /\ consumer = "recv" => held = {}
  BY DEF IInv, TypeOK, RecordsCounted, HeldAreOld
<1>3. held \in SUBSET Items /\ IsFiniteSet(held)
  BY DEF IInv, TypeOK, HeldAreOld
<1>4. PointsOf(held) = PointsOf(held \ {c}) + c.points /\ PointsOf(held \ {c}) \in Nat /\ c.points \in Nat
  <2>1. PointsOf(held) = PointsOf(held \ {c}) + c.points /\ IsFiniteSet(held \ {c})
    BY <1>3, HeldLoses
  <2>2. held \ {c} \in SUBSET Items /\ c \in Items
    BY <1>3
  <2> QED
    BY <2>1, <2>2, HeldArePositive, ItemFacts
<1>5. HeldBytes = PointsOf(held) /\ HeldBytes' = PointsOf(held \ {c})
  BY <1>1 DEF HeldBytes, PointsOf
<1>6. current - c.points \in 0..limit /\ current - c.points = lease + QueueBytes + PointsOf(held \ {c})
  BY <1>4, <1>5, BytesAreTyped
<1> QED
  BY <1>1, <1>2, <1>5, <1>6, QuietKeeps

\* The token does not matter to what is held or sent.
LEMMA CancelKeeps ==
  ASSUME IInv, Cancel \/ BeginDrop \/ Join \/ UNCHANGED vars
  PROVE  IInv'
<1>1. /\ UNCHANGED <<limit, current, workerVars, queue, receiver, finished, expected, held,
                      answers, greedy>>
      /\ cancelled' \in {TRUE, cancelled}
      /\ \/ consumer' = consumer
         \/ consumer = "idle" /\ consumer' = "dropping"
         \/ consumer' = "gone"
  BY DEF Cancel, BeginDrop, Join, consumerVars, vars
<1>2. /\ cancelled \in BOOLEAN /\ greedy \in BOOLEAN /\ current \in 0..limit
      /\ consumer \in {"idle", "recv", "dropping", "joining", "gone"}
      /\ finished => consumer # "recv"
      /\ ~greedy /\ consumer = "recv" => held = {}
  BY DEF IInv, TypeOK, RecordsCounted, HeldAreOld
<1>3. current' = lease + QueueBytes + HeldBytes'
  BY <1>1, BytesAreTyped DEF HeldBytes
<1> QED
  BY <1>1, <1>2, <1>3, QuietKeeps

LEMMA DropReceiverKeeps ==
  ASSUME IInv, DropReceiver
  PROVE  IInv'
<1> USE DEF IInv, workerVars
<1>1. /\ consumer = "dropping" /\ consumer' = "joining" /\ ~receiver' /\ receiver' \in BOOLEAN
      /\ current' = current - QueueBytes /\ queue' = <<>>
      /\ UNCHANGED <<limit, cancelled, source, worker, lease, message, finished, expected, held,
                      answers, greedy>>
  BY DEF DropReceiver
<1>2. current - QueueBytes \in 0..limit /\ current - QueueBytes = lease + 0 + HeldBytes
  BY BytesAreTyped
<1>3. DOMAIN queue' = {} /\ queue' \in Seq(Message) /\ Len(queue') <= Capacity
  BY <1>1, PrefetchAssumption
<1>4. TypeOK'
  BY <1>1, <1>2, <1>3 DEF TypeOK
<1>5. LeasesAccounted'
  <2>1. QueueBytes' = 0
    BY <1>1, EmptyBytes DEF QueueBytes, BytesOf
  <2>2. HeldBytes' = HeldBytes
    BY <1>1 DEF HeldBytes
  <2> QED
    BY <1>1, <1>2, <2>1, <2>2 DEF LeasesAccounted
<1>6. WorkerHolds' /\ FinalIsLast'
  BY <1>1, <1>3 DEF WorkerHolds, FinalIsLast, Accepted
<1>7. (Pending' <=> Pending) /\ Tip' = expected /\ (Broken' <=> Broken) /\ (NoError' <=> NoError)
  BY <1>1 DEF Pending, Tip, Broken, NoError
<1>8. \A b \in Identity : Follows(Tip, b) /\ worker # "gone" => Follows(expected, b)
  BY TipIsAhead
<1>9. Numbered'
  <2>1. Pending => message.identity \in Identity /\ worker # "gone"
    BY MessageFacts, ItemFacts DEF Pending, TypeOK
  <2>2. source.next \in Identity
    BY DEF TypeOK
  <2> QED
    BY <1>1, <1>3, <1>7, <1>8, <2>1, <2>2 DEF Numbered
<1>10. BrokenStaysBroken' /\ AnswersLead'
  BY <1>1, <1>3, <1>7 DEF BrokenStaysBroken, AnswersLead
<1>11. RecordsCounted'
  BY <1>1, <1>7 DEF RecordsCounted
<1>12. HeldAreOld' /\ EnoughForTheFrugal' /\ StreamContract'
  BY <1>1, <1>3 DEF HeldAreOld, EnoughForTheFrugal, StreamContract
<1> QED
  BY <1>4, <1>5, <1>6, <1>9, <1>10, <1>11, <1>12

\* What is left of the channel when its first chunk has been taken.
LEMMA ChunkTaken ==
  ASSUME IInv, queue # <<>>, Head(queue).kind = "item",
         queue' = Tail(queue), UNCHANGED <<worker, source, message>>
  PROVE  /\ Head(queue) \in Items /\ Head(queue) = queue[1]
         /\ queue' \in Seq(Message) /\ Len(queue') = Len(queue) - 1 /\ Len(queue) \in Nat
         /\ QueueBytes = QueueBytes' + Head(queue).points
         /\ FinalIsLast'
         /\ (\E i \in DOMAIN queue' : queue'[i].kind # "item")
               <=> (\E i \in DOMAIN queue : queue[i].kind # "item")
         /\ \A i, j \in DOMAIN queue' : i < j /\ queue'[i].kind = "item" /\ queue'[j].kind = "item" =>
               queue'[i].identity.sequence < queue'[j].identity.sequence
         /\ \A i \in DOMAIN queue' : i > 1 /\ queue'[i].kind = "item" =>
               Follows(After(queue'[i - 1]), queue'[i].identity)
         /\ queue' # <<>> /\ queue'[1].kind = "item" => Follows(After(Head(queue)), queue'[1].identity)
         /\ \A i \in DOMAIN queue' : queue'[i] \in {queue[j] : j \in DOMAIN queue \ {1}}
         /\ \A i \in DOMAIN queue' : queue'[i].kind = "item" =>
               queue'[i].identity.sequence > Head(queue).identity.sequence
<1> USE DEF IInv
<1> DEFINE n == Len(queue)
<1>1. queue \in Seq(Message) /\ n \in Nat /\ n # 0
  BY DEF TypeOK
<1>2. /\ queue' \in Seq(Message) /\ Len(queue') = n - 1 /\ DOMAIN queue' = 1..(n - 1)
      /\ DOMAIN queue = 1..n /\ Head(queue) = queue[1]
      /\ \A i \in 1..(n - 1) : queue'[i] = queue[i + 1] /\ i + 1 \in 1..n /\ i + 1 # 1
  BY <1>1
<1> HIDE DEF n
<1>3. 1 \in 1..n /\ Head(queue) \in Message /\ Head(queue) \in Items
  BY <1>1, <1>2, MessageFacts DEF n
<1>4. QueueBytes = QueueBytes' + Head(queue).points
  <2>1. BytesOf(queue) = BytesOf(Tail(queue)) + Leased(Head(queue))
    BY <1>1, TailBytes
  <2> QED
    BY <1>3, <2>1, ItemFacts DEF QueueBytes, BytesOf
<1>5. FinalIsLast'
  BY <1>1, <1>2 DEF FinalIsLast, n
<1>6. (\E i \in DOMAIN queue' : queue'[i].kind # "item")
        <=> (\E i \in DOMAIN queue : queue[i].kind # "item")
  <2>1. ASSUME NEW i \in 1..n, queue[i].kind # "item"
        PROVE  i - 1 \in 1..(n - 1) /\ queue'[i - 1].kind # "item"
    <3>1. i # 1
      BY <1>2, <2>1
    <3>2. i - 1 \in 1..(n - 1) /\ (i - 1) + 1 = i
      BY <1>1, <3>1
    <3> QED
      BY <1>2, <2>1, <3>2
  <2> QED
    BY <1>2, <2>1
<1>7. ASSUME NEW i \in 1..(n - 1), NEW j \in 1..(n - 1), i < j,
             queue'[i].kind = "item", queue'[j].kind = "item"
      PROVE  queue'[i].identity.sequence < queue'[j].identity.sequence
  <2>1. i + 1 < j + 1 /\ i + 1 \in DOMAIN queue /\ j + 1 \in DOMAIN queue
        /\ queue'[i] = queue[i + 1] /\ queue'[j] = queue[j + 1]
    BY <1>1, <1>2, <1>7
  <2> QED
    BY <1>7, <2>1 DEF Numbered
<1>8. ASSUME NEW i \in 1..(n - 1), i > 1, queue'[i].kind = "item"
      PROVE  Follows(After(queue'[i - 1]), queue'[i].identity)
  <2>1. i + 1 \in DOMAIN queue /\ i + 1 > 1 /\ queue'[i] = queue[i + 1]
        /\ queue'[i - 1] = queue[(i + 1) - 1]
    <3>1. i - 1 \in 1..(n - 1) /\ (i - 1) + 1 = i /\ (i + 1) - 1 = i
      BY <1>1, <1>8
    <3> QED
      BY <1>1, <1>2, <3>1
  <2> QED
    BY <1>8, <2>1 DEF Numbered
<1>9. queue' # <<>> /\ queue'[1].kind = "item" => Follows(After(Head(queue)), queue'[1].identity)
  <2> SUFFICES ASSUME queue' # <<>>, queue'[1].kind = "item"
               PROVE  Follows(After(queue[1]), queue'[1].identity)
    BY <1>2
  <2>1. 1 \in 1..(n - 1)
    BY <1>1, <1>2
  <2>2. 2 \in DOMAIN queue /\ 2 > 1 /\ queue'[1] = queue[2] /\ 2 - 1 = 1
    BY <1>1, <1>2, <2>1
  <2> QED
    BY <2>2 DEF Numbered
<1>10. \A i \in 1..(n - 1) : queue'[i].kind = "item" =>
               queue'[i].identity.sequence > Head(queue).identity.sequence
  <2> SUFFICES ASSUME NEW i \in 1..(n - 1), queue'[i].kind = "item"
               PROVE  queue'[i].identity.sequence > queue[1].identity.sequence
    BY <1>2
  <2>1. /\ 1 \in DOMAIN queue /\ i + 1 \in DOMAIN queue /\ 1 < i + 1 /\ queue'[i] = queue[i + 1]
        /\ queue[1].kind = "item"
    BY <1>1, <1>2, <1>3
  <2>2. queue[1].identity.sequence < queue[i + 1].identity.sequence
    BY <2>1 DEF Numbered
  <2>3. queue[1] \in Items /\ queue[i + 1] \in Items
    BY <1>1, <1>2, <1>3, <2>1, MessageFacts
  <2> QED
    BY <2>1, <2>2, <2>3, ItemFacts DEF Identity
<1>11. \A i \in 1..(n - 1) : queue'[i] \in {queue[j] : j \in DOMAIN queue \ {1}}
  BY <1>2
<1>12. Len(queue') = Len(queue) - 1 /\ Len(queue) \in Nat
  BY <1>1, <1>2 DEF n
<1> QED
  BY <1>2, <1>3, <1>4, <1>5, <1>6, <1>7, <1>8, <1>9, <1>10, <1>11, <1>12

\* The chunk that is expected is received and owned by the consumer.
LEMMA ReceiveChunkKeeps ==
  ASSUME IInv, ReceiveChunk
  PROVE  IInv'
<1> USE DEF IInv
<1> DEFINE m == Head(queue)
           n == Len(answers)
<1>1. /\ consumer = "recv" /\ queue # <<>> /\ m.kind = "item" /\ m.identity = expected
      /\ queue' = Tail(queue) /\ consumer' = "idle" /\ expected' = After(m)
      /\ held' = held \cup {m} /\ answers' = Append(answers, m)
      /\ UNCHANGED <<limit, current, cancelled, source, worker, lease, message, receiver,
                      finished, greedy>>
  BY DEF ReceiveChunk, workerVars, After
<1>2. /\ m \in Items /\ m = queue[1]
      /\ queue' \in Seq(Message) /\ Len(queue') = Len(queue) - 1 /\ Len(queue) \in Nat
      /\ QueueBytes = QueueBytes' + m.points
      /\ FinalIsLast'
      /\ (\E i \in DOMAIN queue' : queue'[i].kind # "item")
            <=> (\E i \in DOMAIN queue : queue[i].kind # "item")
      /\ \A i, j \in DOMAIN queue' : i < j /\ queue'[i].kind = "item" /\ queue'[j].kind = "item" =>
            queue'[i].identity.sequence < queue'[j].identity.sequence
      /\ \A i \in DOMAIN queue' : i > 1 /\ queue'[i].kind = "item" =>
            Follows(After(queue'[i - 1]), queue'[i].identity)
      /\ queue' # <<>> /\ queue'[1].kind = "item" => Follows(After(m), queue'[1].identity)
      /\ \A i \in DOMAIN queue' : queue'[i] \in {queue[j] : j \in DOMAIN queue \ {1}}
  BY <1>1, ChunkTaken
<1>3. /\ m \in Message /\ m.points \in 1..MaxChunk /\ After(m) \in Identity
      /\ After(m).sequence = m.identity.sequence + 1 /\ m.identity.sequence \in Nat
      /\ 1 \in DOMAIN queue
  <2>1. 1 \in DOMAIN queue
    BY <1>1 DEF TypeOK
  <2>2. m.identity \in Identity
    BY <1>2, ItemFacts
  <2> HIDE DEF m
  <2> QED
    BY <1>2, <2>1, <2>2, ItemFacts DEF Identity
<1>4. ~Broken
  <2>1. Broken => queue[1].identity.sequence > expected.sequence
    BY <1>1, <1>2, <1>3 DEF BrokenStaysBroken
  <2> HIDE DEF m
  <2> QED
    BY <1>1, <1>2, <1>3, <2>1
<1>5. /\ answers \in Seq(Message) /\ n \in Nat
      /\ answers' \in Seq(Message) /\ Len(answers') = n + 1 /\ DOMAIN answers' = 1..(n + 1)
      /\ DOMAIN answers = 1..n /\ answers' # <<>> /\ (n = 0 <=> answers = <<>>)
      /\ \A i \in 1..n : answers'[i] = answers[i]
      /\ answers'[n + 1] = m
  <2>1. answers \in Seq(Message)
    BY DEF TypeOK
  <2> HIDE DEF m
  <2> QED
    BY <1>1, <1>3, <2>1
<1> HIDE DEF m, n
<1>6. m \notin held
  BY <1>1, <1>3 DEF HeldAreOld
<1>7. TypeOK'
  <2>1. Len(queue') <= Capacity
    BY <1>2, PrefetchAssumption DEF TypeOK
  <2>2. /\ limit' \in Budgets /\ current' \in 0..limit' /\ cancelled' \in BOOLEAN
        /\ source' \in [yielded : 0..MaxRecords, next : Identity]
        /\ worker' \in {"check", "pull", "read", "send", "gone"} /\ lease' \in 0..MaxChunk
        /\ message' \in Message /\ receiver' \in BOOLEAN /\ finished' \in BOOLEAN
        /\ greedy' \in BOOLEAN
    BY <1>1 DEF TypeOK
  <2>3. held' \in SUBSET Items
    BY <1>1, <1>2 DEF TypeOK
  <2> QED
    BY <1>1, <1>2, <1>3, <1>5, <2>1, <2>2, <2>3 DEF TypeOK
<1>8. LeasesAccounted'
  <2>1. HeldBytes' = HeldBytes + m.points
    BY <1>1, <1>2, <1>6, HeldGains DEF HeldBytes, PointsOf, TypeOK, HeldAreOld
  <2>2. QueueBytes' \in Nat
    BY <1>2, BytesAreBounded DEF QueueBytes, BytesOf
  <2>3. lease + (QueueBytes' + m.points) + HeldBytes = lease + QueueBytes' + (HeldBytes + m.points)
    BY <1>3, <2>2, BytesAreTyped
  <2> QED
    BY <1>1, <1>2, <2>1, <2>3, BytesAreTyped DEF LeasesAccounted
<1>9. WorkerHolds'
  BY <1>1 DEF WorkerHolds, Accepted
<1>10. (Pending' <=> Pending) /\ (worker # "gone" => Tip' = Tip)
  <2>1. queue \in Seq(Message) /\ queue' = Tail(queue)
    BY <1>1 DEF TypeOK
  <2>2. CASE queue' = <<>>
    <3>1. Len(queue) = 1
      BY <1>2, <2>2
    <3> QED
      BY <1>1, <1>2, <2>2, <3>1 DEF Tip, Pending
  <2>3. CASE queue' # <<>>
    <3>1. queue'[Len(queue')] = queue[Len(queue)]
      BY <1>1, <2>1, <2>3
    <3> QED
      BY <1>1, <2>3, <3>1 DEF Tip, Pending
  <2> QED
    BY <2>2, <2>3
<1>11. Numbered'
  <2>1. Pending => worker # "gone"
    BY DEF Pending
  <2> QED
    BY <1>1, <1>2, <1>10, <2>1 DEF Numbered
<1>12. ~Broken'
  BY SMTT(30), <1>2, <1>4, <1>5, ItemFacts DEF Broken
<1>13. BrokenStaysBroken' /\ AnswersLead'
  BY <1>1, <1>5, <1>12 DEF BrokenStaysBroken, AnswersLead
<1>14. StreamContract'
  <2>1. ~finished'
    BY <1>1 DEF RecordsCounted
  <2>2. \A i \in DOMAIN answers' : answers'[i].kind = "item"
    BY <1>12 DEF Broken
  <2>3. ASSUME NEW i \in DOMAIN answers'
        PROVE  answers'[i].identity = IF i = 1 THEN Start
                                ELSE Advance(answers'[i - 1].identity, answers'[i - 1].points)
    <3>1. CASE i \in 1..n
      <4>1. i # 1 => i - 1 \in 1..n
        BY <1>5, <3>1
      <4>2. answers[i].kind = "item"
        BY <1>4, <1>5, <3>1 DEF Broken
      <4> QED
        BY <1>5, <3>1, <4>1, <4>2 DEF StreamContract
    <3>2. CASE i = n + 1
      <4>1. (i = 1 <=> answers = <<>>) /\ i - 1 = n /\ (i # 1 => n \in 1..n)
        BY <1>5, <3>2
      <4>2. answers'[i].identity = IF answers = <<>> THEN Start ELSE After(answers[n])
        BY <1>1, <1>4, <1>5, <3>2 DEF AnswersLead, n
      <4> QED
        BY <1>5, <4>1, <4>2 DEF After
    <3> QED
      BY <1>5, <3>1, <3>2
  <2> QED
    BY <2>1, <2>2, <2>3 DEF StreamContract
<1>15. RecordsCounted'
  <2>1. NoError /\ NoError'
    BY <1>4, <1>12, <1>5 DEF Broken, NoError
  <2>2. ~\E i \in DOMAIN answers' : answers'[i].kind = "end"
    BY <1>12 DEF Broken
  <2>3. ~finished
    BY <1>1 DEF RecordsCounted
  <2>4. source.yielded = n + Len(queue)
              + (IF Pending THEN 1 ELSE 0)
              - (IF \E i \in DOMAIN queue : queue[i].kind # "item" THEN 1 ELSE 0)
    BY <1>1, <2>1, <2>3 DEF RecordsCounted, n
  <2>5. n + Len(queue) = (n + 1) + (Len(queue) - 1)
    BY <1>2, <1>5
  <2>6. source'.yielded = Len(answers') + Len(queue')
              + (IF Pending' THEN 1 ELSE 0)
              - (IF \E i \in DOMAIN queue' : queue'[i].kind # "item" THEN 1 ELSE 0)
    BY <1>1, <1>2, <1>5, <1>10, <2>4, <2>5
  <2> QED
    BY <1>1, <2>1, <2>2, <2>3, <2>6 DEF RecordsCounted
<1>16. HeldAreOld'
  <2>1. IsFiniteSet(held')
    BY <1>1, FS_AddElement DEF HeldAreOld
  <2>2. \A c \in held' : c.identity.sequence < expected'.sequence
    <3>1. ASSUME NEW c \in held PROVE c.identity.sequence < expected'.sequence
      <4>1. c.identity.sequence \in Nat /\ c.identity.sequence < expected.sequence
        BY ItemFacts DEF HeldAreOld, TypeOK, Identity
      <4> QED
        BY <1>1, <1>3, <4>1
    <3> QED
      BY <1>1, <1>3, <3>1
  <2>3. ~greedy => held' = {m}
    BY <1>1 DEF HeldAreOld
  <2> QED
    BY <1>1, <1>2, <2>1, <2>2, <2>3 DEF HeldAreOld
<1>17. EnoughForTheFrugal'
  <2>1. m # Error("budget")
    BY <1>1 DEF Error
  <2>2. \A i \in DOMAIN answers' : i \in 1..n \/ i = n + 1
    BY <1>5
  <2> QED
    BY <1>1, <1>5, <2>1, <2>2 DEF EnoughForTheFrugal
<1> QED
  BY <1>2, <1>7, <1>8, <1>9, <1>11, <1>13, <1>14, <1>15, <1>16, <1>17

\* An error or the end is one more answer, after which the stream is broken.
LEMMA FinalAnswer ==
  ASSUME IInv, NEW m \in Errors \cup {End}, answers' = Append(answers, m)
  PROVE  /\ answers' \in Seq(Message) /\ Len(answers') = Len(answers) + 1 /\ Len(answers) \in Nat
         /\ Broken'
         /\ NoError' => m = End /\ NoError
         /\ (\E i \in DOMAIN answers' : answers'[i].kind = "end")
               <=> (m = End \/ \E i \in DOMAIN answers : answers[i].kind = "end")
         /\ \A i, j \in DOMAIN answers' : i < j /\ answers'[j].kind = "item" => answers'[i].kind = "item"
         /\ \A i \in DOMAIN answers' : answers'[i].kind = "item" =>
               answers'[i].identity = IF i = 1 THEN Start
                                ELSE Advance(answers'[i - 1].identity, answers'[i - 1].points)
         /\ (\A i \in DOMAIN answers : answers[i] # Error("budget")) /\ m # Error("budget") =>
               \A i \in DOMAIN answers' : answers'[i] # Error("budget")
<1> USE DEF IInv
<1> DEFINE n == Len(answers)
<1>1. /\ m \in Message /\ m.kind \in {"error", "end"} /\ (m.kind = "end" <=> m = End)
  BY DEF Message, Errors, End
<1>2. /\ answers' \in Seq(Message) /\ Len(answers') = n + 1 /\ DOMAIN answers' = 1..(n + 1)
      /\ DOMAIN answers = 1..n /\ n \in Nat
      /\ \A i \in 1..n : answers'[i] = answers[i]
      /\ answers'[n + 1] = m /\ n + 1 \in 1..(n + 1) /\ \A i \in 1..n : i \in 1..(n + 1)
      /\ \A i \in 1..(n + 1) : i \in 1..n \/ i = n + 1
  <2>1. answers \in Seq(Message)
    BY DEF TypeOK
  <2> QED
    BY <1>1, <2>1
<1> HIDE DEF n
<1>3. Broken' /\ (NoError' => m = End /\ NoError)
  BY <1>1, <1>2 DEF Broken, NoError
<1>4. (\E i \in DOMAIN answers' : answers'[i].kind = "end")
               <=> (m = End \/ \E i \in DOMAIN answers : answers[i].kind = "end")
  BY <1>1, <1>2
<1>5. \A i, j \in DOMAIN answers' : i < j /\ answers'[j].kind = "item" => answers'[i].kind = "item"
  <2> SUFFICES ASSUME NEW i \in 1..(n + 1), NEW j \in 1..(n + 1), i < j, answers'[j].kind = "item"
               PROVE  answers'[i].kind = "item"
    BY <1>2
  <2>1. j \in 1..n
    BY <1>1, <1>2
  <2>2. i \in 1..n
    BY <1>2, <2>1
  <2> QED
    BY <1>2, <2>1, <2>2 DEF StreamContract
<1>6. ASSUME NEW i \in DOMAIN answers', answers'[i].kind = "item"
      PROVE  answers'[i].identity = IF i = 1 THEN Start
                                ELSE Advance(answers'[i - 1].identity, answers'[i - 1].points)
  <2>1. i \in 1..n
    BY <1>1, <1>2, <1>6
  <2>2. i # 1 => i - 1 \in 1..n
    BY <1>2, <2>1
  <2> QED
    BY <1>2, <1>6, <2>1, <2>2 DEF StreamContract
<1>7. (\A i \in DOMAIN answers : answers[i] # Error("budget")) /\ m # Error("budget") =>
               \A i \in DOMAIN answers' : answers'[i] # Error("budget")
  BY <1>2
<1> QED
  BY <1>2, <1>3, <1>4, <1>5, <1>6, <1>7 DEF n

\* A misnumbered chunk is dropped with its lease, and nothing after it can be
\* numbered as expected.
LEMMA ReceiveMisnumberedKeeps ==
  ASSUME IInv, ReceiveMisnumbered
  PROVE  IInv'
<1> USE DEF IInv
<1> DEFINE m == Head(queue)
           e == Error("non-contiguous")
<1>1. /\ consumer = "recv" /\ queue # <<>> /\ m.kind = "item" /\ m.identity # expected
      /\ queue' = Tail(queue) /\ consumer' = "idle" /\ cancelled' = TRUE
      /\ current' = current - Leased(m) /\ answers' = Append(answers, e)
      /\ UNCHANGED <<limit, source, worker, lease, message, receiver,
                      finished, expected, held, greedy>>
  BY DEF ReceiveMisnumbered, workerVars
<1>2. /\ m \in Items /\ m = queue[1]
      /\ queue' \in Seq(Message) /\ Len(queue') = Len(queue) - 1 /\ Len(queue) \in Nat
      /\ QueueBytes = QueueBytes' + m.points
      /\ FinalIsLast'
      /\ \A i, j \in DOMAIN queue' : i < j /\ queue'[i].kind = "item" /\ queue'[j].kind = "item" =>
            queue'[i].identity.sequence < queue'[j].identity.sequence
      /\ \A i \in DOMAIN queue' : i > 1 /\ queue'[i].kind = "item" =>
            Follows(After(queue'[i - 1]), queue'[i].identity)
      /\ \A i \in DOMAIN queue' : queue'[i] \in {queue[j] : j \in DOMAIN queue \ {1}}
      /\ \A i \in DOMAIN queue' : queue'[i].kind = "item" =>
               queue'[i].identity.sequence > m.identity.sequence
  BY <1>1, ChunkTaken
<1>3. e \in Errors \cup {End} /\ e # End /\ e # Error("budget")
  BY DEF Errors, Error, End
<1>4. /\ answers' \in Seq(Message) /\ Len(answers') = Len(answers) + 1 /\ Len(answers) \in Nat
      /\ Broken' /\ ~NoError'
      /\ (\E i \in DOMAIN answers' : answers'[i].kind = "end")
            <=> (\E i \in DOMAIN answers : answers[i].kind = "end")
      /\ \A i, j \in DOMAIN answers' : i < j /\ answers'[j].kind = "item" => answers'[i].kind = "item"
      /\ \A i \in DOMAIN answers' : answers'[i].kind = "item" =>
            answers'[i].identity = IF i = 1 THEN Start
                             ELSE Advance(answers'[i - 1].identity, answers'[i - 1].points)
      /\ (\A i \in DOMAIN answers : answers[i] # Error("budget")) =>
            \A i \in DOMAIN answers' : answers'[i] # Error("budget")
  <2> HIDE DEF e
  <2> QED
    BY <1>1, <1>3, FinalAnswer
<1>5. /\ m.points \in Nat /\ Leased(m) = m.points /\ m.identity \in Identity
      /\ m.identity.sequence \in Nat /\ expected.sequence \in Nat
  <2>1. m.identity \in Identity /\ m.points \in Nat /\ Leased(m) = m.points
    <3> HIDE DEF m
    <3> QED
      BY <1>2, ItemFacts
  <2> QED
    BY <2>1 DEF Identity, TypeOK
<1> HIDE DEF m, e
<1>6. m.identity.sequence > expected.sequence
  BY <1>1, <1>2 DEF Numbered, Follows
<1>7. QueueBytes' \in Nat
  BY <1>2, BytesAreBounded DEF QueueBytes, BytesOf
<1>8. current - m.points \in 0..limit /\ current - m.points = lease + QueueBytes' + HeldBytes
  <2>1. current = lease + (QueueBytes' + m.points) + HeldBytes /\ current <= limit
    BY <1>2, BytesAreTyped DEF LeasesAccounted
  <2> QED
    BY <1>5, <1>7, <2>1, BytesAreTyped, SumLess
<1>9. TypeOK'
  <2>1. Len(queue') <= Capacity
    BY <1>2, PrefetchAssumption DEF TypeOK
  <2> QED
    BY <1>1, <1>2, <1>4, <1>5, <1>8, <2>1 DEF TypeOK
<1>10. LeasesAccounted'
  <2>1. HeldBytes' = HeldBytes
    BY <1>1 DEF HeldBytes
  <2> QED
    BY <1>1, <1>5, <1>8, <2>1 DEF LeasesAccounted
<1>11. WorkerHolds'
  BY <1>1 DEF WorkerHolds, Accepted
<1>12. /\ Pending' <=> Pending
       /\ Pending => message.identity.sequence > m.identity.sequence /\ message.identity.sequence \in Nat
       /\ worker \in {"check", "pull", "read"} =>
             source.next.sequence > m.identity.sequence /\ source.next.sequence \in Nat
       /\ queue' # <<>> /\ worker # "gone" => Tip' = Tip
  <2>1. queue \in Seq(Message) /\ queue' = Tail(queue)
    BY <1>1 DEF TypeOK
  <2>2. queue' # <<>> => Tip' = Tip
    <3>1. queue' # <<>> => queue'[Len(queue')] = queue[Len(queue)]
      BY <1>1, <2>1
    <3> QED
      BY <1>1, <3>1 DEF Tip
  <2>3. \A b \in Identity : Follows(Tip, b) /\ worker # "gone" =>
             b.sequence > m.identity.sequence
    BY <1>1, <1>2, TipIsAfterHead
  <2>4. Pending => message.identity \in Identity /\ worker # "gone"
    BY MessageFacts, ItemFacts DEF Pending, TypeOK
  <2>5. source.next \in Identity
    BY DEF TypeOK
  <2>6. \A b \in Identity : b.sequence \in Nat
    BY DEF Identity
  <2>7. Pending' <=> Pending
    BY <1>1 DEF Pending
  <2> QED
    BY <2>2, <2>3, <2>4, <2>5, <2>6, <2>7 DEF Numbered
<1>13. Numbered'
  <2>1. \A b : b.sequence \in Nat /\ b.sequence > m.identity.sequence => Follows(expected, b)
    BY <1>5, <1>6 DEF Follows
  <2>2. Pending => Follows(Tip', message.identity)
    <3>1. CASE queue' = <<>>
      BY <1>1, <1>12, <2>1, <3>1 DEF Tip
    <3>2. CASE queue' # <<>>
      BY <1>12, <3>2 DEF Numbered, Pending
    <3> QED
      BY <3>1, <3>2
  <2>3. worker \in {"check", "pull", "read"} => Follows(Tip', source.next)
    <3>1. CASE queue' = <<>>
      BY <1>1, <1>12, <2>1, <3>1 DEF Tip
    <3>2. CASE queue' # <<>>
      BY <1>12, <3>2 DEF Numbered
    <3> QED
      BY <3>1, <3>2
  <2>4. queue' # <<>> /\ queue'[1].kind = "item" => Follows(expected, queue'[1].identity)
    <3> SUFFICES ASSUME queue' # <<>>, queue'[1].kind = "item" PROVE Follows(expected, queue'[1].identity)
      OBVIOUS
    <3>1. 1 \in DOMAIN queue' /\ queue'[1] \in Message
      BY <1>2
    <3>2. queue'[1].identity.sequence \in Nat
      BY <3>1, MessageFacts, ItemFacts DEF Identity
    <3> QED
      BY <1>2, <2>1, <3>1, <3>2
  <2>5. Pending => source.next = After(message)
    BY DEF Numbered
  <2> QED
    BY <1>1, <1>2, <1>12, <2>2, <2>3, <2>4, <2>5 DEF Numbered
<1>14. BrokenStaysBroken'
  <2>1. \A i \in DOMAIN queue' : queue'[i].kind = "item" =>
               queue'[i].identity.sequence > expected.sequence
    <3> SUFFICES ASSUME NEW i \in DOMAIN queue', queue'[i].kind = "item"
                 PROVE  queue'[i].identity.sequence > expected.sequence
      OBVIOUS
    <3>1. queue'[i] \in Message
      BY <1>2
    <3>2. queue'[i].identity.sequence \in Nat
      BY <3>1, MessageFacts, ItemFacts DEF Identity
    <3>3. queue'[i].identity.sequence > m.identity.sequence
      BY <1>2
    <3> QED
      BY <1>5, <1>6, <3>2, <3>3
  <2> QED
    BY <1>1, <1>5, <1>6, <1>12, <2>1 DEF BrokenStaysBroken
<1>15. AnswersLead' /\ StreamContract'
  BY <1>1, <1>4 DEF AnswersLead, StreamContract, NoError
<1>16. RecordsCounted'
  BY <1>1, <1>4 DEF RecordsCounted
<1>17. HeldAreOld'
  BY <1>1, <1>2 DEF HeldAreOld
<1>18. EnoughForTheFrugal'
  BY <1>1, <1>4 DEF EnoughForTheFrugal
<1> QED
  BY <1>2, <1>9, <1>10, <1>11, <1>13, <1>14, <1>15, <1>16, <1>17, <1>18

\* An answer that is an error or the end leaves nothing behind it in the channel
\* when the worker has left.
LEMMA LastAnswerKeeps ==
  ASSUME IInv, NEW m \in Errors \cup {End},
         consumer = "recv", worker = "gone", QueueBytes = 0,
         answers' = Append(answers, m), queue' = <<>>, consumer' = "idle",
         finished' \in BOOLEAN, m = End => finished', finished => finished',
         m = Error("budget") => greedy,
         m = End /\ NoError => source.yielded = Len(answers),
         UNCHANGED <<limit, current, cancelled, workerVars, receiver, expected, held, greedy>>
  PROVE  IInv'
<1> USE DEF IInv, workerVars
<1>1. /\ answers' \in Seq(Message) /\ Len(answers') = Len(answers) + 1 /\ Len(answers) \in Nat
      /\ Broken'
      /\ NoError' => m = End /\ NoError
      /\ (\E i \in DOMAIN answers' : answers'[i].kind = "end")
            <=> (m = End \/ \E i \in DOMAIN answers : answers[i].kind = "end")
      /\ \A i, j \in DOMAIN answers' : i < j /\ answers'[j].kind = "item" => answers'[i].kind = "item"
      /\ \A i \in DOMAIN answers' : answers'[i].kind = "item" =>
            answers'[i].identity = IF i = 1 THEN Start
                             ELSE Advance(answers'[i - 1].identity, answers'[i - 1].points)
      /\ (\A i \in DOMAIN answers : answers[i] # Error("budget")) /\ m # Error("budget") =>
            \A i \in DOMAIN answers' : answers'[i] # Error("budget")
  BY FinalAnswer
<1>2. DOMAIN queue' = {} /\ queue' \in Seq(Message) /\ Len(queue') <= Capacity /\ ~Pending'
  BY PrefetchAssumption DEF Pending
<1>3. TypeOK'
  BY <1>1, <1>2 DEF TypeOK
<1>4. LeasesAccounted'
  <2>1. QueueBytes' = 0
    BY EmptyBytes DEF QueueBytes, BytesOf
  <2>2. HeldBytes' = HeldBytes
    BY DEF HeldBytes
  <2> QED
    BY <2>1, <2>2 DEF LeasesAccounted
<1>5. WorkerHolds'
  BY DEF WorkerHolds, Accepted
<1>6. FinalIsLast' /\ Numbered' /\ BrokenStaysBroken' /\ AnswersLead'
  BY <1>1, <1>2 DEF FinalIsLast, Numbered, BrokenStaysBroken, AnswersLead
<1>7. RecordsCounted'
  BY <1>1 DEF RecordsCounted
<1>8. HeldAreOld'
  BY <1>2 DEF HeldAreOld
<1>9. EnoughForTheFrugal'
  BY <1>1 DEF EnoughForTheFrugal
<1>10. StreamContract'
  BY <1>1 DEF StreamContract, NoError
<1> QED
  BY <1>3, <1>4, <1>5, <1>6, <1>7, <1>8, <1>9, <1>10

LEMMA ReceiveLastKeeps ==
  ASSUME IInv, ReceiveError \/ ReceiveEnd
  PROVE  IInv'
<1> USE DEF IInv
<1> DEFINE m == Head(queue)
<1>1. /\ consumer = "recv" /\ queue # <<>> /\ m.kind \in {"error", "end"} /\ queue' = Tail(queue)
      /\ consumer' = "idle" /\ answers' = Append(answers, m)
      /\ finished' = (finished \/ m.kind = "end") /\ finished \in BOOLEAN
      /\ UNCHANGED <<limit, current, cancelled, workerVars, receiver, expected, held, greedy>>
  <2>1. CASE ReceiveError
    BY <2>1 DEF ReceiveError, TypeOK
  <2>2. CASE ReceiveEnd
    <3>1. m = End
      BY <2>2, MessageFacts DEF ReceiveEnd, TypeOK
    <3> QED
      BY <2>2, <3>1 DEF ReceiveEnd, TypeOK, End
  <2> QED
    BY <2>1, <2>2
<1>2. queue \in Seq(Message) /\ Len(queue) \in Nat /\ 1 \in DOMAIN queue /\ m = queue[1]
  BY <1>1 DEF TypeOK
<1>3. m \in Errors \cup {End} /\ (m = End <=> m.kind = "end")
  BY <1>1, <1>2, MessageFacts DEF Message, Items, Errors, End
<1>4. Len(queue) = 1 /\ worker = "gone" /\ queue' = <<>>
  <2>1. Len(queue) = 1 /\ worker = "gone"
    BY <1>1, <1>2 DEF FinalIsLast
  <2> QED
    BY <1>1, <1>2, <2>1
<1>5. QueueBytes = 0
  <2>1. Leased(m) = 0
    BY <1>1 DEF Leased
  <2>2. BytesOf(queue) = BytesOf(<<>>) + Leased(m)
    BY <1>1, <1>2, <1>4, TailBytes
  <2> QED
    BY <2>1, <2>2, EmptyBytes DEF QueueBytes, BytesOf
<1>6. m = Error("budget") => greedy
  BY <1>2 DEF HeldAreOld
<1>7. m = End /\ NoError => source.yielded = Len(answers)
  <2>1. ~finished /\ ~Pending /\ (\E i \in DOMAIN queue : queue[i].kind # "item")
    BY <1>1, <1>2, <1>4 DEF RecordsCounted, Pending
  <2>2. Len(answers) \in Nat
    BY DEF TypeOK
  <2> QED
    BY <1>1, <1>4, <2>1, <2>2 DEF RecordsCounted
<1> HIDE DEF m
<1> QED
  BY <1>1, <1>3, <1>4, <1>5, <1>6, <1>7, LastAnswerKeeps

LEMMA ReceiveClosedKeeps ==
  ASSUME IInv, ReceiveClosed
  PROVE  IInv'
<1> USE DEF IInv
<1>1. Error("closed") \in Errors /\ Error("closed") # End /\ Error("closed") # Error("budget")
  BY DEF Errors, Error, End
<1>2. QueueBytes = 0
  BY EmptyBytes DEF QueueBytes, BytesOf, ReceiveClosed
<1>3. /\ consumer = "recv" /\ worker = "gone" /\ answers' = Append(answers, Error("closed"))
      /\ queue' = <<>> /\ consumer' = "idle" /\ finished' = TRUE
      /\ UNCHANGED <<limit, current, cancelled, workerVars, receiver, expected, held, greedy>>
  BY DEF ReceiveClosed
<1> QED
  BY <1>1, <1>2, <1>3, LastAnswerKeeps

-----------------------------------------------------------------------------
LEMMA NextKeeps ==
  ASSUME IInv, [Next]_vars
  PROVE  IInv'
<1>1. CASE Worker
  BY <1>1, WorkerChecksOrPulls, SourceStopsKeeps, SourceYieldsKeeps, SendKeeps, SendFailsKeeps
     DEF Worker
<1>2. CASE CallNext
  BY <1>2, CallNextKeeps
<1>3. CASE Receive
  BY <1>3, ReceiveChunkKeeps, ReceiveMisnumberedKeeps, ReceiveLastKeeps, ReceiveClosedKeeps
     DEF Receive
<1>4. CASE \E c \in held : DropChunk(c)
  BY <1>4, DropChunkKeeps
<1>5. CASE Cancel \/ Drop \/ UNCHANGED vars
  BY <1>5, CancelKeeps, DropReceiverKeeps DEF Drop
<1> QED
  BY <1>1, <1>2, <1>3, <1>4, <1>5 DEF Next

\* The inductive invariant holds throughout: bounded.rs's worker, channel and
\* consumer in any interleaving, with any source.
THEOREM SpecInvariant == Spec => []IInv
<1>1. Init => IInv
  BY InitEstablishes
<1>2. IInv /\ [Next]_vars => IInv'
  BY NextKeeps
<1> QED
  BY <1>1, <1>2, PTL DEF Spec

\* The variables of worker, channel and consumer stay in their types, so the
\* tracker never exceeds its limit and the channel never its capacity.
THEOREM TypeCorrect == Spec => []TypeOK
<1>1. IInv => TypeOK
  BY DEF IInv
<1> QED
  BY <1>1, SpecInvariant, PTL

\* The tracker's count is exactly what the worker, the channel and the consumer
\* hold: a chunk dropped on any path returns its bytes once.
THEOREM EveryByteIsLeased == Spec => []LeasesAccounted
<1>1. IInv => LeasesAccounted
  BY DEF IInv
<1> QED
  BY <1>1, SpecInvariant, PTL

\* try_new's budget, (prefetch + 2) * max_chunk_bytes, suffices for a consumer
\* that drops each chunk before it pulls the next.
THEOREM FrugalNeverRefused == Spec => []EnoughForTheFrugal
<1>1. IInv => EnoughForTheFrugal
  BY DEF IInv
<1> QED
  BY <1>1, SpecInvariant, PTL

\* next_chunk answers a contiguous prefix of the stream, then errors and the
\* end, and an end without an error means that every record was received.
THEOREM ContractKept == Spec => []StreamContract
<1>1. IInv => StreamContract
  BY DEF IInv
<1> QED
  BY <1>1, SpecInvariant, PTL
-----------------------------------------------------------------------------
(* The source is a stream of records *)

InHand == IF Pending THEN message.points ELSE 0

\* While all went well, the points that were produced are received, queued or
\* being sent.
OffsetsCounted ==
    /\ consumer \in {"idle", "recv", "dropping"} => receiver
    /\ ~Broken /\ receiver =>
          source.next.point_offset = expected.point_offset + (QueueBytes + InHand)

LEMMA OffsetsTyped ==
  ASSUME IInv
  PROVE  /\ source.next.point_offset \in Nat /\ expected.point_offset \in Nat
         /\ QueueBytes \in Nat /\ InHand \in Nat
         /\ Pending => InHand = Leased(message)
<1>1. source.next \in Identity /\ expected \in Identity /\ message \in Message
  BY DEF IInv, TypeOK
<1>2. Pending => message \in Items
  BY <1>1, MessageFacts DEF Pending
<1>3. Pending => InHand = Leased(message) /\ InHand \in Nat
  BY <1>2, ItemFacts DEF InHand
<1> QED
  BY <1>1, <1>3, BytesAreTyped DEF Identity, InHand

LEMMA OffsetsStart ==
  ASSUME Init
  PROVE  OffsetsCounted
<1>1. /\ source.next.point_offset = 0 /\ expected.point_offset = 0 /\ queue = <<>>
      /\ worker # "send"
      /\ consumer \in {"idle", "recv", "dropping"} => receiver
  BY DEF Init, Start
<1>2. QueueBytes = 0 /\ InHand = 0
  BY <1>1, EmptyBytes DEF QueueBytes, BytesOf, InHand, Pending
<1> QED
  BY <1>1, <1>2 DEF OffsetsCounted

\* Steps that neither produce, send nor receive.
LEMMA OffsetsStay ==
  ASSUME OffsetsCounted, UNCHANGED <<queue, receiver, expected, answers>>, source' = source,
         Pending' <=> Pending, Pending => message' = message,
         consumer' \in {"idle", "recv", "dropping"} => consumer \in {"idle", "recv", "dropping"}
  PROVE  OffsetsCounted'
<1>1. QueueBytes' = QueueBytes /\ InHand' = InHand /\ (Broken' <=> Broken)
  BY DEF QueueBytes, InHand, Broken
<1> QED
  BY <1>1 DEF OffsetsCounted

\* A record that is read adds its points to what is produced and in hand.
LEMMA YieldCounts ==
  ASSUME IInv, SourceYields
  PROVE  /\ ~Pending /\ Pending'
         /\ \E points \in 1..MaxChunk :
               /\ source'.next.point_offset = source.next.point_offset + points
               /\ InHand' = points
<1>1. PICK points \in 1..MaxChunk, skip \in Skips :
        LET identity == [source.next EXCEPT !.sequence = @ + skip]
        IN  /\ message' = Item(identity, points)
            /\ source' = [yielded |-> source.yielded + 1, next |-> Advance(identity, points)]
  BY DEF SourceYields
<1> DEFINE identity == [source.next EXCEPT !.sequence = @ + skip]
<1>2. source.next \in Identity /\ worker = "read" /\ worker' = "send"
  BY DEF SourceYields, IInv, TypeOK
<1>3. identity.point_offset = source.next.point_offset
  BY <1>2 DEF Identity
<1> HIDE DEF identity
<1>4. message' = Item(identity, points) /\ source'.next = Advance(identity, points)
  BY <1>1 DEF identity
<1>5. source'.next.point_offset = source.next.point_offset + points
  BY <1>3, <1>4 DEF Advance
<1>6. message'.kind = "item" /\ message'.points = points
  BY <1>4 DEF Item
<1> QED
  BY <1>2, <1>5, <1>6 DEF Pending, InHand

LEMMA AddsPoints ==
  ASSUME NEW a \in Nat, NEW b \in Nat, NEW c \in Nat, NEW d \in Nat, NEW n \in Nat
  PROVE  /\ a = b + (c + 0) => a + n = b + (c + n)
         /\ a = b + ((c + n) + d) => a = (b + n) + (c + d) /\ b + n <= a
OBVIOUS

LEMMA WorkerCounts ==
  ASSUME IInv, OffsetsCounted, Worker
  PROVE  OffsetsCounted'
<1> USE DEF consumerVars
<1>1. UNCHANGED <<expected, answers, receiver, consumer>> /\ (Broken' <=> Broken)
  BY DEF Worker, WorkerCancelled, WorkerContinues, PullCancelled, PullRefused, PullReserves,
         SourceEnds, SourceFails, SourceYields, Send, SendFails, Broken
<1>2. CASE \/ WorkerCancelled \/ WorkerContinues \/ PullCancelled \/ PullRefused \/ PullReserves
           \/ SourceEnds \/ SourceFails
  <2>1. queue' = queue /\ source' = source /\ ~Pending /\ ~Pending'
    BY <1>2 DEF WorkerCancelled, WorkerContinues, PullCancelled, PullRefused, PullReserves,
                SourceEnds, SourceFails, Pending, Error, End
  <2> QED
    BY <1>1, <2>1, OffsetsStay
<1>3. CASE SourceYields
  <2>1. queue' = queue
    BY <1>3 DEF SourceYields
  <2>2. PICK points \in 1..MaxChunk :
           /\ source'.next.point_offset = source.next.point_offset + points
           /\ InHand' = points
    BY <1>3, YieldCounts
  <2>3. InHand = 0 /\ QueueBytes' = QueueBytes
    BY <1>3, <2>1, YieldCounts DEF InHand, QueueBytes
  <2>4. points \in Nat
    BY PrefetchAssumption
  <2>5. source.next.point_offset = expected.point_offset + (QueueBytes + 0) =>
           source.next.point_offset + points = expected.point_offset + (QueueBytes + points)
    BY <2>4, OffsetsTyped, AddsPoints
  <2> QED
    BY <1>1, <2>2, <2>3, <2>5 DEF OffsetsCounted
<1>4. CASE Send
  <2>1. /\ queue' = Append(queue, message) /\ source' = source /\ worker = "send"
        /\ worker' # "send" /\ queue \in Seq(Message) /\ message \in Message
    BY <1>4 DEF Send, IInv, TypeOK
  <2>2. QueueBytes' = QueueBytes + Leased(message)
    BY <2>1, AppendBytes DEF QueueBytes, BytesOf
  <2>3. InHand' = 0 /\ InHand = Leased(message)
    <3>1. ~Pending' /\ (Pending <=> message.kind = "item")
      BY <2>1 DEF Pending
    <3> QED
      BY <2>1, <3>1, OffsetsTyped, MessageFacts DEF InHand
  <2>4. (QueueBytes + Leased(message)) + 0 = QueueBytes + Leased(message)
    BY <2>1, OffsetsTyped, MessageFacts, PrefetchAssumption
  <2> QED
    BY <1>1, <2>1, <2>2, <2>3, <2>4 DEF OffsetsCounted
<1>5. CASE SendFails
  BY <1>1, <1>5 DEF SendFails, OffsetsCounted
<1> QED
  BY <1>2, <1>3, <1>4, <1>5 DEF Worker

\* A chunk that is received leaves the channel and moves the consumer on.
LEMMA ReceiveCounts ==
  ASSUME IInv, OffsetsCounted, ReceiveChunk
  PROVE  /\ OffsetsCounted' /\ ~Broken /\ Head(queue) \in Items /\ source' = source
         /\ expected' = Advance(expected, Head(queue).points)
         /\ expected.point_offset + Head(queue).points <= source.next.point_offset
<1> DEFINE m == Head(queue)
<1>1. /\ consumer = "recv" /\ queue # <<>> /\ m.kind = "item" /\ m.identity = expected
      /\ queue' = Tail(queue) /\ expected' = Advance(expected, m.points)
      /\ UNCHANGED <<workerVars, receiver>>
  BY DEF ReceiveChunk
<1>2. /\ m \in Items /\ m = queue[1] /\ QueueBytes = QueueBytes' + m.points
      /\ m.points \in Nat
  BY <1>1, ChunkTaken, ItemFacts, PrefetchAssumption DEF workerVars
<1>3. ~Broken
  <2>1. 1 \in DOMAIN queue
    BY <1>1 DEF IInv, TypeOK
  <2>2. expected.sequence \in Nat
    BY DEF IInv, TypeOK, Identity
  <2> QED
    BY <1>1, <1>2, <2>1, <2>2 DEF IInv, BrokenStaysBroken
<1>4. receiver /\ source.next.point_offset = expected.point_offset + (QueueBytes + InHand)
  BY <1>1, <1>3 DEF OffsetsCounted
<1>5. InHand' = InHand /\ source' = source
  BY <1>1 DEF InHand, Pending, workerVars
<1>6. QueueBytes' \in Nat
  <2>1. queue' \in Seq(Message)
    BY <1>1, ChunkTaken DEF workerVars
  <2> QED
    BY <2>1, BytesAreBounded DEF QueueBytes, BytesOf
<1>7. expected'.point_offset = expected.point_offset + m.points
  BY <1>1 DEF Advance
<1> HIDE DEF m
<1>8. /\ source.next.point_offset = (expected.point_offset + m.points) + (QueueBytes' + InHand)
      /\ expected.point_offset + m.points <= source.next.point_offset
  <2>1. source.next.point_offset = expected.point_offset + ((QueueBytes' + m.points) + InHand)
    BY <1>2, <1>4
  <2>2. /\ source.next.point_offset \in Nat /\ expected.point_offset \in Nat
        /\ QueueBytes' \in Nat /\ InHand \in Nat /\ m.points \in Nat
    BY <1>2, <1>6, OffsetsTyped
  <2> DEFINE a == source.next.point_offset
             b == expected.point_offset
             c == QueueBytes'
             n == m.points
  <2> HIDE DEF a, b, c, n
  <2>3. a \in Nat /\ b \in Nat /\ c \in Nat /\ n \in Nat /\ a = b + ((c + n) + InHand)
    BY <2>1, <2>2 DEF a, b, c, n
  <2>4. a = (b + n) + (c + InHand) /\ b + n <= a
    BY <2>2, <2>3, AddsPoints
  <2> QED
    BY <2>4 DEF a, b, c, n
<1> QED
  BY <1>1, <1>2, <1>3, <1>4, <1>5, <1>7, <1>8 DEF OffsetsCounted, m

LEMMA OffsetsKeep ==
  ASSUME IInv, OffsetsCounted, [Next]_vars
  PROVE  OffsetsCounted'
<1> USE DEF workerVars, consumerVars
<1>1. CASE Worker
  BY <1>1, WorkerCounts
<1>2. CASE CallNext
  BY <1>2, OffsetsStay DEF CallNext, Pending
<1>3. CASE Receive
  <2>1. CASE ReceiveChunk
    BY <2>1, ReceiveCounts
  <2>2. CASE ReceiveMisnumbered \/ ReceiveError \/ ReceiveEnd \/ ReceiveClosed
    <3>1. PICK m \in Errors \cup {End} : answers' = Append(answers, m)
      <4>1. Error("non-contiguous") \in Errors /\ Error("closed") \in Errors
        BY DEF Errors, Error
      <4>2. CASE ReceiveError \/ ReceiveEnd
        <5>1. /\ queue # <<>> /\ Head(queue).kind # "item" /\ Head(queue) \in Message
              /\ Head(queue).kind \in {"error", "end"}
          BY <4>2 DEF ReceiveError, ReceiveEnd, IInv, TypeOK
        <5>2. Head(queue) \in Errors \cup {End}
          BY <5>1 DEF Message, Items
        <5> QED
          BY <4>2, <5>1, <5>2, MessageFacts DEF ReceiveError, ReceiveEnd
      <4> QED
        BY <2>2, <4>1, <4>2 DEF ReceiveMisnumbered, ReceiveClosed
    <3>2. Broken'
      BY <3>1, FinalAnswer
    <3>3. consumer = "recv" /\ receiver' = receiver
      BY <2>2 DEF ReceiveMisnumbered, ReceiveError, ReceiveEnd, ReceiveClosed
    <3> QED
      BY <3>2, <3>3 DEF OffsetsCounted
  <2> QED
    BY <1>3, <2>1, <2>2 DEF Receive
<1>4. CASE \E c \in held : DropChunk(c)
  BY <1>4, OffsetsStay DEF DropChunk, Pending
<1>5. CASE Cancel \/ BeginDrop \/ Join \/ UNCHANGED vars
  BY <1>5, OffsetsStay DEF Cancel, BeginDrop, Join, vars, Pending
<1>6. CASE DropReceiver
  BY <1>6 DEF DropReceiver, OffsetsCounted
<1> QED
  BY <1>1, <1>2, <1>3, <1>4, <1>5, <1>6 DEF Next, Drop

LEMMA OffsetsHold == Spec => []OffsetsCounted
<1>1. Init => OffsetsCounted
  BY OffsetsStart
<1>2. IInv /\ OffsetsCounted /\ [Next]_vars => OffsetsCounted'
  BY OffsetsKeep
<1> QED
  BY <1>1, <1>2, SpecInvariant, PTL DEF Spec

StreamState == IF ~Broken THEN "open" ELSE IF NoError THEN "ended" ELSE "failed"

\* An answered chunk, as the consumer sees it.
Chunk(m) == [identity |-> m.identity, points |-> m.points]

Chunks == {Chunk(answers[i]) : i \in {j \in DOMAIN answers : answers[j].kind = "item"}}

\* The producer is ahead of the consumer by what the wrapped source has yielded.
Stream == INSTANCE RecordStream WITH
    produced <- source.next.point_offset, position <- expected,
    delivered <- Chunks, state <- StreamState

\* Steps that answer nothing and read no record.
LEMMA StreamStays ==
  ASSUME UNCHANGED <<answers, expected, source>>
  PROVE  UNCHANGED Stream!vars
<1>1. Chunks' = Chunks /\ StreamState' = StreamState
  BY DEF Chunks, StreamState, Broken, NoError
<1> QED
  BY <1>1 DEF Stream!vars

LEMMA YieldProduces ==
  ASSUME IInv, SourceYields
  PROVE  Stream!Produce
<1>1. UNCHANGED <<answers, expected>> /\ worker = "read"
  BY DEF SourceYields, consumerVars
<1>2. PICK points \in 1..MaxChunk :
        source'.next.point_offset = source.next.point_offset + points
  BY YieldCounts
<1>3. points \in Nat \ {0}
  BY PrefetchAssumption
<1>4. StreamState # "ended"
  <2> SUFFICES ASSUME Broken, NoError PROVE FALSE
    BY DEF StreamState
  <2>1. PICK i \in DOMAIN answers : answers[i].kind # "item" /\ answers[i].kind # "error"
    BY DEF Broken, NoError
  <2>2. answers[i].kind = "end"
    BY <2>1, MessageFacts DEF IInv, TypeOK
  <2>3. finished /\ worker # "gone"
    BY <1>1, <2>2 DEF IInv, RecordsCounted
  <2> QED
    BY <2>3 DEF IInv, RecordsCounted
<1>5. Chunks' = Chunks /\ StreamState' = StreamState
  BY <1>1 DEF Chunks, StreamState, Broken, NoError
<1> QED
  BY <1>1, <1>2, <1>3, <1>4, <1>5 DEF Stream!Produce

\* What one more answer adds to the chunks.
LEMMA ChunksGrow ==
  ASSUME IInv, NEW m \in Message, answers' = Append(answers, m)
  PROVE  /\ m.kind = "item" => Chunks' = Chunks \cup {Chunk(m)} /\ (Broken' <=> Broken)
         /\ m.kind # "item" => Chunks' = Chunks
<1> DEFINE n == Len(answers)
           D == {j \in DOMAIN answers : answers[j].kind = "item"}
           E == {j \in DOMAIN answers' : answers'[j].kind = "item"}
<1>1. answers \in Seq(Message) /\ n \in Nat /\ DOMAIN answers = 1..n
  BY DEF IInv, TypeOK
<1>2. /\ DOMAIN answers' = 1..(n + 1) /\ answers'[n + 1] = m /\ n + 1 \in 1..(n + 1)
      /\ \A i \in 1..n : answers'[i] = answers[i] /\ i \in 1..(n + 1)
      /\ \A i \in 1..(n + 1) : i \in 1..n \/ i = n + 1
  BY <1>1
<1> HIDE DEF n
<1>3. m.kind = "item" => E = D \cup {n + 1}
  BY <1>1, <1>2
<1>4. m.kind # "item" => E = D
  BY <1>1, <1>2
<1>5. \A i \in D : answers'[i] = answers[i]
  BY <1>1, <1>2
<1>6. Chunks = {Chunk(answers[i]) : i \in D} /\ Chunks' = {Chunk(answers'[i]) : i \in E}
  BY DEF Chunks, Chunk
<1>7. m.kind = "item" => (Broken' <=> Broken)
  BY <1>1, <1>2 DEF Broken
<1> HIDE DEF D, E
<1>8. m.kind = "item" => Chunks' = Chunks \cup {Chunk(m)}
  BY <1>2, <1>3, <1>5, <1>6
<1>9. m.kind # "item" => Chunks' = Chunks
  BY <1>4, <1>5, <1>6
<1> QED
  BY <1>7, <1>8, <1>9

\* When the end is received after chunks only, all that was produced has been
\* received: the end is alone in the channel and its worker has left.
LEMMA EndIsComplete ==
  ASSUME IInv, OffsetsCounted, ReceiveEnd, ~Broken
  PROVE  expected.point_offset = source.next.point_offset
<1>1. consumer = "recv" /\ queue # <<>> /\ Head(queue).kind = "end"
  BY DEF ReceiveEnd
<1>2. queue \in Seq(Message)
  BY DEF IInv, TypeOK
<1>3. 1 \in DOMAIN queue /\ Head(queue) = queue[1] /\ queue[1] \in Message
  BY <1>1, <1>2
<1>4. Len(queue) = 1 /\ worker = "gone"
  BY <1>1, <1>3 DEF IInv, FinalIsLast
<1>5. Tail(queue) \in Seq(Message) /\ Len(Tail(queue)) = 0
  BY <1>1, <1>2, <1>4
<1>6. QueueBytes = 0
  <2>1. BytesOf(queue) = BytesOf(Tail(queue)) + Leased(Head(queue))
    BY <1>1, <1>2, TailBytes
  <2>2. Leased(Head(queue)) = 0
    BY <1>1, <1>3, MessageFacts
  <2>3. BytesOf(Tail(queue)) = 0
    <3>1. BytesOf(Tail(queue)) \in Nat /\ BytesOf(Tail(queue)) <= Len(Tail(queue)) * MaxChunk
      BY <1>5, BytesAreBounded
    <3>2. 0 * MaxChunk = 0
      BY PrefetchAssumption
    <3> QED
      BY <1>5, <3>1, <3>2
  <2>4. QueueBytes = BytesOf(queue)
    BY DEF QueueBytes, BytesOf
  <2> QED
    BY <2>1, <2>2, <2>3, <2>4
<1>7. InHand = 0
  BY <1>4 DEF InHand, Pending
<1> QED
  BY <1>1, <1>6, <1>7, OffsetsTyped DEF OffsetsCounted

LEMMA ReceiveAnswers ==
  ASSUME IInv, OffsetsCounted, Receive
  PROVE  Stream!Next \/ UNCHANGED Stream!vars
<1> USE DEF workerVars
<1>1. CASE ReceiveChunk
  <2>1. /\ ~Broken /\ Head(queue) \in Items /\ source' = source
        /\ expected' = Advance(expected, Head(queue).points)
        /\ expected.point_offset + Head(queue).points <= source.next.point_offset
    BY <1>1, ReceiveCounts
  <2>2. answers' = Append(answers, Head(queue)) /\ Head(queue).identity = expected
    BY <1>1 DEF ReceiveChunk
  <2>3. /\ Head(queue) \in Message /\ Head(queue).kind = "item"
        /\ Head(queue).points \in Nat \ {0}
    BY <2>1, ItemFacts, PrefetchAssumption
  <2>4. Chunks' = Chunks \cup {Chunk(Head(queue))} /\ ~Broken'
    BY <2>1, <2>2, <2>3, ChunksGrow
  <2>5. StreamState = "open" /\ StreamState' = "open"
    BY <2>1, <2>4 DEF StreamState
  <2>6. Stream!Deliver
    BY <2>1, <2>2, <2>3, <2>4, <2>5 DEF Stream!Deliver, Chunk, Advance
  <2> QED
    BY <2>6 DEF Stream!Next
<1>2. CASE ReceiveMisnumbered \/ ReceiveError \/ ReceiveClosed
  <2>1. PICK m \in Errors : answers' = Append(answers, m)
    <3>1. CASE ReceiveError
      <4>1. queue # <<>> /\ Head(queue).kind = "error" /\ Head(queue) \in Message
        BY <3>1 DEF ReceiveError, IInv, TypeOK
      <4>2. Head(queue) \in Errors
        BY <4>1 DEF Message, Items, End
      <4> QED
        BY <3>1, <4>2 DEF ReceiveError
    <3>2. Error("non-contiguous") \in Errors /\ Error("closed") \in Errors
      BY DEF Errors, Error
    <3> QED
      BY <1>2, <3>1, <3>2 DEF ReceiveMisnumbered, ReceiveClosed
  <2>2. m \in Message /\ m.kind # "item" /\ m # End
    BY DEF Message, Errors, End
  <2>3. Chunks' = Chunks
    BY <2>1, <2>2, ChunksGrow
  <2>4. StreamState' = "failed"
    BY <2>1, <2>2, FinalAnswer DEF StreamState
  <2>5. UNCHANGED <<source, expected>>
    BY <1>2 DEF ReceiveMisnumbered, ReceiveError, ReceiveClosed
  <2> QED
    BY <2>3, <2>4, <2>5 DEF Stream!Fail, Stream!Next
<1>3. CASE ReceiveEnd
  <2>1. /\ consumer = "recv" /\ answers' = Append(answers, End)
        /\ UNCHANGED <<source, expected>> /\ End \in Message /\ End.kind # "item"
    BY <1>3 DEF ReceiveEnd, Message, End
  <2>2. Chunks' = Chunks /\ Broken'
    BY <2>1, ChunksGrow, FinalAnswer
  <2>3. NoError' <=> NoError
    <3>1. /\ answers \in Seq(Message) /\ End.kind # "error"
      BY DEF IInv, TypeOK, End
    <3>2. /\ DOMAIN answers' = 1..(Len(answers) + 1) /\ DOMAIN answers = 1..Len(answers)
          /\ answers'[Len(answers) + 1] = End
          /\ \A i \in 1..Len(answers) : answers'[i] = answers[i] /\ i \in 1..(Len(answers) + 1)
          /\ \A i \in 1..(Len(answers) + 1) : i \in 1..Len(answers) \/ i = Len(answers) + 1
      BY <2>1, <3>1
    <3> QED
      BY <3>1, <3>2 DEF NoError
  <2>4. CASE Broken
    <3>1. ~NoError
      <4> SUFFICES ASSUME NoError PROVE FALSE
        OBVIOUS
      <4>1. PICK i \in DOMAIN answers : answers[i].kind # "item" /\ answers[i].kind # "error"
        BY <2>4 DEF Broken, NoError
      <4>2. answers[i].kind = "end"
        BY <4>1, MessageFacts DEF IInv, TypeOK
      <4> QED
        BY <2>1, <4>2 DEF IInv, RecordsCounted
    <3>2. StreamState' = StreamState
      BY <2>2, <2>3, <2>4, <3>1 DEF StreamState
    <3> QED
      BY <2>1, <2>2, <3>2 DEF Stream!vars
  <2>5. CASE ~Broken
    <3>1. NoError
      <4> SUFFICES ASSUME NEW i \in DOMAIN answers, answers[i].kind = "error" PROVE FALSE
        BY DEF NoError
      <4> QED
        BY <2>5 DEF Broken
    <3>2. StreamState = "open" /\ StreamState' = "ended"
      BY <2>2, <2>3, <2>5, <3>1 DEF StreamState
    <3>3. expected.point_offset = source.next.point_offset
      BY <1>3, <2>5, EndIsComplete
    <3> QED
      BY <2>1, <2>2, <3>2, <3>3 DEF Stream!Finish, Stream!Next
  <2> QED
    BY <2>4, <2>5
<1> QED
  BY <1>1, <1>2, <1>3 DEF Receive

\* The prefetching source keeps the same promise as the source it wraps, also
\* when that source misnumbers its chunks: the worker only works ahead, chunks
\* are delivered in order and without gaps, the end is announced when every
\* record that was read has been delivered, and after an error nothing is.
THEOREM PrefetchImplementsStream == Spec => Stream!Spec
<1>1. Init => Stream!Init
  <2> SUFFICES ASSUME Init PROVE Stream!Init
    OBVIOUS
  <2>1. DOMAIN answers = {}
    BY DEF Init
  <2>2. Chunks = {} /\ StreamState = "open"
    BY <2>1 DEF Chunks, StreamState, Broken
  <2> QED
    BY <2>2 DEF Init, Start, Stream!Init
<1>2. IInv /\ OffsetsCounted /\ [Next]_vars => [Stream!Next]_(Stream!vars)
  <2> SUFFICES ASSUME IInv, OffsetsCounted, [Next]_vars
               PROVE  Stream!Next \/ UNCHANGED Stream!vars
    OBVIOUS
  <2>1. CASE Receive
    BY <2>1, ReceiveAnswers
  <2>2. CASE SourceYields
    BY <2>2, YieldProduces DEF Stream!Next
  <2>3. CASE Worker /\ ~SourceYields
    <3>1. UNCHANGED <<answers, expected, source>>
      BY <2>3 DEF Worker, WorkerCancelled, WorkerContinues, PullCancelled, PullRefused,
                  PullReserves, SourceEnds, SourceFails, Send, SendFails, consumerVars
    <3> QED
      BY <3>1, StreamStays
  <2>4. ASSUME NEW c \in held, DropChunk(c) PROVE UNCHANGED Stream!vars
    BY <2>4, StreamStays DEF DropChunk, workerVars
  <2>5. CASE CallNext \/ Cancel \/ Drop \/ UNCHANGED vars
    BY <2>5, StreamStays
       DEF CallNext, Cancel, Drop, BeginDrop, DropReceiver, Join, vars, workerVars, consumerVars
  <2> QED
    BY <2>1, <2>2, <2>3, <2>4, <2>5 DEF Next
<1> QED
  BY <1>1, <1>2, SpecInvariant, OffsetsHold, PTL DEF Spec, Stream!Spec

-----------------------------------------------------------------------------
(* What a drop leaves, and that nobody waits in vain *)

\* The receiver exists until drop discards it, and is not filled again; drop
\* returns when the worker has left.
ReceiverFollowsDrop ==
    /\ receiver <=> consumer \in {"idle", "recv", "dropping"}
    /\ ~receiver => queue = <<>>
    /\ consumer = "gone" => worker = "gone"

\* After the source is dropped the consumer's own chunks are all that is leased.
DropLeavesNothing == consumer = "gone" => current = HeldBytes

\* The worker can go on: it is not blocked on a full channel.
WorkerMoves ==
    \/ worker \in {"check", "pull", "read"}
    \/ worker = "send" /\ (~receiver \/ Len(queue) < Capacity)

\* The consumer waits for a message or for the worker's end only while the
\* worker can go on; else what it waits for is there.
NobodyWaitsInVain ==
    /\ consumer = "recv" => queue # <<>> \/ worker = "gone" \/ WorkerMoves
    /\ consumer = "joining" => worker = "gone" \/ WorkerMoves

LEMMA ReceiverKeeps ==
  ASSUME IInv, ReceiverFollowsDrop, [Next]_vars
  PROVE  ReceiverFollowsDrop'
<1> USE DEF ReceiverFollowsDrop, consumerVars, workerVars
<1>1. CASE Worker
  <2>1. CASE WorkerCancelled \/ WorkerContinues \/ PullCancelled \/ PullRefused \/ PullReserves
    BY <2>1 DEF WorkerCancelled, WorkerContinues, PullCancelled, PullRefused, PullReserves
  <2>2. CASE SourceEnds \/ SourceFails \/ SourceYields
    BY <2>2 DEF SourceEnds, SourceFails, SourceYields
  <2>3. CASE Send \/ SendFails
    BY <2>3 DEF Send, SendFails
  <2> QED
    BY <1>1, <2>1, <2>2, <2>3 DEF Worker
<1>2. CASE CallNext \/ Receive
  <2>1. CASE CallNext
    BY <2>1 DEF CallNext
  <2>2. CASE Receive
    <3>1. /\ consumer = "recv" /\ consumer' = "idle" /\ receiver' = receiver /\ worker' = worker
      BY <2>2 DEF Receive, ReceiveChunk, ReceiveMisnumbered, ReceiveError, ReceiveEnd, ReceiveClosed
    <3> QED
      BY <3>1
  <2> QED
    BY <1>2, <2>1, <2>2
<1>3. CASE Cancel \/ \E c \in held : DropChunk(c)
  BY <1>3 DEF Cancel, DropChunk
<1>4. CASE Drop
  BY <1>4 DEF Drop, BeginDrop, DropReceiver, Join
<1>5. CASE UNCHANGED vars
  BY <1>5 DEF vars
<1> QED
  BY <1>1, <1>2, <1>3, <1>4, <1>5 DEF Next

LEMMA ReceiverHolds == Spec => []ReceiverFollowsDrop
<1>1. Init => ReceiverFollowsDrop
  BY DEF Init, ReceiverFollowsDrop
<1>2. IInv /\ ReceiverFollowsDrop /\ [Next]_vars => ReceiverFollowsDrop'
  BY ReceiverKeeps
<1> QED
  BY <1>1, <1>2, SpecInvariant, PTL DEF Spec

\* Drop gives back the worker's reservation and every queued chunk: when it has
\* returned, the tracker counts the chunks that the consumer still keeps.
THEOREM DropReleasesAll == Spec => []DropLeavesNothing
<1>1. IInv /\ ReceiverFollowsDrop => DropLeavesNothing
  <2> SUFFICES ASSUME IInv, ReceiverFollowsDrop, consumer = "gone"
               PROVE  current = HeldBytes
    BY DEF DropLeavesNothing
  <2>1. worker = "gone" /\ queue = <<>>
    BY DEF ReceiverFollowsDrop
  <2>2. lease = 0
    BY <2>1 DEF IInv, WorkerHolds
  <2>3. QueueBytes = 0
    BY <2>1, EmptyBytes DEF QueueBytes, BytesOf
  <2>4. HeldBytes \in Nat
    BY BytesAreTyped DEF IInv
  <2> QED
    BY <2>2, <2>3, <2>4 DEF IInv, LeasesAccounted
<1> QED
  BY <1>1, SpecInvariant, ReceiverHolds, PTL

\* Worker and consumer never wait for each other: not on a full and an empty
\* channel at once, and not in drop, which discards the receiver before it joins.
THEOREM NoMutualWait == Spec => []NobodyWaitsInVain
<1>1. IInv /\ ReceiverFollowsDrop => NobodyWaitsInVain
  <2> SUFFICES ASSUME IInv, ReceiverFollowsDrop
               PROVE  NobodyWaitsInVain
    OBVIOUS
  <2>1. worker \in {"check", "pull", "read", "send", "gone"}
    BY DEF IInv, TypeOK
  <2>2. worker # "gone" => Capacity > 0
    BY DEF IInv, WorkerHolds, Accepted
  <2>3. queue = <<>> => Len(queue) = 0
    OBVIOUS
  <2>4. consumer = "joining" => ~receiver
    BY DEF ReceiverFollowsDrop
  <2> QED
    BY <2>1, <2>2, <2>3, <2>4, PrefetchAssumption DEF NobodyWaitsInVain, WorkerMoves
<1> QED
  BY <1>1, SpecInvariant, ReceiverHolds, PTL
=============================================================================

--------------------------- MODULE PrefetchSource ---------------------------
(***************************************************************************)
(* PrefetchRecordSource over a LegacyBoundedSource                         *)
(* (crates/spatialrust-records/src/bounded.rs): a worker thread pulls      *)
(* leased chunks and sends them through a channel of fixed capacity; the   *)
(* consumer receives them in order, keeps or drops them, may cancel, and   *)
(* at any time drops the source, which joins the worker.                   *)
(*                                                                         *)
(* A chunk of n points holds n units of memory.  The tracker is used at    *)
(* the granularity of BudgetLedger, which MemoryTracker implements.  The   *)
(* wrapped source is the environment: it yields a record, an invalid one,  *)
(* an error or its end; an implementation of the trait other than the      *)
(* adapter may also misnumber a chunk.                                     *)
(***************************************************************************)
EXTENDS Integers, Sequences, ByteSum

CONSTANTS Capacity,   \* StreamOptions::prefetch_chunks
          MaxChunk,   \* max_chunk_bytes, and the most points in a chunk
          Budgets,    \* the memory budgets to start with
          MaxRecords, \* bound: records the wrapped source can yield
          MaxKept,    \* bound: chunks the consumer keeps across a pull
          Skips       \* sequence numbers a faulty source may skip; {0}: none

ASSUME PrefetchAssumption ==
    /\ Capacity \in Nat
    /\ MaxChunk \in Nat \ {0}
    /\ Budgets \subseteq Nat \ {0}
    /\ MaxRecords \in Nat
    /\ MaxKept \in Nat
    /\ Skips \subseteq Nat /\ 0 \in Skips

VARIABLES limit,      \* the tracker's limit
          current,    \* the tracker's current_bytes
          cancelled,  \* the cancellation token
          source,     \* records yielded, next identity of the wrapped source
          worker,     \* where the worker is
          lease,      \* the bytes the worker holds
          message,    \* the PrefetchMessage it is about to send
          queue,      \* the channel
          receiver,   \* the receiving half exists
          consumer,   \* where the consumer is
          finished,   \* PrefetchRecordSource::finished
          expected,   \* next_expected_sequence and next_expected_point_offset
          held,       \* the chunks the consumer has not dropped
          answers,    \* history: what next_chunk returned
          greedy      \* history: a pull was made while holding a chunk

workerVars == <<source, worker, lease, message>>
consumerVars == <<consumer, finished, expected, held, answers, greedy>>
vars == <<limit, current, cancelled, workerVars, queue, receiver, consumerVars>>

Start == [sequence |-> 0, point_offset |-> 0]

Advance(identity, points) ==
    [sequence |-> identity.sequence + 1, point_offset |-> identity.point_offset + points]

Item(identity, points) == [kind |-> "item", identity |-> identity, points |-> points]
Error(name) == [kind |-> "error", error |-> name]
End == [kind |-> "end"]

\* What a message leases while it is in the channel.
Leased(m) == IF m.kind = "item" THEN m.points ELSE 0

\* Bug: no allowance for the chunk the producer holds while send blocks.
RequiredWithoutProducer == MaxChunk * (Capacity + 1)

\* try_new: the queue, the consumer's chunk and the producer's.
Required == MaxChunk * (Capacity + 2)

Accepted == Capacity > 0 /\ Required <= limit

Init ==
    /\ limit \in Budgets
    /\ current = 0
    /\ cancelled = FALSE
    /\ source = [yielded |-> 0, next |-> Start]
    /\ worker = IF Accepted THEN "check" ELSE "gone"
    /\ lease = 0
    /\ message = End
    /\ queue = <<>>
    /\ receiver = Accepted
    /\ consumer = IF Accepted THEN "idle" ELSE "gone"
    /\ finished = FALSE
    /\ expected = Start
    /\ held = {}
    /\ answers = <<>>
    /\ greedy = FALSE

-----------------------------------------------------------------------------
(* The worker: check the token, pull, send *)

\* Bug: a cancelled worker checks the token again, where it should leave.
WorkerSpins ==
    /\ worker = "check"
    /\ cancelled
    /\ UNCHANGED vars

\* A worker that sees the token leaves without a message.
WorkerCancelled ==
    /\ worker = "check"
    /\ cancelled
    /\ worker' = "gone"
    /\ UNCHANGED <<limit, current, cancelled, source, lease, message, queue, receiver,
                   consumerVars>>

WorkerContinues ==
    /\ worker = "check"
    /\ ~cancelled
    /\ worker' = "pull"
    /\ UNCHANGED <<limit, current, cancelled, source, lease, message, queue, receiver,
                   consumerVars>>

\* LegacyBoundedSource::next_chunk checks the token again ...
PullCancelled ==
    /\ worker = "pull"
    /\ cancelled
    /\ worker' = "send"
    /\ message' = Error("cancelled")
    /\ UNCHANGED <<limit, current, cancelled, source, lease, queue, receiver, consumerVars>>

\* ... and reserves the maximum before it touches the wrapped source.
PullRefused ==
    /\ worker = "pull"
    /\ ~cancelled
    /\ current + MaxChunk > limit
    /\ worker' = "send"
    /\ message' = Error("budget")
    /\ UNCHANGED <<limit, current, cancelled, source, lease, queue, receiver, consumerVars>>

PullReserves ==
    /\ worker = "pull"
    /\ ~cancelled
    /\ current + MaxChunk <= limit
    /\ worker' = "read"
    /\ current' = current + MaxChunk
    /\ lease' = MaxChunk
    /\ UNCHANGED <<limit, cancelled, source, message, queue, receiver, consumerVars>>

\* The end, an error of the source, or a record the adapter rejects: the early
\* return drops the reservation.
SourceEnds ==
    /\ worker = "read"
    /\ worker' = "send"
    /\ message' = End
    /\ current' = current - lease
    /\ lease' = 0
    /\ UNCHANGED <<limit, cancelled, source, queue, receiver, consumerVars>>

SourceFails ==
    /\ worker = "read"
    /\ worker' = "send"
    /\ message' = Error("source")
    /\ current' = current - lease
    /\ lease' = 0
    /\ UNCHANGED <<limit, cancelled, source, queue, receiver, consumerVars>>

\* A record: the reservation shrinks to it and it takes the next identity.
SourceYields ==
    /\ worker = "read"
    /\ source.yielded < MaxRecords
    /\ \E points \in 1..MaxChunk, skip \in Skips :
          LET identity == [source.next EXCEPT !.sequence = @ + skip]
          IN  /\ message' = Item(identity, points)
              /\ source' = [yielded |-> source.yielded + 1, next |-> Advance(identity, points)]
              /\ current' = current - (lease - points)
              /\ lease' = points
    /\ worker' = "send"
    /\ UNCHANGED <<limit, cancelled, queue, receiver, consumerVars>>

\* Bug: the channel is unbounded.
SendUnbounded ==
    /\ worker = "send"
    /\ receiver
    /\ queue' = Append(queue, message)
    /\ lease' = 0
    /\ worker' = IF message.kind = "item" THEN "check" ELSE "gone"
    /\ UNCHANGED <<limit, current, cancelled, source, message, receiver, consumerVars>>

\* Bug: the worker goes on after it has sent an error.
SendGoesOn ==
    /\ worker = "send"
    /\ receiver
    /\ Len(queue) < Capacity
    /\ queue' = Append(queue, message)
    /\ lease' = 0
    /\ worker' = IF message.kind = "end" THEN "gone" ELSE "check"
    /\ UNCHANGED <<limit, current, cancelled, source, message, receiver, consumerVars>>

\* send blocks while the channel is full; the lease goes with the message.
Send ==
    /\ worker = "send"
    /\ receiver
    /\ Len(queue) < Capacity
    /\ queue' = Append(queue, message)
    /\ lease' = 0
    /\ worker' = IF message.kind = "item" THEN "check" ELSE "gone"
    /\ UNCHANGED <<limit, current, cancelled, source, message, receiver, consumerVars>>

\* Bug: the chunk that could not be sent is forgotten and never dropped.
SendFailsAndLeaks ==
    /\ worker = "send"
    /\ ~receiver
    /\ lease' = 0
    /\ worker' = "gone"
    /\ UNCHANGED <<limit, current, cancelled, source, message, queue, receiver, consumerVars>>

\* The receiver is gone: send returns the message, which is dropped.
SendFails ==
    /\ worker = "send"
    /\ ~receiver
    /\ current' = current - lease
    /\ lease' = 0
    /\ worker' = "gone"
    /\ UNCHANGED <<limit, cancelled, source, message, queue, receiver, consumerVars>>

Worker ==
    \/ WorkerCancelled \/ WorkerContinues
    \/ PullCancelled \/ PullRefused \/ PullReserves
    \/ SourceEnds \/ SourceFails \/ SourceYields
    \/ Send \/ SendFails

-----------------------------------------------------------------------------
(* The consumer: next_chunk *)

CallNext ==
    /\ consumer = "idle"
    /\ ~finished
    /\ Cardinality(held) <= MaxKept
    /\ consumer' = "recv"
    /\ greedy' = (greedy \/ held # {})
    /\ UNCHANGED <<limit, current, cancelled, workerVars, queue, receiver, finished, expected,
                   held, answers>>

ReceiveChunk ==
    /\ consumer = "recv"
    /\ queue # <<>>
    /\ Head(queue).kind = "item"
    /\ Head(queue).identity = expected
    /\ queue' = Tail(queue)
    /\ consumer' = "idle"
    /\ expected' = Advance(expected, Head(queue).points)
    /\ held' = held \cup {Head(queue)}
    /\ answers' = Append(answers, Head(queue))
    /\ UNCHANGED <<limit, current, cancelled, workerVars, receiver, finished, greedy>>

\* A misnumbered chunk cancels the stream and is dropped.
ReceiveMisnumbered ==
    /\ consumer = "recv"
    /\ queue # <<>>
    /\ Head(queue).kind = "item"
    /\ Head(queue).identity # expected
    /\ queue' = Tail(queue)
    /\ consumer' = "idle"
    /\ cancelled' = TRUE
    /\ current' = current - Leased(Head(queue))
    /\ answers' = Append(answers, Error("non-contiguous"))
    /\ UNCHANGED <<limit, workerVars, receiver, finished, expected, held, greedy>>

ReceiveError ==
    /\ consumer = "recv"
    /\ queue # <<>>
    /\ Head(queue).kind = "error"
    /\ queue' = Tail(queue)
    /\ consumer' = "idle"
    /\ answers' = Append(answers, Head(queue))
    /\ UNCHANGED <<limit, current, cancelled, workerVars, receiver, finished, expected, held,
                   greedy>>

ReceiveEnd ==
    /\ consumer = "recv"
    /\ queue # <<>>
    /\ Head(queue).kind = "end"
    /\ queue' = Tail(queue)
    /\ consumer' = "idle"
    /\ finished' = TRUE
    /\ answers' = Append(answers, End)
    /\ UNCHANGED <<limit, current, cancelled, workerVars, receiver, expected, held, greedy>>

\* recv fails once the channel is empty and the worker's sender is gone.
ReceiveClosed ==
    /\ consumer = "recv"
    /\ queue = <<>>
    /\ worker = "gone"
    /\ consumer' = "idle"
    /\ finished' = TRUE
    /\ answers' = Append(answers, Error("closed"))
    /\ UNCHANGED <<limit, current, cancelled, workerVars, queue, receiver, expected, held, greedy>>

-----------------------------------------------------------------------------
(* Dropping chunks, cancelling, dropping the source *)

DropChunk(c) ==
    /\ c \in held
    /\ held' = held \ {c}
    /\ current' = current - c.points
    /\ UNCHANGED <<limit, cancelled, workerVars, queue, receiver, consumer, finished, expected,
                   answers, greedy>>

Cancel ==
    /\ ~cancelled
    /\ cancelled' = TRUE
    /\ UNCHANGED <<limit, current, workerVars, queue, receiver, consumerVars>>

BeginDrop ==
    /\ consumer = "idle"
    /\ consumer' = "dropping"
    /\ cancelled' = TRUE
    /\ UNCHANGED <<limit, current, workerVars, queue, receiver, finished, expected, held,
                   answers, greedy>>

\* Bug: drop joins the worker before it drops the receiver.
JoinFirst ==
    /\ consumer = "dropping"
    /\ consumer' = "joining"
    /\ UNCHANGED <<limit, current, cancelled, workerVars, queue, receiver, finished, expected, held, answers, greedy>>

\* What the channel leases.
QueueBytes == Sum([i \in DOMAIN queue |-> Leased(queue[i])], DOMAIN queue)

\* Dropping the receiver discards what is queued and wakes a blocked sender.
DropReceiver ==
    /\ consumer = "dropping"
    /\ consumer' = "joining"
    /\ receiver' = FALSE
    /\ current' = current - QueueBytes
    /\ queue' = <<>>
    /\ UNCHANGED <<limit, cancelled, workerVars, finished, expected, held, answers, greedy>>

Join ==
    /\ consumer = "joining"
    /\ worker = "gone"
    /\ consumer' = "gone"
    /\ UNCHANGED <<limit, current, cancelled, workerVars, queue, receiver, finished, expected,
                   held, answers, greedy>>

Receive ==
    \/ ReceiveChunk \/ ReceiveMisnumbered \/ ReceiveError \/ ReceiveEnd \/ ReceiveClosed

Drop == BeginDrop \/ DropReceiver \/ Join

Next ==
    \/ Worker
    \/ CallNext \/ Receive
    \/ (\E c \in held : DropChunk(c))
    \/ Cancel
    \/ Drop

\* The worker's thread runs and the wrapped source answers; a consumer inside
\* next_chunk or inside drop runs on.  Calling, dropping and cancelling is the
\* user's choice.
Fairness == WF_vars(Worker) /\ WF_vars(Receive) /\ WF_vars(DropReceiver \/ Join)

Spec == Init /\ [][Next]_vars /\ Fairness

-----------------------------------------------------------------------------
Identity == [sequence : Nat, point_offset : Nat]
Items == [kind : {"item"}, identity : Identity, points : 1..MaxChunk]
Errors == [kind : {"error"},
           error : {"cancelled", "budget", "source", "non-contiguous", "closed"}]
Message == Items \cup Errors \cup {End}

TypeOK ==
    /\ limit \in Budgets
    /\ current \in 0..limit
    /\ cancelled \in BOOLEAN
    /\ source \in [yielded : 0..MaxRecords, next : Identity]
    /\ worker \in {"check", "pull", "read", "send", "gone"}
    /\ lease \in 0..MaxChunk
    /\ message \in Message
    /\ queue \in Seq(Message) /\ Len(queue) <= Capacity
    /\ receiver \in BOOLEAN
    /\ consumer \in {"idle", "recv", "dropping", "joining", "gone"}
    /\ finished \in BOOLEAN
    /\ expected \in Identity
    /\ held \in SUBSET Items
    /\ answers \in Seq(Message)
    /\ greedy \in BOOLEAN

\* What the consumer's chunks lease.
HeldBytes == Sum([c \in held |-> c.points], held)

\* Wherever a chunk is dropped - by the consumer, in a discarded queue, in a
\* failed send, on an early return - its bytes are returned exactly once.
LeasesAccounted == current = lease + QueueBytes + HeldBytes

\* The budget that try_new demands is enough: a consumer that drops each chunk
\* before it pulls the next never makes the worker fail for lack of memory.
EnoughForTheFrugal ==
    ~greedy => /\ message # Error("budget")
               /\ \A i \in DOMAIN answers : answers[i] # Error("budget")

\* The consumer sees a prefix of the stream, numbered from zero without gaps
\* whatever the source numbers it, then at most errors, then the end; the end
\* without an error before it means that every chunk was received.
StreamContract ==
    /\ \A i, j \in DOMAIN answers : i < j /\ answers[j].kind = "item" => answers[i].kind = "item"
    /\ \A i \in DOMAIN answers : answers[i].kind = "item" =>
          answers[i].identity = IF i = 1 THEN Start
                                ELSE Advance(answers[i - 1].identity, answers[i - 1].points)
    /\ (finished /\ \A i \in DOMAIN answers : answers[i].kind # "error") =>
          Len(answers) = source.yielded + 1

\* A pull is always answered: worker and consumer never wait for each other.
PullAnswered == (consumer = "recv") ~> (consumer = "idle")

\* Dropping the source always returns, also while the worker is blocked on a
\* full channel.
DropReturns == (consumer = "dropping") ~> (consumer = "gone")
=============================================================================

--------------------------- MODULE AtomicBatches ---------------------------
(***************************************************************************)
(* What the write queue (cmd/feed-reader/write_queue.go) promises, without *)
(* its channel, ticker, transaction, retries or replies.  Jobs wait in     *)
(* submission order.  The first few of them are settled together, in one   *)
(* step: either all of them become part of the database, in that order, or *)
(* none of them ever does.                                                 *)
(***************************************************************************)
EXTENDS Naturals, Sequences, Functions

CONSTANTS Job, MaxBatchSize

VARIABLES pending,      \* Seq(Job): submitted and not settled, oldest first
          log,          \* Seq(Job): the committed effects, in commit order
          lost,         \* Seq(Job): rolled back for good
          submitted     \* the jobs handed to the queue so far

vars == <<pending, log, lost, submitted>>

Init ==
  /\ pending = <<>>
  /\ log = <<>>
  /\ lost = <<>>
  /\ submitted = {}

\* A job object is handed over once.
Submit(j) ==
  /\ j \in Job \ submitted
  /\ submitted' = submitted \cup {j}
  /\ pending' = Append(pending, j)
  /\ UNCHANGED <<log, lost>>

\* The n oldest jobs commit together.
Commit(n) ==
  /\ n \in 1 .. MaxBatchSize /\ n <= Len(pending)
  /\ log' = log \o SubSeq(pending, 1, n)
  /\ pending' = SubSeq(pending, n + 1, Len(pending))
  /\ UNCHANGED <<lost, submitted>>

\* The n oldest jobs roll back together, and nobody keeps them.
Drop(n) ==
  /\ n \in 1 .. MaxBatchSize /\ n <= Len(pending)
  /\ lost' = lost \o SubSeq(pending, 1, n)
  /\ pending' = SubSeq(pending, n + 1, Len(pending))
  /\ UNCHANGED <<log, submitted>>

Next ==
  \/ \E j \in Job : Submit(j)
  \/ \E n \in 1 .. MaxBatchSize : Commit(n) \/ Drop(n)

Spec == Init /\ [][Next]_vars
=============================================================================

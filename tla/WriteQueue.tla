----------------------------- MODULE WriteQueue -----------------------------
(***************************************************************************)
(* cmd/feed-reader/write_queue.go: every background write of the server    *)
(* goes through one goroutine that batches jobs and runs each batch in one *)
(* SQLite transaction (store.WithTransaction, retried by store.WithRetry   *)
(* while the database is busy).  A SaveItemsJob of a synchronous refresh   *)
(* carries a result channel of capacity one that its requester reads once. *)
(*                                                                         *)
(* A job is a model value: what Execute writes is abstracted to the job    *)
(* appearing in the log of committed effects.                              *)
(***************************************************************************)
EXTENDS Naturals, Sequences, Functions

CONSTANTS Job,            \* the job objects that are ever created
          SyncJob,        \* those with a ResultChan
          MaxBatchSize,   \* WriteQueueConfig.MaxBatchSize
          MaxRetries,     \* maxRetries of store/retry.go
          MaxBusy         \* how often in a row another connection may hold
                          \* SQLite's write lock past the busy timeout

ASSUME WriteQueueAssumption ==
  /\ SyncJob \subseteq Job
  /\ MaxBatchSize \in Nat \ {0}
  /\ MaxRetries \in Nat \ {0}
  /\ MaxBusy \in Nat

VARIABLES jobs,         \* the buffered channel
          closed,       \* Stop has closed it
          batch,        \* the jobs received and not flushed
          worker,       \* where the goroutine of Start is
          draining,     \* it has seen the channel closed: its last flush
          attempt,      \* the transaction attempt of the flush, from 1
          executed,     \* jobs of the batch executed by the open transaction
          resultChan,   \* the contents of each job's ResultChan
          requester,    \* the goroutine that reads it
          submitted,    \* jobs handed to Submit
          log,          \* committed jobs, in commit order
          lost,         \* jobs of rolled-back batches
          panicked      \* Submit hit the closed channel: the process is dead

vars == <<jobs, closed, batch, worker, draining, attempt, executed,
          resultChan, requester, submitted, log, lost, panicked>>

Result == {"ok", "error"}

\* make(chan WriteQueueJob, cfg.MaxBatchSize*2)
JobsCap == 2 * MaxBatchSize

\* make(chan SaveItemsResult, 1), in fetchAndSaveSync
ResultCap == 1

TypeOK ==
  /\ jobs \in Seq(Job) /\ Len(jobs) <= JobsCap
  /\ closed \in BOOLEAN
  /\ batch \in Seq(Job) /\ Len(batch) <= MaxBatchSize
  /\ worker \in {"select", "begin", "exec", "stopped"}
  /\ draining \in BOOLEAN
  /\ attempt \in 0 .. MaxRetries
  /\ executed \in 0 .. Len(batch)
  /\ resultChan \in [SyncJob -> Seq(Result)]
  /\ \A j \in SyncJob : Len(resultChan[j]) <= ResultCap
  /\ requester \in [SyncJob -> Result \cup {"waiting", "gone"}]
  /\ submitted \in SUBSET Job
  /\ log \in Seq(Job)
  /\ lost \in Seq(Job)
  /\ panicked \in BOOLEAN

Init ==
  /\ jobs = <<>> /\ closed = FALSE
  /\ batch = <<>> /\ worker = "select" /\ draining = FALSE
  /\ attempt = 0 /\ executed = 0
  /\ resultChan = [j \in SyncJob |-> <<>>]
  /\ requester = [j \in SyncJob |-> "waiting"]
  /\ submitted = {} /\ log = <<>> /\ lost = <<>>
  /\ panicked = FALSE

-----------------------------------------------------------------------------
(* The callers: FetchAndSave, fetchAndSaveSync, markFetched, main.         *)

\* Mutated Submit: a job that finds a whole batch waiting is dropped.
SubmitOrDrop(j) ==
  /\ ~panicked /\ ~closed
  /\ j \in Job \ submitted
  /\ jobs' = IF Len(jobs) < MaxBatchSize THEN Append(jobs, j) ELSE jobs
  /\ submitted' = submitted \cup {j}
  /\ UNCHANGED <<closed, batch, worker, draining, attempt, executed,
                 resultChan, requester, log, lost, panicked>>

\* A send on the channel: it waits while the buffer is full.
Submit(j) ==
  /\ ~panicked /\ ~closed
  /\ j \in Job \ submitted
  /\ Len(jobs) < JobsCap
  /\ jobs' = Append(jobs, j)
  /\ submitted' = submitted \cup {j}
  /\ UNCHANGED <<closed, batch, worker, draining, attempt, executed,
                 resultChan, requester, log, lost, panicked>>

\* A send on the closed channel panics, and nothing recovers it.
SubmitClosed(j) ==
  /\ ~panicked /\ closed
  /\ j \in Job \ submitted
  /\ panicked' = TRUE
  /\ UNCHANGED <<jobs, closed, batch, worker, draining, attempt, executed,
                 resultChan, requester, submitted, log, lost>>

\* The requester's select takes the result ...
TakeResult(j) ==
  /\ ~panicked
  /\ j \in submitted
  /\ requester[j] = "waiting" /\ resultChan[j] # <<>>
  /\ requester' = [requester EXCEPT ![j] = Head(resultChan[j])]
  /\ resultChan' = [resultChan EXCEPT ![j] = Tail(@)]
  /\ UNCHANGED <<jobs, closed, batch, worker, draining, attempt, executed,
                 submitted, log, lost, panicked>>

\* ... or its context ends first, and nobody reads the channel any more.
Abandon(j) ==
  /\ ~panicked
  /\ j \in submitted
  /\ requester[j] = "waiting"
  /\ requester' = [requester EXCEPT ![j] = "gone"]
  /\ UNCHANGED <<jobs, closed, batch, worker, draining, attempt, executed,
                 resultChan, submitted, log, lost, panicked>>

Stop ==
  /\ ~panicked /\ ~closed
  /\ closed' = TRUE
  /\ UNCHANGED <<jobs, batch, worker, draining, attempt, executed,
                 resultChan, requester, submitted, log, lost, panicked>>

-----------------------------------------------------------------------------
(* The loop of Start.                                                      *)

\* Mutated Receive: the batch is flushed one job too late.
ReceiveOneMore ==
  /\ ~panicked /\ worker = "select" /\ jobs # <<>>
  /\ batch' = Append(batch, Head(jobs))
  /\ jobs' = Tail(jobs)
  /\ worker' = IF Len(batch) + 1 > MaxBatchSize THEN "begin" ELSE "select"
  /\ UNCHANGED <<closed, draining, attempt, executed, resultChan, requester,
                 submitted, log, lost, panicked>>

\* A job is received; a full batch is flushed before the next select.
Receive ==
  /\ ~panicked /\ worker = "select" /\ jobs # <<>>
  /\ batch' = Append(batch, Head(jobs))
  /\ jobs' = Tail(jobs)
  /\ worker' = IF Len(batch) + 1 >= MaxBatchSize THEN "begin" ELSE "select"
  /\ UNCHANGED <<closed, draining, attempt, executed, resultChan, requester,
                 submitted, log, lost, panicked>>

\* Mutated Tick: a single collected job is not worth a flush.
TickOfTwo ==
  /\ ~panicked /\ worker = "select" /\ Len(batch) > 1
  /\ worker' = "begin"
  /\ UNCHANGED <<jobs, closed, batch, draining, attempt, executed, resultChan,
                 requester, submitted, log, lost, panicked>>

\* The ticker flushes what has been collected, if anything has.
Tick ==
  /\ ~panicked /\ worker = "select" /\ Len(batch) > 0
  /\ worker' = "begin"
  /\ UNCHANGED <<jobs, closed, batch, draining, attempt, executed, resultChan,
                 requester, submitted, log, lost, panicked>>

\* A closed channel is seen as closed only when its buffer is empty.  The
\* last flush returns at once when there is nothing to flush.
ReceiveClosed ==
  /\ ~panicked /\ worker = "select" /\ closed /\ jobs = <<>>
  /\ draining' = TRUE
  /\ worker' = IF batch = <<>> THEN "stopped" ELSE "begin"
  /\ UNCHANGED <<jobs, closed, batch, attempt, executed, resultChan, requester,
                 submitted, log, lost, panicked>>

-----------------------------------------------------------------------------
(* flush: WithTransaction(for job := range batch { job.Execute }).         *)

Begin ==
  /\ ~panicked /\ worker = "begin"
  /\ worker' = "exec"
  /\ attempt' = attempt + 1
  /\ executed' = 0
  /\ UNCHANGED <<jobs, closed, batch, draining, resultChan, requester,
                 submitted, log, lost, panicked>>

\* Mutated Reply: an unbuffered ResultChan needs a requester that reads.
ReplyUnbuffered(j, r) ==
  IF j \in SyncJob
  THEN /\ requester[j] = "waiting" /\ resultChan[j] = <<>>
       /\ resultChan' = [resultChan EXCEPT ![j] = <<r>>]
  ELSE UNCHANGED resultChan

\* Execute sends its result from inside the transaction, and blocks while
\* the channel holds a result nobody has read.
Reply(j, r) ==
  IF j \in SyncJob
  THEN /\ Len(resultChan[j]) < ResultCap
       /\ resultChan' = [resultChan EXCEPT ![j] = Append(@, r)]
  ELSE UNCHANGED resultChan

\* Mutated NextBatch: the batch is not made anew.
NextBatchSame ==
  /\ batch' = batch
  /\ attempt' = 0
  /\ executed' = 0
  /\ worker' = IF draining THEN "stopped" ELSE "select"

\* After the transaction: the batch is forgotten whatever came of it.
NextBatch ==
  /\ batch' = <<>>
  /\ attempt' = 0
  /\ executed' = 0
  /\ worker' = IF draining THEN "stopped" ELSE "select"

\* Mutated GiveUp: a failed batch is kept for the next tick.
GiveUpKeepsBatch ==
  /\ worker' = "select" /\ attempt' = 0 /\ executed' = 0
  /\ UNCHANGED <<batch, log, lost>>

\* Mutated GiveUp: without the Rollback, what ran before the error stays.
GiveUpKeepsPrefix ==
  /\ log' = log \o SubSeq(batch, 1, executed)
  /\ lost' = lost \o SubSeq(batch, executed + 1, Len(batch))
  /\ NextBatch

\* Rollback, with an error that WithRetry does not retry: it is logged.
GiveUp ==
  /\ lost' = lost \o batch
  /\ NextBatch
  /\ UNCHANGED log

\* BeginTx fails.  A deferred BEGIN takes no lock, so that it does not meet BUSY.
BeginError ==
  /\ ~panicked /\ worker = "begin"
  /\ GiveUp
  /\ UNCHANGED <<jobs, closed, draining, resultChan, requester, submitted,
                 panicked>>

\* Mutated ExecuteOk: the requester is answered only when something failed.
ExecuteOkSilent ==
  /\ ~panicked /\ worker = "exec" /\ executed < Len(batch)
  /\ executed' = executed + 1
  /\ UNCHANGED <<jobs, closed, batch, worker, draining, attempt, resultChan,
                 requester, submitted, log, lost, panicked>>

ExecuteOk ==
  /\ ~panicked /\ worker = "exec" /\ executed < Len(batch)
  /\ Reply(batch[executed + 1], "ok")
  /\ executed' = executed + 1
  /\ UNCHANGED <<jobs, closed, batch, worker, draining, attempt, requester,
                 submitted, log, lost, panicked>>

\* Any error but BUSY: the deferred Rollback undoes the whole batch.
ExecuteError ==
  /\ ~panicked /\ worker = "exec" /\ executed < Len(batch)
  /\ Reply(batch[executed + 1], "error")
  /\ GiveUp
  /\ UNCHANGED <<jobs, closed, draining, requester, submitted, panicked>>

\* BUSY meets the first write of the transaction, the one that takes the
\* write lock.  The job reports it as its result; WithRetry rolls back, waits
\* and runs the batch again, or gives up at the last attempt.
ExecuteBusy ==
  /\ ~panicked /\ worker = "exec" /\ batch # <<>> /\ executed = 0
  /\ attempt <= MaxBusy
  /\ Reply(batch[1], "error")
  /\ IF attempt = MaxRetries
     THEN GiveUp
     ELSE /\ worker' = "begin"
          /\ UNCHANGED <<batch, attempt, executed, log, lost>>
  /\ UNCHANGED <<jobs, closed, draining, requester, submitted, panicked>>

Commit ==
  /\ ~panicked /\ worker = "exec" /\ batch # <<>> /\ executed = Len(batch)
  /\ log' = log \o batch
  /\ NextBatch
  /\ UNCHANGED <<jobs, closed, draining, resultChan, requester, submitted,
                 lost, panicked>>

CommitError ==
  /\ ~panicked /\ worker = "exec" /\ batch # <<>> /\ executed = Len(batch)
  /\ GiveUp
  /\ UNCHANGED <<jobs, closed, draining, resultChan, requester, submitted,
                 panicked>>

\* writeQueueWg.Wait() returns, or the process has died: nothing moves.
Halted ==
  /\ worker = "stopped" \/ panicked
  /\ UNCHANGED vars

Flush ==
  \/ Begin \/ BeginError
  \/ ExecuteOk \/ ExecuteError \/ ExecuteBusy
  \/ Commit \/ CommitError

Loop == Receive \/ Tick \/ ReceiveClosed \/ Flush

Next ==
  \/ \E j \in Job : Submit(j) \/ SubmitClosed(j)
  \/ \E j \in SyncJob : TakeResult(j) \/ Abandon(j)
  \/ Stop
  \/ Loop
  \/ Halted

Spec == Init /\ [][Next]_vars

\* The goroutine of Start and each requester blocked in its select are
\* scheduled; nobody promises that a job is submitted, that Stop is called or
\* that a client goes away.
Fairness == WF_vars(Loop) /\ \A j \in SyncJob : WF_vars(TakeResult(j))

FairSpec == Spec /\ Fairness

-----------------------------------------------------------------------------
(* Properties.                                                             *)

Settled == Range(log) \cup Range(lost)

\* No job takes effect twice, is both lost and committed, or is committed
\* while it still waits: a retried transaction starts from its batch again,
\* and a flushed batch is forgotten (write_queue.go:71-74, feed_store.go:183).
AppliedOnce == IsInjective(log \o lost \o batch \o jobs)

\* No job falls between the channel, the batch and the transaction: what was
\* submitted is always in exactly one of them or settled, the final flush
\* included (write_queue.go:65-68).
NothingForgotten ==
  submitted = Settled \cup Range(batch) \cup Range(jobs)

\* The requester of a committed SaveItemsJob can always find out: it has been
\* answered, or an answer waits in its channel, or it has left
\* (write_queue.go:240-242, fetcher_service.go:129-137).
CommittedIsAnswered ==
  \A j \in SyncJob \cap Range(log) :
    requester[j] = "waiting" => resultChan[j] # <<>>

\* A result exists only for a job that some transaction has executed: never
\* for one still in the channel, nor for one in a batch that is still being
\* collected.
AnswerOnlyAfterExecution ==
  \A j \in SyncJob :
    resultChan[j] # <<>> \/ requester[j] \in Result
      => /\ j \notin Range(jobs)
         /\ j \in Range(batch) => attempt > 0

\* The worker goroutine ends only after it has emptied the channel and its
\* batch, so that at the end of the process every job is settled.
StoppedIsEmpty ==
  worker = "stopped" => closed /\ jobs = <<>> /\ batch = <<>>

\* The queue implements the abstract one: first come first served, whole
\* batches of at most MaxBatchSize, committed or lost in one step.
Batches == INSTANCE AtomicBatches WITH pending <- batch \o jobs
BatchesAreAtomic == Batches!Spec

\* The one way for the worker to stop: Execute sends a result again, to a
\* requester that has taken one already or has left (write_queue.go:240).
StuckForGood ==
  /\ worker = "exec" /\ executed < Len(batch)
  /\ LET j == batch[executed + 1]
     IN j \in SyncJob /\ requester[j] # "waiting" /\ Len(resultChan[j]) = ResultCap

\* Every submitted job is committed or lost in the end, whatever the database,
\* the requesters and main do, unless the process dies or the worker is stuck.
EveryJobSettles ==
  \A j \in Job : j \in submitted ~> (j \in Settled \/ panicked \/ StuckForGood)

\* And then Stop ends the worker.
StopEndsWorker == closed ~> (worker = "stopped" \/ panicked \/ StuckForGood)

\* A requester that stays is answered, unless its job was lost: then it may be
\* a job behind the one that failed, which is never executed
\* (write_queue.go:94-101, fetcher_service.go:129-137).
AnsweredUnlessLost ==
  \A j \in SyncJob : j \in submitted ~>
    (requester[j] # "waiting" \/ j \in Range(lost) \/ panicked \/ StuckForGood)

\* main.go:150 "Stop write queue and wait for final flush": the wait ends.
FinalFlushEnds == closed ~> (worker = "stopped" \/ panicked)
=============================================================================

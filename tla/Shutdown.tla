------------------------------ MODULE Shutdown ------------------------------
(***************************************************************************)
(* How the process ends (cmd/feed-reader/main.go:136-155): the root        *)
(* context is cancelled by a signal, then main shuts the HTTP server down, *)
(* closes the worker pool and waits for it, closes the write queue and     *)
(* waits for it.  The scheduler's goroutine is not waited for, and the     *)
(* goroutines of a refresh may outlive the five seconds the server gets.   *)
(*                                                                         *)
(* A job of the write queue is known by the refresh that waits for its     *)
(* result, if one does; how a batch is executed, retried, committed or     *)
(* lost is the subject of WriteQueue.                                      *)
(***************************************************************************)
EXTENDS Naturals, Sequences, Functions

CONSTANTS Feed,
          Worker,       \* the goroutines of the worker pool
          Request,      \* refreshes of one feed each
          NoRequest,    \* a job without ResultChan
          MaxBatchSize  \* WriteQueueConfig.MaxBatchSize

ASSUME ShutdownAssumption ==
  /\ MaxBatchSize \in Nat \ {0}
  /\ Worker \cap Request = {} /\ NoRequest \notin Request

VARIABLES ctxDone,      \* the signal has arrived
          main,         \* the step of main
          scheduler, todo,          \* FetchAllFeeds and its remaining feeds
          tasksClosed, worker,      \* the pool
          request,
          jobs, jobsClosed,         \* the channel of the write queue
          batch, queue, \* the jobs its goroutine has received, and where it is
          panicked      \* a send on a closed channel: the process is dead

poolVars == <<tasksClosed, worker>>
queueVars == <<jobsClosed, batch, queue>>
vars == <<ctxDone, main, scheduler, todo, poolVars, request, jobs, queueVars,
          panicked>>

Jobs == Request \cup {NoRequest}

\* make(chan WriteQueueJob, cfg.MaxBatchSize*2)
JobsCap == 2 * MaxBatchSize

TypeOK ==
  /\ ctxDone \in BOOLEAN /\ tasksClosed \in BOOLEAN
  /\ jobsClosed \in BOOLEAN /\ panicked \in BOOLEAN
  /\ main \in {"serving", "http", "close", "pool", "stop", "queue", "exit"}
  /\ scheduler \in {"sleep", "round", "defer", "send", "stopped"}
  /\ todo \in SUBSET Feed
  /\ worker \in [Worker -> {"idle", "fetch", "items", "mark", "exited"}]
  /\ request \in [Request -> {"none", "fetch", "items", "await", "mark", "done"}]
  /\ jobs \in Seq(Jobs) /\ Len(jobs) <= JobsCap
  /\ batch \in Seq(Jobs) /\ Len(batch) <= MaxBatchSize
  /\ queue \in {"select", "flush", "stuck", "stopped"}

Init ==
  /\ ctxDone = FALSE /\ main = "serving"
  /\ scheduler = "sleep" /\ todo = {}
  /\ tasksClosed = FALSE /\ worker = [w \in Worker |-> "idle"]
  /\ request = [r \in Request |-> "none"]
  /\ jobs = <<>> /\ jobsClosed = FALSE
  /\ batch = <<>> /\ queue = "select"
  /\ panicked = FALSE

Alive == ~panicked /\ main # "exit"

-----------------------------------------------------------------------------
(* Sends on the two channels.  A sender blocked when the channel is closed *)
(* panics just like one that comes later.                                  *)

\* Mutated Submit: append instead of a send that waits.
SubmitUnbounded(j) ==
  /\ ~jobsClosed
  /\ jobs' = Append(jobs, j)
  /\ UNCHANGED panicked

\* The send on jobs goes through.
Submit(j) ==
  /\ ~jobsClosed /\ Len(jobs) < JobsCap
  /\ jobs' = Append(jobs, j)
  /\ UNCHANGED panicked

SubmitPanics ==
  /\ jobsClosed
  /\ panicked' = TRUE
  /\ UNCHANGED jobs

-----------------------------------------------------------------------------
(* The scheduler: Scheduler.Start and FetchAllFeeds.                       *)

\* ListFeedsToFetch fails once the context is done.
BeginRound ==
  /\ Alive /\ scheduler = "sleep" /\ ~ctxDone
  /\ todo' \in SUBSET Feed
  /\ scheduler' = "round"
  /\ UNCHANGED <<ctxDone, main, poolVars, request, jobs, queueVars, panicked>>

SchedulerStops ==
  /\ Alive /\ scheduler = "sleep" /\ ctxDone
  /\ scheduler' = "stopped"
  /\ UNCHANGED <<ctxDone, main, todo, poolVars, request, jobs, queueVars,
                 panicked>>

\* ListActiveIgnoreWindowsForFeed fails once the context is done, and the
\* feed is skipped; it is, too, when the query fails for another reason.
CheckWindows ==
  /\ Alive /\ scheduler = "round" /\ todo # {}
  /\ \E f \in todo : todo' = todo \ {f}
  /\ \/ UNCHANGED scheduler
     \/ ~ctxDone /\ scheduler' \in {"defer", "send"}
  /\ UNCHANGED <<ctxDone, main, poolVars, request, jobs, queueVars, panicked>>

EndRound ==
  /\ Alive /\ scheduler = "round" /\ todo = {}
  /\ scheduler' = "sleep"
  /\ UNCHANGED <<ctxDone, main, todo, poolVars, request, jobs, queueVars,
                 panicked>>

DeferFeed ==
  /\ Alive /\ scheduler = "defer"
  /\ \/ Submit(NoRequest) /\ scheduler' = "round"
     \/ SubmitPanics /\ UNCHANGED scheduler
  /\ UNCHANGED <<ctxDone, main, todo, poolVars, request, queueVars>>

\* The channel of tasks is unbuffered: the send needs an idle worker.  A fetch
\* that begins with its context done fails at once and submits nothing.
AddTask(w) ==
  /\ Alive /\ scheduler = "send" /\ ~tasksClosed
  /\ worker[w] = "idle"
  /\ worker' = IF ctxDone THEN worker ELSE [worker EXCEPT ![w] = "fetch"]
  /\ scheduler' = "round"
  /\ UNCHANGED <<ctxDone, main, todo, tasksClosed, request, jobs, queueVars,
                 panicked>>

AddTaskPanics ==
  /\ Alive /\ scheduler = "send" /\ tasksClosed
  /\ panicked' = TRUE
  /\ UNCHANGED <<ctxDone, main, scheduler, todo, poolVars, request, jobs,
                 queueVars>>

-----------------------------------------------------------------------------
(* The workers of the pool: FetchAndSave, and the end of their range loop. *)

\* A document with items, one without or a 304, or an error; the context of
\* the task is the root context, so that the signal breaks a fetch off.
FetchEnds(w) ==
  /\ Alive /\ worker[w] = "fetch"
  /\ \E s \in {"items", "mark", "idle"} : worker' = [worker EXCEPT ![w] = s]
  /\ UNCHANGED <<ctxDone, main, scheduler, todo, tasksClosed, request, jobs,
                 queueVars, panicked>>

WorkerSubmits(w) ==
  /\ Alive /\ worker[w] \in {"items", "mark"}
  /\ \/ /\ Submit(NoRequest)
        /\ worker' = [worker EXCEPT ![w] = IF @ = "items" THEN "mark" ELSE "idle"]
     \/ SubmitPanics /\ UNCHANGED worker
  /\ UNCHANGED <<ctxDone, main, scheduler, todo, tasksClosed, request,
                 queueVars>>

WorkerExits(w) ==
  /\ Alive /\ worker[w] = "idle" /\ tasksClosed
  /\ worker' = [worker EXCEPT ![w] = "exited"]
  /\ UNCHANGED <<ctxDone, main, scheduler, todo, tasksClosed, request, jobs,
                 queueVars, panicked>>

-----------------------------------------------------------------------------
(* Refreshes: fetchAndSaveSync, in goroutines the handler waits for.  The  *)
(* context is that of the request, not the root context.                   *)

\* New connections are accepted until Shutdown closes the listener.
Accept(r) ==
  /\ Alive /\ main = "serving" /\ request[r] = "none"
  /\ request' = [request EXCEPT ![r] = "fetch"]
  /\ UNCHANGED <<ctxDone, main, scheduler, todo, poolVars, jobs, queueVars,
                 panicked>>

RefreshEnds(r) ==
  /\ Alive /\ request[r] = "fetch"
  /\ \E s \in {"items", "mark", "done"} : request' = [request EXCEPT ![r] = s]
  /\ UNCHANGED <<ctxDone, main, scheduler, todo, poolVars, jobs, queueVars,
                 panicked>>

RefreshSubmits(r) ==
  /\ Alive /\ request[r] \in {"items", "mark"}
  /\ \/ /\ Submit(IF request[r] = "items" THEN r ELSE NoRequest)
        /\ request' = [request EXCEPT ![r] = IF @ = "items" THEN "await" ELSE "done"]
     \/ SubmitPanics /\ UNCHANGED request
  /\ UNCHANGED <<ctxDone, main, scheduler, todo, poolVars, queueVars>>

\* The job has been executed, or the client has gone or got an error.
RefreshAnswered(r) ==
  /\ Alive /\ request[r] = "await"
  /\ \/ /\ r \notin Range(jobs)
        /\ r \in Range(batch) => queue \in {"flush", "stuck"}
        /\ request' = [request EXCEPT ![r] = "mark"]
     \/ request' = [request EXCEPT ![r] = "done"]
  /\ UNCHANGED <<ctxDone, main, scheduler, todo, poolVars, jobs, queueVars,
                 panicked>>

-----------------------------------------------------------------------------
(* The write queue.                                                        *)

\* A full batch is flushed before the next job is received.
Receive ==
  /\ Alive /\ queue = "select" /\ jobs # <<>>
  /\ batch' = Append(batch, Head(jobs))
  /\ jobs' = Tail(jobs)
  /\ queue' = IF Len(batch) + 1 >= MaxBatchSize THEN "flush" ELSE "select"
  /\ UNCHANGED <<ctxDone, main, scheduler, todo, poolVars, request, jobsClosed,
                 panicked>>

\* The ticker, or the channel seen closed and empty, flushes what is there.
Flush ==
  /\ Alive /\ queue = "select" /\ batch # <<>>
  /\ queue' = "flush"
  /\ UNCHANGED <<ctxDone, main, scheduler, todo, poolVars, request, jobs,
                 jobsClosed, batch, panicked>>

\* The batch is committed or lost.
Settle ==
  /\ Alive /\ queue = "flush"
  /\ batch' = <<>> /\ queue' = "select"
  /\ UNCHANGED <<ctxDone, main, scheduler, todo, poolVars, request, jobs,
                 jobsClosed, panicked>>

\* BUSY, which meets the first write, has made the batch run again, and its
\* first job sends a result to a ResultChan that is full, whose requester has
\* taken one or has left: the send blocks for good.
Block ==
  /\ Alive /\ queue = "flush"
  /\ Head(batch) \in Request /\ request[Head(batch)] # "await"
  /\ queue' = "stuck"
  /\ UNCHANGED <<ctxDone, main, scheduler, todo, poolVars, request, jobs,
                 jobsClosed, batch, panicked>>

QueueStops ==
  /\ Alive /\ queue = "select" /\ jobsClosed /\ jobs = <<>> /\ batch = <<>>
  /\ queue' = "stopped"
  /\ UNCHANGED <<ctxDone, main, scheduler, todo, poolVars, request, jobs,
                 jobsClosed, batch, panicked>>

-----------------------------------------------------------------------------
(* main.                                                                   *)

Signal ==
  /\ Alive /\ ~ctxDone
  /\ ctxDone' = TRUE
  /\ UNCHANGED <<main, scheduler, todo, poolVars, request, jobs, queueVars,
                 panicked>>

\* server.Shutdown closes the listeners ...
ServerShutdown ==
  /\ Alive /\ main = "serving" /\ ctxDone
  /\ main' = "http"
  /\ UNCHANGED <<ctxDone, scheduler, todo, poolVars, request, jobs, queueVars,
                 panicked>>

\* ... and returns when no request is active, or after five seconds.
ServerStopped ==
  /\ Alive /\ main = "http"
  /\ \A r \in Request : request[r] \in {"none", "done"}
  /\ main' = "close"
  /\ UNCHANGED <<ctxDone, scheduler, todo, poolVars, request, jobs, queueVars,
                 panicked>>

ServerTimeout ==
  /\ Alive /\ main = "http"
  /\ main' = "close"
  /\ UNCHANGED <<ctxDone, scheduler, todo, poolVars, request, jobs, queueVars,
                 panicked>>

\* Mutated ClosePool: the pool's Wait returns without waiting.
ClosePoolNoWait ==
  /\ Alive /\ main = "close"
  /\ tasksClosed' = TRUE
  /\ main' = "stop"
  /\ UNCHANGED <<ctxDone, scheduler, todo, worker, request, jobs, queueVars,
                 panicked>>

\* Mutated ClosePool: it is left to the caller to close the channel.
ClosePoolByCaller ==
  /\ Alive /\ main = "close"
  /\ main' = "pool"
  /\ UNCHANGED <<ctxDone, scheduler, todo, poolVars, request, jobs, queueVars,
                 panicked>>

\* WorkerPool.Wait closes the channel of tasks ...
ClosePool ==
  /\ Alive /\ main = "close"
  /\ tasksClosed' = TRUE
  /\ main' = "pool"
  /\ UNCHANGED <<ctxDone, scheduler, todo, worker, request, jobs, queueVars,
                 panicked>>

\* ... and waits for the workers.
PoolStopped ==
  /\ Alive /\ main = "pool"
  /\ \A w \in Worker : worker[w] = "exited"
  /\ main' = "stop"
  /\ UNCHANGED <<ctxDone, scheduler, todo, poolVars, request, jobs, queueVars,
                 panicked>>

StopQueue ==
  /\ Alive /\ main = "stop"
  /\ jobsClosed' = TRUE
  /\ main' = "queue"
  /\ UNCHANGED <<ctxDone, scheduler, todo, poolVars, request, jobs, batch, queue,
                 panicked>>

\* Mutated Exit: without writeQueueWg.Wait().
ExitNoWait ==
  /\ Alive /\ main = "queue"
  /\ main' = "exit"
  /\ UNCHANGED <<ctxDone, scheduler, todo, poolVars, request, jobs, queueVars,
                 panicked>>

\* writeQueueWg.Wait() returns, and main.
Exit ==
  /\ Alive /\ main = "queue" /\ queue = "stopped"
  /\ main' = "exit"
  /\ UNCHANGED <<ctxDone, scheduler, todo, poolVars, request, jobs, queueVars,
                 panicked>>

\* The process has ended, or main may wait for a stuck queue for ever.
Halted == (~Alive \/ queue = "stuck") /\ UNCHANGED vars

SchedulerStep ==
  \/ BeginRound \/ SchedulerStops \/ CheckWindows \/ EndRound \/ DeferFeed
  \/ AddTaskPanics \/ \E w \in Worker : AddTask(w)

WorkerStep(w) == FetchEnds(w) \/ WorkerSubmits(w) \/ WorkerExits(w)

RequestStep(r) == RefreshEnds(r) \/ RefreshSubmits(r) \/ RefreshAnswered(r)

QueueStep == Receive \/ Flush \/ Settle \/ Block \/ QueueStops

MainStep ==
  \/ ServerShutdown \/ ServerStopped \/ ServerTimeout \/ ClosePool
  \/ PoolStopped \/ StopQueue \/ Exit

Next ==
  \/ Signal \/ MainStep \/ SchedulerStep \/ QueueStep \/ Halted
  \/ \E w \in Worker : WorkerStep(w)
  \/ \E r \in Request : Accept(r) \/ RequestStep(r)

Spec == Init /\ [][Next]_vars

\* Every goroutine of the server itself is scheduled, and a fetch whose context
\* is done ends.  Before the signal a fetch may hang, for the HTTP client has
\* no timeout, and a refresh may do so even after it.
Fairness ==
  /\ WF_vars(MainStep) /\ WF_vars(SchedulerStep) /\ WF_vars(QueueStep)
  /\ \A w \in Worker : WF_vars(ctxDone /\ WorkerStep(w))

FairSpec == Spec /\ Fairness

-----------------------------------------------------------------------------
(* Properties.                                                             *)

\* The queue is closed only after the pool is empty, so that no worker ever
\* submits to a closed queue and none is cut off between its items and its
\* mark (main.go:147-151).
QueueOutlivesPool == jobsClosed => \A w \in Worker : worker[w] = "exited"

\* A process that ends by itself has settled every job, whoever submitted it
\* and however late (main.go:150-152).
ExitMeansFlushed == main = "exit" => jobs = <<>> /\ batch = <<>>

\* No send panics before the signal and before main closes the tasks: a process
\* that was not told to end does not die of its channels (main.go:136-155).
PanicsAreLate == panicked => ctxDone /\ tasksClosed

\* And none of the workers' sends ever does: what main does not wait for, the
\* scheduler and the refreshes that outlive the server, is all there is to
\* kill it (main.go:147-151, ShutdownPanic).
WorkersNeverPanic == [][\A w \in Worker : WorkerStep(w) => ~panicked']_vars

\* The signal ends the process, although fetches, senders on full channels and
\* a scheduler nobody waits for are in its way, unless the queue's goroutine
\* waits for ever to send a result (main.go:136-155, write_queue.go:240).
ShutdownEnds == ctxDone ~> (~Alive \/ queue = "stuck")

\* main.go:150 "Stop write queue and wait for final flush (ensures all pending
\* writes are committed)": however the process ends, no job is left behind.
NoPendingWritesAtEnd == ~Alive => jobs = <<>> /\ batch = <<>>
=============================================================================

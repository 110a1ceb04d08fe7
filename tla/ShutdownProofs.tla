--------------------------- MODULE ShutdownProofs ---------------------------
(***************************************************************************)
(* Proofs about Shutdown: the types, and that the steps of main come in an *)
(* order that lets no worker meet a closed queue and no ordinary exit      *)
(* leave a job behind.                                                     *)
(***************************************************************************)
EXTENDS Shutdown, SequenceTheorems, TLAPS

(***************************************************************************)
(* TypeOK is inductive.                                                    *)
(***************************************************************************)

\* A send that goes through stays within the buffer.
LEMMA SubmitType ==
  ASSUME TypeOK, NEW j \in Jobs, Submit(j)
  PROVE  /\ jobs' \in Seq(Jobs) /\ Len(jobs') <= JobsCap
         /\ panicked' = panicked
<1>1. jobs \in Seq(Jobs) /\ Len(jobs) \in Nat /\ Len(jobs) < JobsCap
  BY LenProperties DEF TypeOK, Submit
<1>2. jobs' \in Seq(Jobs) /\ Len(jobs') = Len(jobs) + 1
  BY <1>1, AppendProperties DEF Submit
<1> QED
  BY <1>1, <1>2, ShutdownAssumption DEF Submit, JobsCap

\* A goroutine that receives has room for one more job in its batch.
Collecting == queue = "select" => Len(batch) < MaxBatchSize

\* The initial state is well typed, and its batch has room.
LEMMA TypeInit == Init => TypeOK /\ Collecting
<1> SUFFICES ASSUME Init PROVE TypeOK /\ Collecting
  OBVIOUS
<1>1. /\ jobs \in Seq(Jobs) /\ Len(jobs) = 0
      /\ batch \in Seq(Jobs) /\ Len(batch) = 0
  BY EmptySeq DEF Init
<1>2. /\ ctxDone \in BOOLEAN /\ tasksClosed \in BOOLEAN
      /\ jobsClosed \in BOOLEAN /\ panicked \in BOOLEAN
  BY DEF Init
<1>3. Len(jobs) <= JobsCap /\ Len(batch) <= MaxBatchSize
  BY <1>1, ShutdownAssumption DEF JobsCap
<1>4. /\ worker \in [Worker -> {"idle", "fetch", "items", "mark", "exited"}]
      /\ request \in [Request -> {"none", "fetch", "items", "await", "mark", "done"}]
  BY DEF Init
<1> QED
  BY <1>1, <1>2, <1>3, <1>4, ShutdownAssumption DEF Init, TypeOK, Collecting

\* Every step keeps the types.
LEMMA TypeStep ==
  ASSUME TypeOK, Collecting, [Next]_vars
  PROVE  TypeOK'
<1> USE DEF poolVars, queueVars
<1>1. CASE SchedulerStep
  <2>1. CASE DeferFeed
    <3>1. CASE Submit(NoRequest)
      BY <2>1, <3>1, SubmitType DEF DeferFeed, TypeOK, Jobs
    <3>2. CASE SubmitPanics
      BY <2>1, <3>2 DEF DeferFeed, SubmitPanics, TypeOK
    <3> QED
      BY <2>1, <3>1, <3>2 DEF DeferFeed
  <2>2. ASSUME NEW w \in Worker, AddTask(w) PROVE TypeOK'
    BY <2>2 DEF AddTask, TypeOK
  <2>3. CASE BeginRound \/ CheckWindows
    BY <2>3 DEF BeginRound, CheckWindows, TypeOK
  <2>4. CASE SchedulerStops \/ EndRound \/ AddTaskPanics
    BY <2>4 DEF SchedulerStops, EndRound, AddTaskPanics, TypeOK
  <2> QED
    BY <1>1, <2>1, <2>2, <2>3, <2>4 DEF SchedulerStep
<1>2. ASSUME NEW w \in Worker, WorkerStep(w) PROVE TypeOK'
  <2>1. CASE WorkerSubmits(w)
    <3>1. worker' \in [Worker -> {"idle", "fetch", "items", "mark", "exited"}]
      BY <2>1 DEF WorkerSubmits, TypeOK
    <3>2. CASE Submit(NoRequest)
      BY <2>1, <3>1, <3>2, SubmitType DEF WorkerSubmits, TypeOK, Jobs
    <3>3. CASE SubmitPanics
      BY <2>1, <3>1, <3>3 DEF WorkerSubmits, SubmitPanics, TypeOK
    <3> QED
      BY <2>1, <3>2, <3>3 DEF WorkerSubmits
  <2> QED
    BY <1>2, <2>1 DEF WorkerStep, FetchEnds, WorkerExits, TypeOK
<1>3. ASSUME NEW r \in Request, Accept(r) \/ RequestStep(r) PROVE TypeOK'
  <2>1. CASE RefreshSubmits(r)
    <3>1. request' \in [Request -> {"none", "fetch", "items", "await", "mark", "done"}]
      BY <2>1 DEF RefreshSubmits, TypeOK
    <3>2. ASSUME NEW j \in Jobs, Submit(j) PROVE TypeOK'
      BY <2>1, <3>1, <3>2, SubmitType
         DEF RefreshSubmits, TypeOK
    <3>3. CASE SubmitPanics
      BY <2>1, <3>1, <3>3 DEF RefreshSubmits, SubmitPanics, TypeOK
    <3> QED
      BY <2>1, <3>2, <3>3 DEF RefreshSubmits, Jobs
  <2> QED
    BY <1>3, <2>1 DEF Accept, RequestStep, RefreshEnds, RefreshAnswered, TypeOK
<1>4. CASE QueueStep
  <2>1. CASE Receive
    <3>1. /\ jobs \in Seq(Jobs) /\ jobs # <<>> /\ Len(jobs) <= JobsCap
          /\ batch \in Seq(Jobs) /\ Len(batch) < MaxBatchSize
      BY <2>1 DEF Receive, TypeOK, Collecting
    <3>2. /\ Head(jobs) \in Jobs /\ Tail(jobs) \in Seq(Jobs)
          /\ Len(Tail(jobs)) = Len(jobs) - 1 /\ Len(jobs) \in Nat
      BY <3>1, HeadTailProperties, LenProperties
    <3>3. /\ Append(batch, Head(jobs)) \in Seq(Jobs)
          /\ Len(Append(batch, Head(jobs))) = Len(batch) + 1 /\ Len(batch) \in Nat
      BY <3>1, <3>2, AppendProperties, LenProperties
    <3>4. /\ jobs' \in Seq(Jobs) /\ Len(jobs') <= JobsCap
          /\ batch' \in Seq(Jobs) /\ Len(batch') <= MaxBatchSize
      BY <2>1, <3>1, <3>2, <3>3, ShutdownAssumption DEF Receive, JobsCap
    <3>5. queue' = IF Len(batch') >= MaxBatchSize THEN "flush" ELSE "select"
      BY <2>1, <3>3 DEF Receive
    <3> QED
      BY <2>1, <3>4, <3>5 DEF Receive, TypeOK
  <2>2. CASE Settle
    <3>1. batch' \in Seq(Jobs) /\ Len(batch') = 0
      BY <2>2, EmptySeq DEF Settle
    <3> QED
      BY <2>2, <3>1, ShutdownAssumption DEF Settle, TypeOK
  <2>3. CASE Flush \/ Block \/ QueueStops
    BY <2>3 DEF Flush, Block, QueueStops, TypeOK
  <2> QED
    BY <1>4, <2>1, <2>2, <2>3 DEF QueueStep
<1>5. CASE Signal \/ MainStep
  <2>1. CASE Signal
    BY <2>1 DEF Signal, TypeOK
  <2>2. CASE ClosePool
    BY <2>2 DEF ClosePool, TypeOK
  <2>3. CASE StopQueue
    BY <2>3 DEF StopQueue, TypeOK
  <2>4. CASE \/ ServerShutdown \/ ServerStopped \/ ServerTimeout
             \/ PoolStopped \/ Exit
    BY <2>4 DEF ServerShutdown, ServerStopped, ServerTimeout, PoolStopped,
                Exit, TypeOK
  <2> QED
    BY <1>5, <2>1, <2>2, <2>3, <2>4 DEF MainStep
<1>6. CASE Halted \/ UNCHANGED vars
  BY <1>6 DEF Halted, vars, TypeOK
<1> QED
  BY <1>1, <1>2, <1>3, <1>4, <1>5, <1>6 DEF Next

\* What is no step of the queue leaves its batch alone; a batch that is full is
\* flushed.
LEMMA CollectingStep ==
  ASSUME TypeOK, Collecting, [Next]_vars
  PROVE  Collecting'
<1>1. UNCHANGED <<batch, queue>> => Collecting'
  BY DEF Collecting
<1>2. CASE QueueStep
  <2>1. CASE Receive
    <3>1. Len(batch) \in Nat
      BY LenProperties DEF TypeOK
    <3>2. jobs \in Seq(Jobs) /\ jobs # <<>> /\ batch \in Seq(Jobs)
      BY <2>1 DEF Receive, TypeOK
    <3>3. Len(batch') = Len(batch) + 1
      BY <2>1, <3>2, HeadTailProperties, AppendProperties DEF Receive
    <3> QED
      BY <2>1, <3>1, <3>3, ShutdownAssumption DEF Receive, Collecting
  <2>2. CASE Settle
    <3>1. Len(batch') = 0
      BY <2>2, EmptySeq DEF Settle
    <3> QED
      BY <3>1, ShutdownAssumption DEF Collecting
  <2>3. CASE Flush \/ Block \/ QueueStops
    BY <2>3 DEF Flush, Block, QueueStops, Collecting
  <2> QED
    BY <1>2, <2>1, <2>2, <2>3 DEF QueueStep
<1>3. CASE SchedulerStep
  BY <1>1, <1>3 DEF SchedulerStep, BeginRound, SchedulerStops, CheckWindows,
      EndRound, DeferFeed, AddTask, AddTaskPanics, queueVars
<1>4. ASSUME NEW w \in Worker, WorkerStep(w) PROVE Collecting'
  BY <1>1, <1>4 DEF WorkerStep, FetchEnds, WorkerSubmits, WorkerExits, queueVars
<1>5. ASSUME NEW r \in Request, Accept(r) \/ RequestStep(r) PROVE Collecting'
  BY <1>1, <1>5 DEF Accept, RequestStep, RefreshEnds, RefreshSubmits,
      RefreshAnswered, queueVars
<1>6. CASE Signal \/ MainStep \/ Halted \/ UNCHANGED vars
  BY <1>1, <1>6 DEF Signal, MainStep, ServerShutdown, ServerStopped, ServerTimeout,
     ClosePool, PoolStopped, StopQueue, Exit, Halted, vars, queueVars
<1> QED
  BY <1>2, <1>3, <1>4, <1>5, <1>6 DEF Next

\* The variables keep their types, the channel and the batch their capacities,
\* whatever happens (write_queue.go:38,71, worker_pool.go:22).
THEOREM TypeCorrect == Spec => []TypeOK
<1>1. TypeOK /\ Collecting /\ [Next]_vars => TypeOK' /\ Collecting'
  BY TypeStep, CollectingStep
<1> QED
  BY <1>1, TypeInit, PTL DEF Spec

(***************************************************************************)
(* What each step of main may rely on.                                     *)
(***************************************************************************)

PoolGone == tasksClosed /\ \A w \in Worker : worker[w] = "exited"

ShutdownOrder ==
  /\ main = "pool" => tasksClosed
  /\ main \in {"stop", "queue", "exit"} => PoolGone
  /\ jobsClosed => main \in {"queue", "exit"}
  /\ queue = "stopped" => jobsClosed /\ jobs = <<>> /\ batch = <<>>
  /\ main = "exit" => queue = "stopped"

\* No step outside main moves main, opens a channel, wakes an exited worker,
\* or puts a job into a closed queue.
LEMMA OthersKeepOrder ==
  ASSUME TypeOK, ShutdownOrder,
         \/ SchedulerStep
         \/ \E w \in Worker : WorkerStep(w)
         \/ \E r \in Request : Accept(r) \/ RequestStep(r)
  PROVE  ShutdownOrder'
<1> USE DEF poolVars, queueVars
<1>1. CASE SchedulerStep
  BY <1>1 DEF SchedulerStep, BeginRound, SchedulerStops, CheckWindows, EndRound,
      DeferFeed, Submit, SubmitPanics, AddTask, AddTaskPanics, ShutdownOrder,
      PoolGone, TypeOK
<1>2. ASSUME NEW w \in Worker, WorkerStep(w) PROVE ShutdownOrder'
  BY <1>2 DEF WorkerStep, FetchEnds, WorkerSubmits, WorkerExits, Submit,
      SubmitPanics, ShutdownOrder, PoolGone, TypeOK
<1>3. ASSUME NEW r \in Request, Accept(r) \/ RequestStep(r) PROVE ShutdownOrder'
  BY <1>3 DEF Accept, RequestStep, RefreshEnds, RefreshSubmits, RefreshAnswered,
      Submit, SubmitPanics, ShutdownOrder, PoolGone, TypeOK
<1> QED
  BY <1>1, <1>2, <1>3

\* main takes each step only when what the next one relies on holds.
LEMMA MainKeepsOrder ==
  ASSUME TypeOK, ShutdownOrder, Signal \/ MainStep \/ QueueStep \/ Halted
  PROVE  ShutdownOrder'
  BY DEF Signal, MainStep, ServerShutdown, ServerStopped, ServerTimeout,
     ClosePool, PoolStopped, StopQueue, Exit, QueueStep, Receive, Flush, Settle,
     Block, QueueStops, Halted, vars, poolVars, queueVars, ShutdownOrder, PoolGone,
     TypeOK

\* The order of the steps of main holds in every reachable state.
LEMMA OrderInvariant == Spec => []ShutdownOrder
<1>1. Init => ShutdownOrder
  BY DEF Init, ShutdownOrder
<1>2. TypeOK /\ ShutdownOrder /\ [Next]_vars => ShutdownOrder'
  <2>1. TypeOK /\ ShutdownOrder /\ Next => ShutdownOrder'
    BY OthersKeepOrder, MainKeepsOrder DEF Next
  <2>2. ShutdownOrder /\ UNCHANGED vars => ShutdownOrder'
    BY DEF vars, poolVars, queueVars, ShutdownOrder, PoolGone
  <2> QED
    BY <2>1, <2>2
<1> QED
  BY <1>1, <1>2, TypeCorrect, PTL DEF Spec

\* No worker of the pool ever meets the closed queue (main.go:147-151), for
\* any number of workers, refreshes and feeds.
THEOREM PoolEndsFirst == Spec => []QueueOutlivesPool
<1>1. ShutdownOrder => QueueOutlivesPool
  BY DEF ShutdownOrder, PoolGone, QueueOutlivesPool
<1> QED
  BY <1>1, OrderInvariant, PTL

\* An exit that is not a panic leaves no job in the channel (main.go:150-152).
THEOREM OrderlyExit == Spec => []ExitMeansFlushed
<1>1. ShutdownOrder => ExitMeansFlushed
  BY DEF ShutdownOrder, ExitMeansFlushed
<1> QED
  BY <1>1, OrderInvariant, PTL

(***************************************************************************)
(* Who can die of a closed channel, and when.                              *)
(***************************************************************************)

\* The signal comes before main leaves the server, and main leaves it before
\* it closes anything.
PanicOrder ==
  /\ main # "serving" => ctxDone
  /\ tasksClosed => main \in {"pool", "stop", "queue", "exit"}
  /\ PanicsAreLate

\* A send that panics finds its channel closed, which main has done after the
\* signal.
LEMMA PanicOrderStays ==
  ASSUME TypeOK, ShutdownOrder, PanicOrder, [Next]_vars
  PROVE  PanicOrder'
<1> USE DEF poolVars, queueVars
<1>1. jobsClosed => tasksClosed /\ ctxDone
  BY DEF ShutdownOrder, PoolGone, PanicOrder
<1>2. tasksClosed => ctxDone
  BY DEF PanicOrder
<1>3. CASE SchedulerStep
  BY <1>1, <1>2, <1>3 DEF SchedulerStep, BeginRound, SchedulerStops, CheckWindows,
      EndRound, DeferFeed, Submit, SubmitPanics, AddTask, AddTaskPanics, PanicOrder,
      PanicsAreLate
<1>4. ASSUME NEW w \in Worker, WorkerStep(w) PROVE PanicOrder'
  BY <1>1, <1>4 DEF WorkerStep, FetchEnds, WorkerSubmits, WorkerExits, Submit,
      SubmitPanics, PanicOrder, PanicsAreLate
<1>5. ASSUME NEW r \in Request, Accept(r) \/ RequestStep(r) PROVE PanicOrder'
  BY <1>1, <1>5 DEF Accept, RequestStep, RefreshEnds, RefreshSubmits,
      RefreshAnswered, Submit, SubmitPanics, PanicOrder, PanicsAreLate
<1>6. CASE Signal \/ MainStep \/ QueueStep \/ Halted
  BY <1>6 DEF Signal, MainStep, ServerShutdown, ServerStopped, ServerTimeout,
     ClosePool, PoolStopped, StopQueue, Exit, QueueStep, Receive, Flush, Settle,
     Block, QueueStops, Halted, vars, PanicOrder, PanicsAreLate
<1>7. CASE UNCHANGED vars
  BY <1>7 DEF vars, PanicOrder, PanicsAreLate
<1> QED
  BY <1>3, <1>4, <1>5, <1>6, <1>7 DEF Next

\* PanicsAreLate: before the signal no send meets a closed channel.
THEOREM NoEarlyPanic == Spec => []PanicsAreLate
<1>1. Init => PanicOrder
  BY DEF Init, PanicOrder, PanicsAreLate
<1>2. TypeOK /\ ShutdownOrder /\ PanicOrder /\ [Next]_vars => PanicOrder'
  BY PanicOrderStays
<1>3. PanicOrder => PanicsAreLate
  BY DEF PanicOrder
<1> QED
  BY <1>1, <1>2, <1>3, TypeCorrect, OrderInvariant, PTL DEF Spec

\* WorkersNeverPanic: a worker that sends has not exited, so the channel of jobs
\* is open.
THEOREM WorkersSendSafely == Spec => WorkersNeverPanic
<1>1. ASSUME QueueOutlivesPool, NEW w \in Worker, WorkerStep(w)
      PROVE  ~panicked'
  BY <1>1 DEF QueueOutlivesPool, WorkerStep, FetchEnds, WorkerSubmits, WorkerExits,
      Submit, SubmitPanics, Alive
<1>2. QueueOutlivesPool /\ [Next]_vars
        => [\A w \in Worker : WorkerStep(w) => ~panicked']_vars
  BY <1>1
<1> QED
  BY <1>2, PoolEndsFirst, PTL DEF Spec, WorkersNeverPanic
=============================================================================

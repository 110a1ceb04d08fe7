-------------------------- MODULE WriteQueueProofs --------------------------
(***************************************************************************)
(* Theorems of WriteQueue, for every set of jobs, batch size, retry limit  *)
(* and degree of contention.                                               *)
(***************************************************************************)
EXTENDS WriteQueue, SequenceTheorems, TLAPS

-----------------------------------------------------------------------------
(* Where the loop and the flush stand: the part of the inductive invariant *)
(* that ties the program counter to the batch.                             *)

LoopInv ==
  /\ worker = "select" => /\ attempt = 0 /\ executed = 0
                          /\ Len(batch) < MaxBatchSize
                          /\ ~draining
  /\ worker = "begin" => batch # <<>> /\ attempt < MaxRetries
  /\ worker = "exec" => batch # <<>> /\ attempt \in 1 .. MaxRetries
  /\ worker = "stopped" => draining /\ batch = <<>>
  /\ draining => closed /\ jobs = <<>>

\* The service starts with the right types and nothing under way.
LEMMA InitLoop == Init => TypeOK /\ LoopInv
<1> SUFFICES ASSUME Init PROVE TypeOK /\ LoopInv
  OBVIOUS
<1> USE WriteQueueAssumption
<1>1. <<>> \in Seq(Job) /\ <<>> \in Seq(Result) /\ Len(<<>>) = 0
  BY EmptySeq
<1>2. /\ resultChan \in [SyncJob -> Seq(Result)]
      /\ \A j \in SyncJob : Len(resultChan[j]) <= ResultCap
  BY <1>1 DEF Init, ResultCap
<1>3. LoopInv
  BY <1>1 DEF Init, LoopInv
<1>4. Len(jobs) <= JobsCap /\ Len(batch) <= MaxBatchSize
  BY <1>1 DEF Init, JobsCap
<1>5. /\ requester \in [SyncJob -> Result \cup {"waiting", "gone"}]
      /\ attempt \in 0 .. MaxRetries /\ executed \in 0 .. Len(batch)
  BY <1>1 DEF Init
<1>6. TypeOK
  BY <1>1, <1>2, <1>4, <1>5 DEF Init, TypeOK
<1> QED
  BY <1>3, <1>6

\* A result sent on a ResultChan keeps it within its type and capacity.
LEMMA ReplyType ==
  ASSUME TypeOK, NEW j \in Job, NEW r \in Result, Reply(j, r)
  PROVE  /\ resultChan' \in [SyncJob -> Seq(Result)]
         /\ \A k \in SyncJob : Len(resultChan'[k]) <= ResultCap
<1>1. CASE j \notin SyncJob
  BY <1>1 DEF Reply, TypeOK
<1>2. CASE j \in SyncJob
  <2>1. /\ Len(resultChan[j]) < ResultCap
        /\ resultChan' = [resultChan EXCEPT ![j] = Append(resultChan[j], r)]
    BY <1>2 DEF Reply
  <2>2. resultChan[j] \in Seq(Result)
    BY <1>2 DEF TypeOK
  <2>3. /\ Append(resultChan[j], r) \in Seq(Result)
        /\ Len(Append(resultChan[j], r)) = Len(resultChan[j]) + 1
    BY <2>2, AppendProperties
  <2>4. Len(resultChan[j]) \in Nat
    BY <2>2, LenProperties
  <2>5. \A k \in SyncJob :
          resultChan'[k] = IF k = j THEN Append(resultChan[j], r)
                                    ELSE resultChan[k]
    BY <2>1 DEF TypeOK
  <2>6. resultChan' \in [SyncJob -> Seq(Result)]
    BY <2>1, <2>3 DEF TypeOK
  <2> QED
    BY <2>1, <2>3, <2>4, <2>5, <2>6 DEF TypeOK, ResultCap
<1> QED
  BY <1>1, <1>2

\* What a flush that is over leaves behind.
LEMMA NextBatchLoop ==
  ASSUME TypeOK, LoopInv, NextBatch, worker \in {"begin", "exec"},
         UNCHANGED <<jobs, closed, draining>>
  PROVE  /\ LoopInv'
         /\ batch' \in Seq(Job) /\ Len(batch') <= MaxBatchSize
         /\ worker' \in {"select", "stopped"}
         /\ attempt' \in 0 .. MaxRetries
         /\ executed' \in 0 .. Len(batch')
  BY EmptySeq, WriteQueueAssumption DEF NextBatch, LoopInv, TypeOK

\* Every step keeps the types and what the state of the loop says of the
\* batch.
LEMMA StepLoop == TypeOK /\ LoopInv /\ [Next]_vars => (TypeOK /\ LoopInv)'
<1> SUFFICES ASSUME TypeOK, LoopInv, [Next]_vars
             PROVE  (TypeOK /\ LoopInv)'
  OBVIOUS
<1> USE WriteQueueAssumption
<1>0. /\ Len(jobs) \in Nat /\ Len(batch) \in Nat
      /\ \A i \in 1 .. Len(batch) : batch[i] \in Job
      /\ (jobs # <<>>) => Head(jobs) \in Job
      /\ JobsCap \in Nat
  BY LenProperties, ElementOfSeq, HeadTailProperties DEF TypeOK, JobsCap
<1>1. ASSUME NEW j \in Job, Submit(j)
      PROVE  (TypeOK /\ LoopInv)'
  <2>1. jobs' \in Seq(Job) /\ Len(jobs') <= JobsCap
    BY <1>0, <1>1, AppendProperties DEF Submit, TypeOK
  <2>2. LoopInv'
    BY <1>1 DEF Submit, LoopInv
  <2> QED
    BY <1>1, <2>1, <2>2 DEF Submit, TypeOK
<1>2. ASSUME NEW j \in Job, SubmitClosed(j)
      PROVE  (TypeOK /\ LoopInv)'
  BY <1>2 DEF SubmitClosed, TypeOK, LoopInv
<1>3. ASSUME NEW j \in SyncJob, TakeResult(j)
      PROVE  (TypeOK /\ LoopInv)'
  <2>1. resultChan[j] \in Seq(Result) /\ resultChan[j] # <<>>
    BY <1>3 DEF TypeOK, TakeResult
  <2>2. /\ Head(resultChan[j]) \in Result
        /\ Tail(resultChan[j]) \in Seq(Result)
        /\ Len(Tail(resultChan[j])) = Len(resultChan[j]) - 1
        /\ Len(resultChan[j]) \in Nat
    BY <2>1, HeadTailProperties, LenProperties
  <2>3. resultChan' = [resultChan EXCEPT ![j] = Tail(resultChan[j])]
    BY <1>3 DEF TakeResult
  <2>4. \A k \in SyncJob : Len(resultChan'[k]) <= ResultCap
    BY <2>2, <2>3 DEF TypeOK, ResultCap
  <2> QED
    BY <1>3, <2>2, <2>3, <2>4 DEF TakeResult, TypeOK, LoopInv
<1>4. ASSUME NEW j \in SyncJob, Abandon(j)
      PROVE  (TypeOK /\ LoopInv)'
  BY <1>4 DEF Abandon, TypeOK, LoopInv
<1>5. CASE Stop
  BY <1>5 DEF Stop, TypeOK, LoopInv
<1>6. CASE Receive
  <2>1. /\ jobs' \in Seq(Job) /\ Len(jobs') = Len(jobs) - 1
        /\ batch' \in Seq(Job) /\ Len(batch') = Len(batch) + 1
        /\ batch' # <<>>
    BY <1>0, <1>6, AppendProperties, HeadTailProperties DEF Receive, TypeOK
  <2>2. Len(batch) < MaxBatchSize /\ attempt = 0 /\ executed = 0 /\ ~draining
    BY <1>6 DEF Receive, LoopInv
  <2> QED
    BY <1>0, <1>6, <2>1, <2>2 DEF Receive, TypeOK, LoopInv
<1>7. CASE Tick
  BY <1>0, <1>7, EmptySeq DEF Tick, TypeOK, LoopInv
<1>8. CASE ReceiveClosed
  BY <1>0, <1>8, EmptySeq DEF ReceiveClosed, TypeOK, LoopInv
<1>9. CASE Begin
  BY <1>0, <1>9 DEF Begin, TypeOK, LoopInv
<1>10. CASE ExecuteOk
  <2>1. /\ resultChan' \in [SyncJob -> Seq(Result)]
        /\ \A k \in SyncJob : Len(resultChan'[k]) <= ResultCap
    BY <1>0, <1>10, ReplyType DEF ExecuteOk, TypeOK, Result
  <2> QED
    BY <1>0, <1>10, <2>1 DEF ExecuteOk, TypeOK, LoopInv
<1>11. CASE ExecuteError
  <2>1. /\ resultChan' \in [SyncJob -> Seq(Result)]
        /\ \A k \in SyncJob : Len(resultChan'[k]) <= ResultCap
    BY <1>0, <1>11, ReplyType DEF ExecuteError, TypeOK, Result
  <2>2. lost' \in Seq(Job)
    BY <1>11, ConcatProperties DEF ExecuteError, GiveUp, TypeOK
  <2> QED
    BY <1>11, <2>1, <2>2, NextBatchLoop DEF ExecuteError, GiveUp, TypeOK
<1>12. CASE ExecuteBusy
  <2>1. /\ resultChan' \in [SyncJob -> Seq(Result)]
        /\ \A k \in SyncJob : Len(resultChan'[k]) <= ResultCap
    <3>1. batch[1] \in Job
      BY <1>0, <1>12, EmptySeq DEF ExecuteBusy, TypeOK
    <3> QED
      BY <1>12, <3>1, ReplyType DEF ExecuteBusy, Result
  <2>2. CASE attempt = MaxRetries
    <3>1. lost' = lost \o batch
      BY <1>12, <2>2 DEF ExecuteBusy, GiveUp
    <3>2. lost' \in Seq(Job)
      BY <3>1, ConcatProperties DEF TypeOK
    <3> QED
      BY <1>12, <2>1, <2>2, <3>2, NextBatchLoop DEF ExecuteBusy, GiveUp, TypeOK
  <2>3. CASE attempt # MaxRetries
    BY <1>0, <1>12, <2>1, <2>3 DEF ExecuteBusy, TypeOK, LoopInv
  <2> QED
    BY <2>2, <2>3
<1>13. CASE Commit
  <2>1. log' \in Seq(Job)
    BY <1>13, ConcatProperties DEF Commit, TypeOK
  <2> QED
    BY <1>13, <2>1, NextBatchLoop DEF Commit, TypeOK
<1>14. CASE CommitError \/ BeginError
  <2>1. /\ GiveUp /\ worker \in {"begin", "exec"}
        /\ UNCHANGED <<jobs, closed, draining, resultChan, requester, submitted,
                       panicked>>
    BY <1>14 DEF CommitError, BeginError
  <2>2. lost' \in Seq(Job)
    BY <2>1, ConcatProperties DEF GiveUp, TypeOK
  <2> QED
    BY <2>1, <2>2, NextBatchLoop DEF GiveUp, TypeOK
<1>15. CASE UNCHANGED vars
  BY <1>15 DEF vars, TypeOK, LoopInv
<1> QED
  BY <1>1, <1>2, <1>3, <1>4, <1>5, <1>6, <1>7, <1>8, <1>9, <1>10, <1>11,
     <1>12, <1>13, <1>14, <1>15 DEF Next, Loop, Flush, Halted

\* The state of every component stays in its range; in particular neither the
\* channel nor the batch outgrows its capacity, and no ResultChan holds two
\* results.
THEOREM TypeCorrect == Spec => []TypeOK
<1>1. Spec => [](TypeOK /\ LoopInv)
  BY InitLoop, StepLoop, PTL DEF Spec
<1> QED
  BY <1>1, PTL

\* The worker goroutine ends only when the channel is closed and empty and
\* its batch is flushed.
THEOREM StoppedEmpty == Spec => []StoppedIsEmpty
<1>1. Spec => [](TypeOK /\ LoopInv)
  BY InitLoop, StepLoop, PTL DEF Spec
<1>2. LoopInv => StoppedIsEmpty
  BY DEF LoopInv, StoppedIsEmpty
<1> QED
  BY <1>1, <1>2, PTL

-----------------------------------------------------------------------------
(* Where every job is.  Injectivity of the concatenation of the four       *)
(* sequences is taken apart into injectivity of each and disjointness, so  *)
(* that a commit, which moves the batch over the lost jobs, can be followed*)

\* A concatenation repeats nothing exactly when its parts repeat nothing and
\* share nothing.
LEMMA InjectiveConcat ==
  ASSUME NEW S, NEW s \in Seq(S), NEW t \in Seq(S)
  PROVE  IsInjective(s \o t) <=> /\ IsInjective(s)
                                 /\ IsInjective(t)
                                 /\ Range(s) \cap Range(t) = {}
<1>1. /\ Len(s) \in Nat /\ DOMAIN s = 1 .. Len(s)
      /\ Len(t) \in Nat /\ DOMAIN t = 1 .. Len(t)
      /\ s \o t \in Seq(S) /\ DOMAIN (s \o t) = 1 .. Len(s) + Len(t)
      /\ \A i \in 1 .. Len(s) + Len(t) :
           (s \o t)[i] = IF i <= Len(s) THEN s[i] ELSE t[i - Len(s)]
  BY LenProperties, ConcatProperties
<1>2. \A i \in 1 .. Len(s) : i \in DOMAIN (s \o t) /\ (s \o t)[i] = s[i]
  BY <1>1
<1>3. \A i \in 1 .. Len(t) : /\ i + Len(s) \in DOMAIN (s \o t)
                             /\ (s \o t)[i + Len(s)] = t[i]
  BY <1>1
<1>4. ASSUME IsInjective(s \o t)
      PROVE  IsInjective(s) /\ IsInjective(t) /\ Range(s) \cap Range(t) = {}
  <2>1. \A i, k \in DOMAIN (s \o t) : (s \o t)[i] = (s \o t)[k] => i = k
    BY <1>4 DEF IsInjective
  <2>2. IsInjective(s)
    BY <1>1, <1>2, <2>1 DEF IsInjective
  <2>3. ASSUME NEW i \in 1 .. Len(t), NEW k \in 1 .. Len(t), t[i] = t[k]
        PROVE  i = k
    <3>1. i + Len(s) = k + Len(s)
      BY <1>3, <2>1, <2>3
    <3> QED
      BY <1>1, <3>1
  <2>4. ASSUME NEW i \in 1 .. Len(s), NEW k \in 1 .. Len(t), s[i] = t[k]
        PROVE  FALSE
    <3>1. i = k + Len(s)
      BY <1>2, <1>3, <2>1, <2>4
    <3> QED
      BY <1>1, <3>1
  <2> QED
    BY <1>1, <2>2, <2>3, <2>4 DEF IsInjective, Range
<1>5. ASSUME IsInjective(s), IsInjective(t), Range(s) \cap Range(t) = {},
             NEW i \in 1 .. Len(s) + Len(t), NEW k \in 1 .. Len(s) + Len(t),
             (s \o t)[i] = (s \o t)[k]
      PROVE  i = k
  <2>0. /\ \A m, n \in 1 .. Len(s) : s[m] = s[n] => m = n
        /\ \A m, n \in 1 .. Len(t) : t[m] = t[n] => m = n
    BY <1>1, <1>5 DEF IsInjective
  <2>1. \A m \in 1 .. Len(s), n \in 1 .. Len(t) : s[m] # t[n]
    BY <1>1, <1>5 DEF Range
  <2>2. CASE i <= Len(s) /\ k <= Len(s)
    BY <1>1, <1>5, <2>0, <2>1, <2>2
  <2>3. CASE i > Len(s) /\ k > Len(s)
    <3>1. i - Len(s) = k - Len(s)
      BY <1>1, <1>5, <2>0, <2>1, <2>3
    <3> QED
      BY <1>1, <3>1
  <2>4. CASE i <= Len(s) /\ k > Len(s)
    BY <1>1, <1>5, <2>0, <2>1, <2>4
  <2>5. CASE i > Len(s) /\ k <= Len(s)
    BY <1>1, <1>5, <2>0, <2>1, <2>5
  <2> QED
    BY <1>1, <2>2, <2>3, <2>4, <2>5
<1> QED
  BY <1>1, <1>4, <1>5 DEF IsInjective

\* AppliedOnce, taken apart.
Apart ==
  /\ IsInjective(log) /\ IsInjective(lost)
  /\ IsInjective(batch) /\ IsInjective(jobs)
  /\ Range(log) \cap Range(lost) = {}
  /\ Range(log) \cap Range(batch) = {}
  /\ Range(log) \cap Range(jobs) = {}
  /\ Range(lost) \cap Range(batch) = {}
  /\ Range(lost) \cap Range(jobs) = {}
  /\ Range(batch) \cap Range(jobs) = {}

\* Four places without repetition and apart from each other: AppliedOnce.
LEMMA ApartIsAppliedOnce ==
  ASSUME log \in Seq(Job), lost \in Seq(Job),
         batch \in Seq(Job), jobs \in Seq(Job)
  PROVE  AppliedOnce <=> Apart
<1>1. /\ log \o lost \in Seq(Job)
      /\ (log \o lost) \o batch \in Seq(Job)
  BY ConcatProperties
<1>a. Range(log \o lost) = Range(log) \cup Range(lost)
  BY RangeConcatenation
<1>2. Range((log \o lost) \o batch) = Range(log \o lost) \cup Range(batch)
  BY <1>1, RangeConcatenation
<1>3. IsInjective(log \o lost)
        <=> /\ IsInjective(log) /\ IsInjective(lost)
            /\ Range(log) \cap Range(lost) = {}
  BY InjectiveConcat
<1>4. IsInjective((log \o lost) \o batch)
        <=> /\ IsInjective(log \o lost) /\ IsInjective(batch)
            /\ Range(log \o lost) \cap Range(batch) = {}
  BY <1>1, InjectiveConcat
<1>5. IsInjective(((log \o lost) \o batch) \o jobs)
        <=> /\ IsInjective((log \o lost) \o batch) /\ IsInjective(jobs)
            /\ Range((log \o lost) \o batch) \cap Range(jobs) = {}
  BY <1>1, InjectiveConcat
<1> QED
  BY <1>a, <1>2, <1>3, <1>4, <1>5 DEF AppliedOnce, Apart

\* The empty sequence repeats nothing.
LEMMA EmptyApart == Range(<<>>) = {} /\ IsInjective(<<>>)
  BY DEF Range, IsInjective

\* A sequence of one element repeats nothing.
LEMMA SingletonApart ==
  ASSUME NEW S, NEW e \in S
  PROVE  <<e>> \in Seq(S) /\ Range(<<e>>) = {e} /\ IsInjective(<<e>>)
  BY DEF Range, IsInjective

\* Appending a new element repeats nothing.
LEMMA AppendApart ==
  ASSUME NEW S, NEW s \in Seq(S), NEW e \in S
  PROVE  /\ Range(Append(s, e)) = Range(s) \cup {e}
         /\ IsInjective(Append(s, e)) <=> IsInjective(s) /\ e \notin Range(s)
<1>1. <<e>> \in Seq(S) /\ Range(<<e>>) = {e} /\ IsInjective(<<e>>)
  BY SingletonApart
<1>2. Append(s, e) = s \o <<e>>
  BY AppendIsConcat
<1>3. Range(s \o <<e>>) = Range(s) \cup Range(<<e>>)
  BY <1>1, RangeConcatenation
<1>4. IsInjective(s \o <<e>>) <=> /\ IsInjective(s) /\ IsInjective(<<e>>)
                                  /\ Range(s) \cap Range(<<e>>) = {}
  BY <1>1, InjectiveConcat
<1> QED
  BY <1>1, <1>2, <1>3, <1>4

\* A sequence is its head followed by its tail.
LEMMA HeadTailConcat ==
  ASSUME NEW S, NEW s \in Seq(S), s # <<>>
  PROVE  s = <<Head(s)>> \o Tail(s)
<1>1. /\ Len(s) \in Nat \ {0} /\ 1 \in 1 .. Len(s) /\ Len(s) \in 1 .. Len(s)
  BY EmptySeq
<1>2. SubSeq(s, 1, Len(s)) = <<s[1]>> \o SubSeq(s, 2, Len(s))
  BY <1>1, SubSeqRecursiveFirst
<1> QED
  BY <1>2, SubSeqFull, TailIsSubSeq

\* The head of a sequence without repetition is not in its tail.
LEMMA HeadTailApart ==
  ASSUME NEW S, NEW s \in Seq(S), s # <<>>
  PROVE  /\ Range(s) = {Head(s)} \cup Range(Tail(s))
         /\ IsInjective(s) <=> /\ IsInjective(Tail(s))
                               /\ Head(s) \notin Range(Tail(s))
<1>1. Head(s) \in S /\ Tail(s) \in Seq(S)
  BY HeadTailProperties
<1>2. /\ <<Head(s)>> \in Seq(S) /\ Range(<<Head(s)>>) = {Head(s)}
      /\ IsInjective(<<Head(s)>>)
  BY <1>1, SingletonApart
<1>a. /\ <<Head(s)>> \in Seq(S) /\ Tail(s) \in Seq(S)
  BY <1>1, <1>2
<1>3. Range(<<Head(s)>> \o Tail(s)) = Range(<<Head(s)>>) \cup Range(Tail(s))
  BY ONLY <1>a, RangeConcatenation
<1>4. IsInjective(<<Head(s)>> \o Tail(s))
        <=> /\ IsInjective(<<Head(s)>>) /\ IsInjective(Tail(s))
            /\ Range(<<Head(s)>>) \cap Range(Tail(s)) = {}
  BY <1>1, <1>2, InjectiveConcat
<1> QED
  BY <1>2, <1>3, <1>4, HeadTailConcat

\* A batch that is settled moves to the end of log or of lost.
LEMMA SettleApart ==
  ASSUME TypeOK, Apart, NothingForgotten, batch' = <<>>,
         UNCHANGED <<jobs, submitted>>,
         \/ log' = log \o batch /\ lost' = lost
         \/ lost' = lost \o batch /\ log' = log
  PROVE  Apart' /\ NothingForgotten'
<1>1. /\ log \in Seq(Job) /\ lost \in Seq(Job) /\ batch \in Seq(Job)
  BY DEF TypeOK
<1>2. CASE log' = log \o batch /\ lost' = lost
  <2>1. Range(log') = Range(log) \cup Range(batch)
    BY <1>1, <1>2, RangeConcatenation
  <2>2. IsInjective(log')
    BY <1>1, <1>2, InjectiveConcat DEF Apart
  <2> QED
    BY <1>2, <2>1, <2>2, EmptyApart DEF Apart, NothingForgotten, Settled
<1>3. CASE lost' = lost \o batch /\ log' = log
  <2>1. Range(lost') = Range(lost) \cup Range(batch)
    BY <1>1, <1>3, RangeConcatenation
  <2>2. IsInjective(lost')
    BY <1>1, <1>3, InjectiveConcat DEF Apart
  <2> QED
    BY <1>3, <2>1, <2>2, EmptyApart DEF Apart, NothingForgotten, Settled
<1> QED
  BY <1>2, <1>3

PlaceInv == Apart /\ NothingForgotten

\* Every step moves a job from one place to the next and keeps it in one.
LEMMA StepPlace ==
  TypeOK /\ LoopInv /\ PlaceInv /\ [Next]_vars => PlaceInv'
<1> SUFFICES ASSUME TypeOK, LoopInv, PlaceInv, [Next]_vars
             PROVE  PlaceInv'
  OBVIOUS
<1> USE DEF PlaceInv
<1>0. /\ log \in Seq(Job) /\ lost \in Seq(Job)
      /\ batch \in Seq(Job) /\ jobs \in Seq(Job)
  BY DEF TypeOK
<1>1. ASSUME NEW j \in Job, Submit(j)
      PROVE  PlaceInv'
  <2>1. /\ Range(jobs') = Range(jobs) \cup {j}
        /\ IsInjective(jobs') <=> IsInjective(jobs) /\ j \notin Range(jobs)
    BY <1>0, <1>1, AppendApart DEF Submit
  <2>2. j \notin Settled \cup Range(batch) \cup Range(jobs)
    BY <1>1 DEF Submit, NothingForgotten
  <2> QED
    BY <1>1, <2>1, <2>2 DEF Submit, Apart, NothingForgotten, Settled
<1>2. CASE Receive
  <2>1. /\ Range(jobs) = {Head(jobs)} \cup Range(jobs')
        /\ IsInjective(jobs) <=> /\ IsInjective(jobs')
                                 /\ Head(jobs) \notin Range(jobs')
    BY <1>0, <1>2, HeadTailApart DEF Receive
  <2>2. Head(jobs) \in Job
    BY <1>0, <1>2, HeadTailProperties DEF Receive
  <2>3. /\ Range(batch') = Range(batch) \cup {Head(jobs)}
        /\ IsInjective(batch')
             <=> IsInjective(batch) /\ Head(jobs) \notin Range(batch)
    BY <1>0, <1>2, <2>2, AppendApart DEF Receive
  <2> QED
    BY <1>2, <2>1, <2>3 DEF Receive, Apart, NothingForgotten, Settled
<1>3. CASE ExecuteError
  BY <1>3, SettleApart DEF ExecuteError, GiveUp, NextBatch
<1>4. CASE ExecuteBusy
  <2>1. CASE attempt = MaxRetries
    BY <1>4, <2>1, SettleApart DEF ExecuteBusy, GiveUp, NextBatch
  <2>2. CASE attempt # MaxRetries
    BY <1>4, <2>2 DEF ExecuteBusy, Apart, NothingForgotten, Settled
  <2> QED
    BY <2>1, <2>2
<1>5. CASE Commit
  BY <1>5, SettleApart DEF Commit, NextBatch
<1>6. CASE CommitError \/ BeginError
  BY <1>6, SettleApart DEF CommitError, BeginError, GiveUp, NextBatch
<1>7. ASSUME UNCHANGED <<jobs, batch, log, lost, submitted>>
      PROVE  PlaceInv'
  BY <1>7 DEF Apart, NothingForgotten, Settled
<1> QED
  BY <1>1, <1>2, <1>3, <1>4, <1>5, <1>6, <1>7
     DEF Next, Loop, Flush, Halted, vars, SubmitClosed, TakeResult, Abandon,
         Stop, Tick, ReceiveClosed, Begin, ExecuteOk

\* In every reachable state a submitted job is in exactly one place.
LEMMA PlaceCorrect == Spec => [](TypeOK /\ LoopInv /\ PlaceInv)
<1>1. Init => PlaceInv
  BY EmptyApart DEF Init, PlaceInv, Apart, NothingForgotten, Settled
<1> QED
  BY <1>1, InitLoop, StepLoop, StepPlace, PTL DEF Spec

\* However often a transaction is retried and in whatever order jobs are
\* submitted, received and settled, no job is committed twice, nor both
\* committed and lost.
THEOREM JobsAppliedOnce == Spec => []AppliedOnce
<1>1. TypeOK /\ PlaceInv => AppliedOnce
  BY ApartIsAppliedOnce DEF TypeOK, PlaceInv
<1> QED
  BY <1>1, PlaceCorrect, PTL

\* A submitted job is never in neither the channel, the batch, the log nor
\* the lost jobs.
THEOREM JobsNotForgotten == Spec => []NothingForgotten
  BY PlaceCorrect, PTL DEF PlaceInv

-----------------------------------------------------------------------------
(* Answers.                                                                *)

Answered(j) == requester[j] # "waiting" \/ resultChan[j] # <<>>

\* Every executed job of the open transaction has its answer; an answer
\* belongs to a submitted job that has left the channel.
AnswerInv ==
  /\ \A j \in SyncJob :
       resultChan[j] # <<>> \/ requester[j] \in Result
         => /\ j \in submitted /\ j \notin Range(jobs)
            /\ j \in Range(batch) => attempt > 0
  /\ \A i \in 1 .. executed : batch[i] \in SyncJob => Answered(batch[i])
  /\ \A j \in SyncJob \cap Range(log) : Answered(j)

\* Sending a result gives its job an answer and takes nobody's away.
LEMMA ReplyAnswers ==
  ASSUME TypeOK, NEW j \in Job, NEW r \in Result, Reply(j, r),
         UNCHANGED requester
  PROVE  /\ j \in SyncJob => Answered(j)'
         /\ \A k \in SyncJob : Answered(k) => Answered(k)'
         /\ \A k \in SyncJob : k # j => resultChan'[k] = resultChan[k]
<1>1. CASE j \notin SyncJob
  BY <1>1 DEF Reply, Answered
<1>2. CASE j \in SyncJob
  <2>1. resultChan' = [resultChan EXCEPT ![j] = Append(resultChan[j], r)]
    BY <1>2 DEF Reply
  <2>2. \A k \in SyncJob :
          resultChan'[k] = IF k = j THEN Append(resultChan[j], r)
                                    ELSE resultChan[k]
    BY <2>1 DEF TypeOK
  <2>3. resultChan[j] \in Seq(Result)
    BY <1>2 DEF TypeOK
  <2>4. Append(resultChan[j], r) # <<>>
    BY <2>3, AppendProperties
  <2> QED
    BY <1>2, <2>2, <2>4 DEF Answered
<1> QED
  BY <1>1, <1>2

\* The job the transaction executes is known, out of the channel and in the
\* batch.
LEMMA ExecutedJob ==
  ASSUME TypeOK, LoopInv, PlaceInv, NEW i \in 1 .. Len(batch)
  PROVE  /\ batch[i] \in Job /\ batch[i] \in submitted
         /\ batch[i] \in Range(batch) /\ batch[i] \notin Range(jobs)
<1>1. batch[i] \in Job /\ batch[i] \in Range(batch)
  BY ElementOfSeq, LenProperties DEF TypeOK, Range
<1> QED
  BY <1>1 DEF PlaceInv, Apart, NothingForgotten

\* Every step keeps the answers in agreement with what was executed.
LEMMA StepAnswer ==
  TypeOK /\ LoopInv /\ PlaceInv /\ AnswerInv /\ [Next]_vars => AnswerInv'
<1> SUFFICES ASSUME TypeOK, LoopInv, PlaceInv, AnswerInv, [Next]_vars
             PROVE  AnswerInv'
  OBVIOUS
<1> USE WriteQueueAssumption
<1>0. /\ batch \in Seq(Job) /\ jobs \in Seq(Job) /\ log \in Seq(Job)
      /\ Len(batch) \in Nat /\ DOMAIN batch = 1 .. Len(batch)
      /\ executed \in 0 .. Len(batch) /\ attempt \in Nat
  BY LenProperties DEF TypeOK
<1>1. ASSUME NEW j \in Job, Submit(j)
      PROVE  AnswerInv'
  <2>1. Range(jobs') = Range(jobs) \cup {j}
    BY <1>0, <1>1, AppendApart DEF Submit
  <2> QED
    BY <1>1, <2>1 DEF Submit, AnswerInv, Answered
<1>2. ASSUME NEW j \in SyncJob, TakeResult(j)
      PROVE  AnswerInv'
  <2>1. Head(resultChan[j]) \in Result /\ resultChan[j] # <<>>
    <3>1. resultChan[j] \in Seq(Result) /\ resultChan[j] # <<>>
      BY <1>2 DEF TakeResult, TypeOK
    <3> QED
      BY <3>1, HeadTailProperties
  <2>2. \A k \in SyncJob :
          /\ requester'[k] = IF k = j THEN Head(resultChan[j])
                                      ELSE requester[k]
          /\ k # j => resultChan'[k] = resultChan[k]
    BY <1>2 DEF TakeResult, TypeOK
  <2>3. \A k \in SyncJob : Answered(k) => Answered(k)'
    BY <2>1, <2>2 DEF Answered, Result
  <2>4. UNCHANGED <<jobs, batch, attempt, executed, submitted, log>>
    BY <1>2 DEF TakeResult
  <2> QED
    BY <2>1, <2>2, <2>3, <2>4 DEF AnswerInv
<1>3. ASSUME NEW j \in SyncJob, Abandon(j)
      PROVE  AnswerInv'
  <2>1. \A k \in SyncJob :
          requester'[k] = IF k = j THEN "gone" ELSE requester[k]
    BY <1>3 DEF Abandon, TypeOK
  <2>2. UNCHANGED <<jobs, batch, attempt, executed, submitted, log, resultChan>>
    BY <1>3 DEF Abandon
  <2> QED
    BY <2>1, <2>2 DEF AnswerInv, Answered, Result
<1>4. CASE Receive
  <2>1. Range(jobs) = {Head(jobs)} \cup Range(jobs')
    BY <1>0, <1>4, HeadTailApart DEF Receive
  <2>2. Range(batch') = Range(batch) \cup {Head(jobs)}
    BY <1>0, <1>4, HeadTailProperties, AppendApart DEF Receive
  <2>3. executed = 0
    BY <1>4 DEF Receive, LoopInv
  <2> QED
    BY <1>4, <2>1, <2>2, <2>3 DEF Receive, AnswerInv, Answered
<1>5. CASE Begin
  BY <1>0, <1>5 DEF Begin, AnswerInv, Answered
<1>6. CASE ExecuteOk
  <2>1. executed + 1 \in 1 .. Len(batch) /\ attempt > 0
    BY <1>0, <1>6 DEF ExecuteOk, LoopInv
  <2>2. PICK j \in Job : j = batch[executed + 1]
    BY <2>1, ExecutedJob
  <2>3. j \in submitted /\ j \notin Range(jobs)
    BY <2>1, <2>2, ExecutedJob
  <2>4. Reply(j, "ok") /\ UNCHANGED requester /\ "ok" \in Result
    BY <1>6, <2>2 DEF ExecuteOk, Result
  <2>5. /\ j \in SyncJob => Answered(j)'
        /\ \A k \in SyncJob : Answered(k) => Answered(k)'
        /\ \A k \in SyncJob : k # j => resultChan'[k] = resultChan[k]
    BY <2>4, ReplyAnswers
  <2>6. /\ UNCHANGED <<jobs, batch, attempt, submitted, log, requester>>
        /\ executed' = executed + 1
    BY <1>6 DEF ExecuteOk
  <2>7. ASSUME NEW i \in 1 .. executed', batch'[i] \in SyncJob
        PROVE  Answered(batch[i])'
    <3>1. PICK k : k = batch[i] /\ k = batch'[i]
      BY <2>6
    <3>2. i \in 1 .. executed \/ i = executed + 1
      BY <1>0, <2>6
    <3>3. Answered(k)'
      BY <2>2, <2>5, <2>7, <3>1, <3>2 DEF AnswerInv
    <3> QED
      BY <3>1, <3>3 DEF Answered
  <2> QED
    BY <2>1, <2>3, <2>5, <2>6, <2>7 DEF AnswerInv, Answered
<1>7. ASSUME UNCHANGED <<jobs, submitted, requester, log>>,
             (batch' = <<>> /\ executed' = 0) \/ UNCHANGED <<batch, attempt, executed>>,
             attempt > 0, executed = 0 \/ batch' = <<>>,
             NEW i \in 1 .. Len(batch), Reply(batch[i], "error")
      PROVE  AnswerInv'
  <2>1. /\ batch[i] \in Job /\ batch[i] \in submitted
        /\ batch[i] \notin Range(jobs)
    BY ExecutedJob
  <2>2. /\ \A k \in SyncJob : Answered(k) => Answered(k)'
        /\ \A k \in SyncJob : k # batch[i] => resultChan'[k] = resultChan[k]
    BY <1>7, <2>1, ReplyAnswers DEF Result
  <2>3. executed' = 0
    BY <1>7
  <2>4. /\ (\A k \in 1 .. executed : batch[k] \in SyncJob => Answered(batch[k]))'
        /\ \A k \in SyncJob \cap Range(log') : Answered(k)'
    BY <1>7, <2>2, <2>3 DEF AnswerInv
  <2>5. CASE batch' = <<>>
    BY <1>7, <2>1, <2>2, <2>4, <2>5, EmptyApart DEF AnswerInv
  <2>6. CASE UNCHANGED <<batch, attempt>>
    BY <1>7, <2>1, <2>2, <2>4, <2>6 DEF AnswerInv
  <2> QED
    BY <1>7, <2>5, <2>6
<1>8. CASE ExecuteError
  <2>1. executed + 1 \in 1 .. Len(batch) /\ attempt > 0
    BY <1>0, <1>8 DEF ExecuteError, LoopInv
  <2> QED
    BY <1>7, <1>8, <2>1 DEF ExecuteError, GiveUp, NextBatch
<1>9. CASE ExecuteBusy
  <2>1. 1 \in 1 .. Len(batch) /\ attempt > 0 /\ executed = 0
    BY <1>0, <1>9, EmptySeq DEF ExecuteBusy, LoopInv
  <2> QED
    BY <1>7, <1>9, <2>1 DEF ExecuteBusy, GiveUp, NextBatch
<1>10. CASE Commit
  <2>1. Range(log') = Range(log) \cup Range(batch)
    BY <1>0, <1>10, RangeConcatenation DEF Commit
  <2>2. \A j \in SyncJob \cap Range(batch) : Answered(j)
    BY <1>0, <1>10 DEF Commit, AnswerInv, Range
  <2> QED
    BY <1>10, <2>1, <2>2, EmptyApart DEF Commit, NextBatch, AnswerInv, Answered
<1>11. CASE CommitError \/ BeginError
  BY <1>11, EmptyApart DEF CommitError, BeginError, GiveUp, NextBatch, AnswerInv, Answered
<1>12. ASSUME UNCHANGED <<jobs, batch, attempt, executed, submitted, log,
                          resultChan, requester>>
       PROVE  AnswerInv'
  BY <1>12 DEF AnswerInv, Answered
<1> QED
  BY <1>1, <1>2, <1>3, <1>4, <1>5, <1>6, <1>8, <1>9, <1>10, <1>11, <1>12
     DEF Next, Loop, Flush, Halted, vars, SubmitClosed, Stop, Tick, ReceiveClosed

\* In every reachable state answers agree with what was executed.
LEMMA AnswerCorrect == Spec => []AnswerInv
<1>1. Init => AnswerInv
  BY EmptyApart DEF Init, AnswerInv, Answered, Result
<1> QED
  BY <1>1, PlaceCorrect, StepAnswer, PTL DEF Spec

\* Whoever asked for a job that has been committed can learn of it.
THEOREM CommittedAnswered == Spec => []CommittedIsAnswered
<1>1. AnswerInv => CommittedIsAnswered
  BY DEF AnswerInv, CommittedIsAnswered, Answered
<1> QED
  BY <1>1, AnswerCorrect, PTL

\* No result precedes the execution of its job.
THEOREM AnsweredAfterExecution == Spec => []AnswerOnlyAfterExecution
<1>1. AnswerInv => AnswerOnlyAfterExecution
  BY DEF AnswerInv, AnswerOnlyAfterExecution
<1> QED
  BY <1>1, AnswerCorrect, PTL

-----------------------------------------------------------------------------
(* The queue implements AtomicBatches, with the batch followed by the      *)
(* channel for the pending jobs.                                           *)

\* Settling the batch takes it off the front of what is pending.
LEMMA BatchIsPrefix ==
  ASSUME batch \in Seq(Job), jobs \in Seq(Job), batch # <<>>
  PROVE  LET pending == batch \o jobs IN
         /\ Len(batch) <= Len(pending)
         /\ SubSeq(pending, 1, Len(batch)) = batch
         /\ SubSeq(pending, Len(batch) + 1, Len(pending)) = jobs
<1> DEFINE pending == batch \o jobs
<1>1. /\ pending \in Seq(Job)
      /\ Len(pending) = Len(batch) + Len(jobs)
      /\ Len(batch) \in Nat \ {0} /\ Len(jobs) \in Nat
  BY ConcatProperties, EmptySeq, LenProperties
<1>2. SubSeq(pending, 1, Len(batch)) = batch
  <2>1. 1 \in 1 .. Len(batch) /\ Len(batch) \in 1 .. Len(batch)
    BY <1>1
  <2>2. SubSeq(pending, 1, Len(batch)) = SubSeq(batch, 1, Len(batch))
    BY <2>1, SubSeqOfConcat1
  <2> QED
    BY <2>2, SubSeqFull
<1>3. SubSeq(pending, Len(batch) + 1, Len(pending)) = jobs
  <2>1. CASE jobs = <<>>
    <3>1. Len(jobs) = 0
      BY <2>1, EmptySeq
    <3>2. Len(batch) + 1 \in Int /\ Len(pending) \in Int
          /\ Len(pending) < Len(batch) + 1
      BY <1>1, <3>1
    <3> QED
      BY <2>1, <3>2, SubSeqEmpty
  <2>2. CASE jobs # <<>>
    <3>1. Len(jobs) \in Nat \ {0}
      BY <2>2, EmptySeq
    <3>2. /\ Len(batch) + 1 \in Len(batch) + 1 .. Len(batch) + Len(jobs)
          /\ Len(pending) \in Len(batch) + 1 .. Len(batch) + Len(jobs)
          /\ Len(batch) + 1 - Len(batch) = 1
          /\ Len(pending) - Len(batch) = Len(jobs)
      BY <1>1, <3>1
    <3>3. SubSeq(pending, Len(batch) + 1, Len(pending))
            = SubSeq(jobs, 1, Len(jobs))
      BY <3>2, SubSeqOfConcat2
    <3> QED
      BY <3>3, SubSeqFull
  <2> QED
    BY <2>1, <2>2
<1> QED
  BY <1>1, <1>2, <1>3

\* A settled batch is an abstract Commit or Drop of as many jobs.
LEMMA SettleRefines ==
  ASSUME TypeOK, batch # <<>>, batch' = <<>>, UNCHANGED <<jobs, submitted>>,
         \/ log' = log \o batch /\ lost' = lost
         \/ lost' = lost \o batch /\ log' = log
  PROVE  Batches!Next
<1>1. /\ batch \in Seq(Job) /\ jobs \in Seq(Job)
      /\ Len(batch) \in 1 .. MaxBatchSize
  BY EmptySeq, WriteQueueAssumption DEF TypeOK
<1>2. /\ Len(batch) <= Len(batch \o jobs)
      /\ SubSeq(batch \o jobs, 1, Len(batch)) = batch
      /\ SubSeq(batch \o jobs, Len(batch) + 1, Len(batch \o jobs)) = jobs
  BY <1>1, BatchIsPrefix
<1>3. (batch \o jobs)' = jobs
  BY <1>1, ConcatEmptySeq
<1> QED
  BY <1>1, <1>2, <1>3 DEF Batches!Next, Batches!Commit, Batches!Drop

\* Every step is a step of AtomicBatches or leaves its variables alone.
LEMMA StepRefines ==
  TypeOK /\ LoopInv /\ [Next]_vars => [Batches!Next]_(Batches!vars)
<1> SUFFICES ASSUME TypeOK, LoopInv, [Next]_vars
             PROVE  Batches!Next \/ UNCHANGED Batches!vars
  OBVIOUS
<1>0. batch \in Seq(Job) /\ jobs \in Seq(Job)
  BY DEF TypeOK
<1>1. ASSUME NEW j \in Job, Submit(j)
      PROVE  Batches!Next
  <2>1. batch \o Append(jobs, j) = Append(batch \o jobs, j)
    <3>1. /\ <<j>> \in Seq(Job) /\ batch \o jobs \in Seq(Job)
          /\ Append(jobs, j) = jobs \o <<j>>
      BY <1>0, AppendIsConcat, ConcatProperties
    <3>2. Append(batch \o jobs, j) = (batch \o jobs) \o <<j>>
      BY <3>1, AppendIsConcat
    <3> QED
      BY <1>0, <3>1, <3>2, ConcatAssociative
  <2> QED
    BY <1>1, <2>1 DEF Submit, Batches!Next, Batches!Submit
<1>2. CASE Receive
  <2>1. Append(batch, Head(jobs)) \o Tail(jobs) = batch \o jobs
    <3>1. Head(jobs) \in Job /\ Tail(jobs) \in Seq(Job)
      BY <1>0, <1>2, HeadTailProperties DEF Receive
    <3>2. /\ <<Head(jobs)>> \in Seq(Job)
          /\ Append(batch, Head(jobs)) = batch \o <<Head(jobs)>>
      BY <1>0, <3>1, AppendIsConcat
    <3>3. jobs = <<Head(jobs)>> \o Tail(jobs)
      BY <1>0, <1>2, HeadTailConcat DEF Receive
    <3>4. (batch \o <<Head(jobs)>>) \o Tail(jobs)
            = batch \o (<<Head(jobs)>> \o Tail(jobs))
      BY <1>0, <3>1, <3>2, ConcatAssociative
    <3> QED
      BY <3>2, <3>3, <3>4
  <2> QED
    BY <1>2, <2>1 DEF Receive, Batches!vars
<1>3. CASE ExecuteError
  BY <1>3, SettleRefines DEF ExecuteError, GiveUp, NextBatch, LoopInv
<1>4. CASE ExecuteBusy
  <2>1. CASE attempt = MaxRetries
    BY <1>4, <2>1, SettleRefines DEF ExecuteBusy, GiveUp, NextBatch
  <2>2. CASE attempt # MaxRetries
    BY <1>4, <2>2 DEF ExecuteBusy, Batches!vars
  <2> QED
    BY <2>1, <2>2
<1>5. CASE Commit
  BY <1>5, SettleRefines DEF Commit, NextBatch
<1>6. CASE CommitError \/ BeginError
  BY <1>6, SettleRefines DEF CommitError, BeginError, GiveUp, NextBatch, LoopInv
<1>7. ASSUME UNCHANGED <<jobs, batch, log, lost, submitted>>
      PROVE  UNCHANGED Batches!vars
  BY <1>7 DEF Batches!vars
<1> QED
  BY <1>1, <1>2, <1>3, <1>4, <1>5, <1>6, <1>7
     DEF Next, Loop, Flush, Halted, vars, SubmitClosed, TakeResult, Abandon,
         Stop, Tick, ReceiveClosed, Begin, ExecuteOk

\* The write queue settles jobs first come first served, in whole batches of
\* at most MaxBatchSize, each committed or lost in one step.
THEOREM QueueIsAtomic == Spec => BatchesAreAtomic
<1>1. Init => Batches!Init
  <2>1. <<>> \in Seq(Job) /\ <<>> \o <<>> = <<>>
    BY EmptySeq, ConcatEmptySeq
  <2> QED
    BY <2>1 DEF Init, Batches!Init
<1>2. Spec => [](TypeOK /\ LoopInv)
  BY InitLoop, StepLoop, PTL DEF Spec
<1> QED
  BY <1>1, <1>2, StepRefines, PTL DEF Spec, BatchesAreAtomic, Batches!Spec
-----------------------------------------------------------------------------
(* A worker blocked on a full ResultChan.                                  *)

\* The job at which the worker stands is one of the batch.
LEMMA StuckAtJob ==
  ASSUME TypeOK, StuckForGood
  PROVE  /\ worker = "exec" /\ executed < Len(batch)
         /\ batch[executed + 1] \in SyncJob
         /\ requester[batch[executed + 1]] # "waiting"
         /\ Len(resultChan[batch[executed + 1]]) = ResultCap
  BY DEF StuckForGood

\* No step of the loop is possible: every execution first has to send.
LEMMA StuckNoLoop ==
  ASSUME TypeOK, StuckForGood
  PROVE  ~Loop
<1>1. /\ worker = "exec" /\ executed < Len(batch)
      /\ batch[executed + 1] \in SyncJob
      /\ Len(resultChan[batch[executed + 1]]) = ResultCap
  BY StuckAtJob
<1>2. executed \in Nat /\ Len(batch) \in Nat
  BY LenProperties DEF TypeOK
<1>3. ASSUME NEW r \in Result
      PROVE  ~Reply(batch[executed + 1], r)
  BY <1>1 DEF Reply, ResultCap
<1>4. ~Receive /\ ~Tick /\ ~ReceiveClosed /\ ~Begin /\ ~BeginError
  BY <1>1 DEF Receive, Tick, ReceiveClosed, Begin, BeginError
<1>5. ~ExecuteOk /\ ~ExecuteError
  BY <1>3 DEF ExecuteOk, ExecuteError, Result
<1>6. ~ExecuteBusy
  <2> SUFFICES ASSUME ExecuteBusy PROVE FALSE
    OBVIOUS
  <2>1. executed = 0 /\ Reply(batch[1], "error")
    BY DEF ExecuteBusy
  <2>2. batch[executed + 1] = batch[1]
    BY <2>1
  <2> QED
    BY <1>3, <2>1, <2>2 DEF Result
<1>7. ~Commit /\ ~CommitError
  BY <1>1, <1>2 DEF Commit, CommitError
<1> QED
  BY <1>4, <1>5, <1>6, <1>7 DEF Loop, Flush

\* Whatever the callers do, a stuck worker stays stuck at the same job.
LEMMA StuckStep ==
  ASSUME TypeOK, StuckForGood, [Next]_vars
  PROVE  StuckForGood'
<1> DEFINE job == batch[executed + 1]
<1>1. /\ worker = "exec" /\ executed < Len(batch)
      /\ job \in SyncJob /\ requester[job] # "waiting"
      /\ Len(resultChan[job]) = ResultCap
  BY StuckAtJob
<1>2. ASSUME UNCHANGED <<worker, executed, batch>>,
             requester'[job] # "waiting", resultChan'[job] = resultChan[job]
      PROVE  StuckForGood'
  BY <1>1, <1>2 DEF StuckForGood, ResultCap
<1> HIDE DEF job
<1>3. ASSUME NEW j \in Job, Submit(j) \/ SubmitClosed(j)
      PROVE  StuckForGood'
  BY <1>1, <1>2, <1>3 DEF Submit, SubmitClosed
<1>4. ASSUME NEW j \in SyncJob, TakeResult(j)
      PROVE  StuckForGood'
  <2>1. j # job
    BY <1>1, <1>4 DEF TakeResult
  <2>2. /\ requester'[job] = requester[job]
        /\ resultChan'[job] = resultChan[job]
    BY <1>1, <1>4, <2>1 DEF TakeResult, TypeOK
  <2> QED
    BY <1>1, <1>2, <1>4, <2>2 DEF TakeResult
<1>5. ASSUME NEW j \in SyncJob, Abandon(j)
      PROVE  StuckForGood'
  <2>1. j # job
    BY <1>1, <1>5 DEF Abandon
  <2>2. requester'[job] = requester[job]
    BY <1>1, <1>5, <2>1 DEF Abandon, TypeOK
  <2> QED
    BY <1>1, <1>2, <1>5, <2>2 DEF Abandon
<1>6. ASSUME Stop
      PROVE  StuckForGood'
  BY <1>1, <1>2, <1>6 DEF Stop
<1>7. ASSUME Halted \/ UNCHANGED vars
      PROVE  StuckForGood'
  BY <1>1, <1>2, <1>7 DEF Halted, vars
<1>8. ~Loop
  BY StuckNoLoop
<1> QED
  BY <1>3, <1>4, <1>5, <1>6, <1>7, <1>8 DEF Next

\* StuckForGood, the exception of EveryJobSettles, StopEndsWorker and
\* AnsweredUnlessLost, deserves its name: once SaveItemsJob.Execute blocks on
\* a full ResultChan that nobody reads any more (write_queue.go:125-242, after
\* fetchAndSaveSync has left its select, fetcher_service.go:129-137), no step
\* of the process frees the worker again.
THEOREM StuckIsForGood == Spec => [][StuckForGood => StuckForGood']_vars
<1>1. TypeOK /\ [Next]_vars => [StuckForGood => StuckForGood']_vars
  BY StuckStep
<1> QED
  BY <1>1, TypeCorrect, PTL DEF Spec
=============================================================================

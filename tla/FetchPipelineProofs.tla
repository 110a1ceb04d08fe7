------------------------- MODULE FetchPipelineProofs -------------------------
(***************************************************************************)
(* For any number of feeds, workers and refreshes, whatever fails: the     *)
(* types, and that a feed is claimed exactly by the goroutine that fetches *)
(* it; and, while every server answers, that last_fetched_at, the stored   *)
(* validators and a reported success all stand for saved items.            *)
(***************************************************************************)
EXTENDS FetchPipeline, SequenceTheorems, TLAPS

-----------------------------------------------------------------------------
(* The parts of TypeOK that different actions change.                      *)

TablesOK ==
  /\ feeds \in SUBSET Feed
  /\ row \in [Feed -> [etag : Version \cup {NoTag}, last : Version,
                       next : {"null", "due", "later", "suspended"}]]
  /\ saved \in [Feed -> Version]

FetchOK ==
  /\ upstream \in [Feed -> Version]
  /\ fetching \in SUBSET Feed /\ todo \in SUBSET Feed
  /\ pc \in [Goroutine -> Owning \cup {"idle", "claim", "done"}]
  /\ job \in [Goroutine -> [feed : Feed, version : Version \cup {NoTag}]]
  /\ outcome \in [Request -> {"none", "success", "failure"}]

QueueOK ==
  /\ tx \in [size : 0 .. MaxBatchSize, phase : {"select", "commit", "rollback", "stuck"}]
  /\ queue \in Seq(Jobs) /\ tx.size <= Len(queue) /\ Len(queue) - InHand <= QueueCap
  /\ tx.size = 0 <=> tx.phase = "select"
  /\ result \in [Request -> {"none", "ok", "error"}]

(* TypeOK in three parts.                                                  *)
LEMMA Parts == TypeOK <=> TablesOK /\ FetchOK /\ QueueOK
  BY DEF TypeOK, TablesOK, FetchOK, QueueOK

(* What the worker holds is a batch, of its size or one still collected.   *)
LEMMA InHandType == ASSUME QueueOK PROVE InHand \in 0 .. MaxBatchSize
  BY FetchPipelineAssumption DEF QueueOK, InHand

(* A send on the channel of jobs keeps it within its type and capacity,    *)
(* and a flush under way within the queue.                                 *)
LEMMA EnqueueType ==
  ASSUME QueueOK, NEW kind \in {"save", "mark", "defer"}, NEW f \in Feed,
         NEW v \in Version, NEW r \in Request \cup {NoRequest},
         Enqueue(kind, f, v, r), UNCHANGED <<tx, result>>
  PROVE  QueueOK'
<1> DEFINE j == [kind |-> kind, feed |-> f, version |-> v, request |-> r]
<1>1. j \in Jobs
  BY DEF Jobs
<1>2. queue' = Append(queue, j) /\ Len(queue) - InHand # QueueCap
  BY DEF Enqueue, ChannelFull
<1>3. queue \in Seq(Jobs) /\ Len(queue) \in Nat
  BY LenProperties DEF QueueOK
<1> HIDE DEF j
<1>4. queue' \in Seq(Jobs) /\ Len(queue') = Len(queue) + 1
  BY <1>1, <1>2, <1>3, AppendProperties
<1>5. QueueCap \in Nat
  BY FetchPipelineAssumption DEF QueueCap
<1>6. tx.size \in Nat /\ tx.size <= Len(queue)
  BY FetchPipelineAssumption DEF QueueOK
<1>7. InHand \in Nat /\ Len(queue) - InHand <= QueueCap /\ InHand' = InHand
  BY InHandType, FetchPipelineAssumption DEF QueueOK, InHand
<1>8. Len(queue') - InHand' <= QueueCap /\ tx.size <= Len(queue')
  BY <1>2, <1>3, <1>4, <1>5, <1>6, <1>7
<1> QED
  BY <1>4, <1>8 DEF QueueOK

(* A goroutine moves on.                                                   *)
LEMMA MoveType ==
  ASSUME FetchOK, NEW p \in Goroutine,
         NEW s \in Owning \cup {"idle", "claim", "done"},
         pc' = [pc EXCEPT ![p] = s],
         UNCHANGED <<upstream, fetching, todo, job, outcome>>
  PROVE  FetchOK'
  BY DEF FetchOK

(* A goroutine returns.                                                    *)
LEMMA ReturnType ==
  ASSUME FetchOK, NEW p \in Goroutine, NEW o \in {"success", "failure"},
         Return(p, o), UNCHANGED <<upstream, fetching, todo, job>>
  PROVE  FetchOK'
  BY DEF FetchOK, Return, Owning

-----------------------------------------------------------------------------
(* Types.  A goroutine that has come as far as "store" holds the version   *)
(* of a document, not the absence of a validator: what it submits to the   *)
(* queue is well typed for that reason only.                               *)

HoldsDocument ==
  \A p \in Goroutine :
    pc[p] \in {"store", "submit", "await", "mark"} => job[p].version \in Version

TypeInv == TypeOK /\ HoldsDocument

(* Every initial state is well typed.                                      *)
LEMMA TypeInit == Init => TypeInv
<1> SUFFICES ASSUME Init PROVE TypeInv
  OBVIOUS
<1>1. 0 \in Version /\ NoTag \in Version \cup {NoTag}
  BY FetchPipelineAssumption DEF Version
<1>2. (CHOOSE f \in Feed : TRUE) \in Feed
  BY FetchPipelineAssumption
<1>3. TablesOK
  BY <1>1 DEF Init, TablesOK, NoRow
<1>4. FetchOK
  BY <1>2 DEF Init, FetchOK
<1>5. QueueOK
  <2>1. queue = <<>> /\ queue \in Seq(Jobs) /\ Len(queue) = 0
    BY EmptySeq DEF Init
  <2>2. 0 - InHand <= QueueCap /\ 0 \in 0 .. MaxBatchSize
    BY FetchPipelineAssumption DEF Init, InHand, QueueCap
  <2> QED
    BY <2>1, <2>2 DEF Init, QueueOK
<1>6. HoldsDocument
  BY DEF Init, HoldsDocument
<1> QED
  BY <1>3, <1>4, <1>5, <1>6, Parts DEF TypeInv

(* What happens outside of the program keeps the types.                    *)
LEMMA OutsideType == TypeInv /\ Outside => TypeInv'
<1> SUFFICES ASSUME TypeInv, NEW f \in Feed,
                    \/ Publish(f) \/ TimePasses(f) \/ SuspensionEnds(f)
                    \/ Suspend(f) \/ Delete(f)
             PROVE  TypeInv'
  BY DEF Outside
<1>1. TablesOK /\ FetchOK /\ QueueOK /\ HoldsDocument
  BY Parts DEF TypeInv
<1>2. CASE Publish(f)
  <2>1. FetchOK'
    <3>1. upstream[f] + 1 \in Version
      BY <1>1, <1>2, FetchPipelineAssumption DEF Publish, FetchOK, Version
    <3> QED
      BY <1>1, <1>2, <3>1 DEF Publish, FetchOK
  <2>2. TablesOK' /\ QueueOK' /\ HoldsDocument'
    BY <1>1, <1>2 DEF Publish, dbVars, TablesOK, QueueOK, InHand, HoldsDocument
  <2> QED
    BY <2>1, <2>2 DEF TypeInv, TypeOK, TablesOK, FetchOK, QueueOK
<1>3. CASE TimePasses(f) \/ SuspensionEnds(f) \/ Suspend(f) \/ Delete(f)
  <2>1. TablesOK'
    BY <1>1, <1>3, FetchPipelineAssumption
       DEF TimePasses, SuspensionEnds, Suspend, Delete, TablesOK, NoRow, Version
  <2>2. FetchOK' /\ QueueOK' /\ HoldsDocument'
    BY <1>1, <1>3 DEF TimePasses, SuspensionEnds, Suspend, Delete, fetchVars,
                      FetchOK, QueueOK, InHand, HoldsDocument
  <2> QED
    BY <2>1, <2>2 DEF TypeInv, TypeOK, TablesOK, FetchOK, QueueOK
<1> QED
  BY <1>2, <1>3

(* The rounds of the scheduler keep the types.                             *)
LEMMA SchedulerType == TypeInv /\ Scheduler => TypeInv'
<1> SUFFICES ASSUME TypeInv, Scheduler PROVE TypeInv'
  OBVIOUS
<1>1. TablesOK /\ FetchOK /\ QueueOK /\ HoldsDocument
  BY Parts DEF TypeInv
<1> USE DEF dbVars, TablesOK, HoldsDocument
<1>2. CASE ListFeedsToFetch
  BY <1>1, <1>2 DEF ListFeedsToFetch, TypeInv, TypeOK, FetchOK, QueueOK, InHand
<1>3. CASE \E f \in Feed : SkipFeed(f)
  BY <1>1, <1>3 DEF SkipFeed, TypeInv, TypeOK, FetchOK, QueueOK, InHand
<1>4. ASSUME NEW f \in Feed, DeferFeed(f) PROVE TypeInv'
  <2>1. QueueOK'
    <3>1. 0 \in Version
      BY FetchPipelineAssumption DEF Version
    <3>2. Enqueue("defer", f, 0, NoRequest) /\ UNCHANGED <<tx, result>>
      BY <1>4 DEF DeferFeed
    <3> QED
      BY <1>1, <3>1, <3>2, EnqueueType
  <2>2. TablesOK' /\ FetchOK' /\ HoldsDocument'
    BY <1>1, <1>4 DEF DeferFeed, FetchOK
  <2> QED
    BY <2>1, <2>2 DEF TypeInv, TypeOK, FetchOK, QueueOK
<1>5. ASSUME NEW f \in Feed, NEW w \in Worker, AddTask(f, w) PROVE TypeInv'
  <2>1. FetchOK'
    BY <1>1, <1>5 DEF AddTask, FetchOK, Goroutine
  <2>2. TablesOK' /\ QueueOK'
    BY <1>1, <1>5 DEF AddTask, QueueOK, InHand
  <2>3. HoldsDocument'
    BY <1>1, <1>5 DEF AddTask, FetchOK, Goroutine
  <2> QED
    BY <2>1, <2>2, <2>3 DEF TypeInv, TypeOK, FetchOK, QueueOK
<1> QED
  BY <1>2, <1>3, <1>4, <1>5 DEF Scheduler

(* The steps of a fetch keep the types.                                    *)
LEMMA FetchType ==
  ASSUME TypeInv, NEW p \in Goroutine, Fetch(p)
  PROVE  TypeInv'
<1>1. TablesOK /\ FetchOK /\ QueueOK /\ HoldsDocument
  BY Parts DEF TypeInv
<1>2. TablesOK' /\ FetchOK' /\ QueueOK' /\ HoldsDocument' => TypeInv'
  BY DEF TypeInv, TypeOK, TablesOK, FetchOK, QueueOK
<1> USE <1>1 DEF dbVars
<1>3. CASE Claim(p)
  <2>1. FetchOK'
    BY <1>3 DEF Claim, After, FetchOK, Owning
  <2>2. TablesOK' /\ QueueOK' /\ HoldsDocument'
    BY <1>3 DEF Claim, After, FetchOK, TablesOK, QueueOK, InHand, HoldsDocument
  <2> QED
    BY <1>2, <2>1, <2>2
<1>4. CASE Release(p)
  <2>1. FetchOK'
    BY <1>4 DEF Release, After, FetchOK
  <2>2. TablesOK' /\ QueueOK' /\ HoldsDocument'
    BY <1>4 DEF Release, After, FetchOK, TablesOK, QueueOK, InHand, HoldsDocument
  <2> QED
    BY <1>2, <2>1, <2>2
<1>5. CASE GetFeedFetcher(p)
  <2>1. FetchOK'
    BY <1>5 DEF GetFeedFetcher, FetchOK, TablesOK, Owning
  <2>2. TablesOK' /\ QueueOK' /\ HoldsDocument'
    BY <1>5 DEF GetFeedFetcher, FetchOK, TablesOK, QueueOK, InHand, HoldsDocument
  <2> QED
    BY <1>2, <2>1, <2>2
<1>6. CASE NotModified(p)
  <2>1. FetchOK'
    BY <1>6 DEF NotModified, FetchOK, Owning
  <2>2. TablesOK' /\ QueueOK' /\ HoldsDocument'
    BY <1>6 DEF NotModified, FetchOK, TablesOK, QueueOK, InHand, HoldsDocument
  <2> QED
    BY <1>2, <2>1, <2>2
<1>7. CASE Fetched(p)
  <2>1. FetchOK'
    BY <1>7 DEF Fetched, FetchOK, Owning
  <2>2. TablesOK' /\ QueueOK' /\ HoldsDocument'
    BY <1>7 DEF Fetched, FetchOK, TablesOK, QueueOK, InHand, HoldsDocument
  <2> QED
    BY <1>2, <2>1, <2>2
<1>8. CASE ServerError(p) \/ NoAnswer(p) \/ ClientError(p)
  <2>1. FetchOK'
    BY <1>8 DEF ServerError, NoAnswer, ClientError, Return, FetchOK, Owning
  <2>2. TablesOK' /\ QueueOK' /\ HoldsDocument'
    BY <1>8 DEF ServerError, NoAnswer, ClientError, Return, FetchOK, TablesOK,
                QueueOK, InHand, HoldsDocument
  <2> QED
    BY <1>2, <2>1, <2>2
<1>9. CASE DeleteFeedFetcher(p)
  <2>1. FetchOK'
    BY <1>9, ReturnType DEF DeleteFeedFetcher
  <2>2. TablesOK'
    <3>1. UNCHANGED <<feeds, saved>> /\ job[p].feed \in Feed
      BY <1>9 DEF DeleteFeedFetcher, FetchOK
    <3>2. row' = row \/ row' = [row EXCEPT ![job[p].feed] = NoRow]
      BY <1>9 DEF DeleteFeedFetcher
    <3>3. 0 \in Version
      BY FetchPipelineAssumption DEF Version
    <3> QED
      BY <3>1, <3>2, <3>3 DEF TablesOK, NoRow
  <2>3. QueueOK' /\ HoldsDocument'
    BY <1>9 DEF DeleteFeedFetcher, Return, FetchOK, QueueOK, InHand, HoldsDocument
  <2> QED
    BY <1>2, <2>1, <2>2, <2>3
<1>10. CASE StoreValidators(p)
  <2>1. job[p].version \in Version
    BY <1>10 DEF StoreValidators, HoldsDocument
  <2>2. FetchOK'
    BY <1>10 DEF StoreValidators, Return, FetchOK, Owning
  <2>3. TablesOK'
    <3>1. UNCHANGED <<feeds, saved>>
      BY <1>10 DEF StoreValidators
    <3>2. row' = row \/ row' = [row EXCEPT ![job[p].feed].etag = job[p].version]
      BY <1>10 DEF StoreValidators
    <3> QED
      BY <2>1, <3>1, <3>2 DEF TablesOK
  <2>4. QueueOK' /\ HoldsDocument'
    BY <1>10, <2>1 DEF StoreValidators, Return, FetchOK, QueueOK, InHand, HoldsDocument
  <2> QED
    BY <1>2, <2>2, <2>3, <2>4
<1>11. CASE SubmitItems(p)
  <2>1. job[p].version \in Version /\ job[p].feed \in Feed
    BY <1>11 DEF SubmitItems, HoldsDocument, FetchOK
  <2>2. QueueOK'
    <3> DEFINE v == job[p].version
               f == job[p].feed
               r == IF p \in Request THEN p ELSE NoRequest
    <3>1. r \in Request \cup {NoRequest} /\ v \in Version /\ f \in Feed
      BY <2>1
    <3>2. Enqueue("save", f, v, r) /\ UNCHANGED <<tx, result>>
      BY <1>11 DEF SubmitItems
    <3> HIDE DEF v, f, r
    <3> QED
      BY <3>1, <3>2, EnqueueType
  <2>3. FetchOK'
    BY <1>11 DEF SubmitItems, FetchOK, Owning
  <2>4. TablesOK' /\ HoldsDocument'
    BY <1>11 DEF SubmitItems, FetchOK, TablesOK, HoldsDocument
  <2> QED
    BY <1>2, <2>2, <2>3, <2>4
<1>12. CASE MarkFetched(p)
  <2>1. job[p].version \in Version /\ job[p].feed \in Feed
    BY <1>12 DEF MarkFetched, HoldsDocument, FetchOK
  <2>2. QueueOK'
    <3> DEFINE v == job[p].version
               f == job[p].feed
    <3>1. v \in Version /\ f \in Feed
      BY <2>1
    <3>2. Enqueue("mark", f, v, NoRequest) /\ UNCHANGED <<tx, result>>
      BY <1>12 DEF MarkFetched
    <3> HIDE DEF v, f
    <3> QED
      BY <3>1, <3>2, EnqueueType
  <2>3. FetchOK'
    BY <1>12, ReturnType DEF MarkFetched
  <2>4. TablesOK' /\ HoldsDocument'
    BY <1>12 DEF MarkFetched, Return, FetchOK, TablesOK, HoldsDocument
  <2> QED
    BY <1>2, <2>2, <2>3, <2>4
<1> QED
  BY <1>3, <1>4, <1>5, <1>6, <1>7, <1>8, <1>9, <1>10, <1>11, <1>12 DEF Fetch

(* The steps of a request that only requests take keep the types.          *)
LEMMA RequestType ==
  ASSUME TypeInv, NEW r \in Request,
         AwaitResult(r) \/ Cancel(r) \/ \E f \in Feed : Refresh(f, r)
  PROVE  TypeInv'
<1>1. TablesOK /\ FetchOK /\ QueueOK /\ HoldsDocument
  BY Parts DEF TypeInv
<1>2. TablesOK' /\ QueueOK'
  BY <1>1 DEF AwaitResult, Cancel, Refresh, dbVars, TablesOK, QueueOK, InHand
<1>3. FetchOK'
  <2>1. CASE AwaitResult(r) \/ \E f \in Feed : Refresh(f, r)
    BY <1>1, <2>1 DEF AwaitResult, Refresh, Return, FetchOK, Owning, Goroutine
  <2>2. CASE Cancel(r)
    BY <1>1, <2>2, ReturnType DEF Cancel, Goroutine
  <2> QED
    BY <2>1, <2>2
<1>4. HoldsDocument'
  BY <1>1 DEF AwaitResult, Cancel, Refresh, Return, FetchOK, HoldsDocument, Goroutine
<1> QED
  BY <1>2, <1>3, <1>4 DEF TypeInv, TypeOK, TablesOK, FetchOK, QueueOK

(* Executing and settling a batch keep the types.                          *)
LEMMA FlushType == TypeInv /\ Flush => TypeInv'
<1> SUFFICES ASSUME TypeInv, Flush PROVE TypeInv'
  OBVIOUS
<1>1. TablesOK /\ FetchOK /\ QueueOK /\ HoldsDocument
  BY Parts DEF TypeInv
<1>2. ASSUME NEW n \in 1 .. MaxBatchSize,
             Block(n) \/ \E k \in 1 .. MaxBatchSize + 1 : Execute(n, k)
      PROVE  TypeInv'
  <2>1. TablesOK' /\ FetchOK' /\ HoldsDocument'
    BY <1>1, <1>2 DEF Block, Execute, dbVars, fetchVars, TablesOK, FetchOK,
                      HoldsDocument
  <2>2. QueueOK'
    <3>1. PICK phase \in {"commit", "rollback", "stuck"} :
            tx' = [size |-> n, phase |-> phase]
      BY <1>2 DEF Block, Execute
    <3>2. n \in 0 .. MaxBatchSize /\ n # 0 /\ tx'.size = n /\ tx'.phase = phase
      BY <3>1, FetchPipelineAssumption
    <3>3. n <= Len(queue) /\ Len(queue) - n <= QueueCap /\ queue' = queue
      BY <1>2 DEF Block, Execute, Flushable
    <3>4. result' \in [Request -> {"none", "ok", "error"}]
      BY <1>1, <1>2 DEF Block, Execute, QueueOK
    <3>5. InHand' = n
      BY <3>2 DEF InHand
    <3> QED
      BY <1>1, <3>1, <3>2, <3>3, <3>4, <3>5 DEF QueueOK
  <2> QED
    BY <2>1, <2>2 DEF TypeInv, TypeOK, TablesOK, FetchOK, QueueOK
<1>3. CASE Settle
  <2>1. FetchOK' /\ HoldsDocument' /\ feeds' = feeds
    BY <1>1, <1>3 DEF Settle, fetchVars, FetchOK, HoldsDocument
  <2>2. TablesOK'
    <3>1. CASE tx.phase = "commit"
      <4>1. Applied
        BY <1>3, <3>1 DEF Settle
      <4>2. PICK last \in [Feed -> Version] :
              row' = [f \in Feed |->
                IF JobsFor(f, {"mark", "defer"}) # {}
                THEN [row[f] EXCEPT !.next = "later", !.last = last[f]]
                ELSE row[f]]
        BY <4>1 DEF Applied
      <4>3. row' \in [Feed -> [etag : Version \cup {NoTag}, last : Version,
                              next : {"null", "due", "later", "suspended"}]]
        BY <1>1, <4>2 DEF TablesOK
      <4>4. saved' \in [Feed -> Version]
        BY <4>1 DEF Applied
      <4> QED
        BY <1>1, <2>1, <4>3, <4>4 DEF TablesOK
    <3>2. CASE tx.phase # "commit"
      BY <1>1, <1>3, <2>1, <3>2 DEF Settle, TablesOK
    <3> QED
      BY <3>1, <3>2
  <2>3. QueueOK'
    <3> DEFINE n == tx.size
               L == Len(queue)
    <3>1. n \in 1 .. MaxBatchSize /\ n <= L
      BY <1>1, <1>3, FetchPipelineAssumption DEF Settle, QueueOK
    <3>2. queue \in Seq(Jobs) /\ L \in Nat /\ L - n <= QueueCap /\ QueueCap \in Nat
      BY <1>1, <1>3, LenProperties, FetchPipelineAssumption
         DEF Settle, QueueOK, QueueCap, InHand
    <3>3. queue' = SubSeq(queue, n + 1, L)
      BY <1>3 DEF Settle
    <3>4. n + 1 \in 1 .. L + 1 /\ L \in n + 1 - 1 .. L
      BY <3>1, <3>2, FetchPipelineAssumption
    <3>5. queue' \in Seq(Jobs) /\ Len(queue') <= QueueCap /\ Len(queue') >= 0
      <4> HIDE DEF n
      <4>1. queue' \in Seq(Jobs) /\ Len(queue') = IF n + 1 <= L THEN L - (n + 1) + 1 ELSE 0
        BY <3>1, <3>2, <3>3, <3>4, SubSeqProperties, FetchPipelineAssumption
      <4> QED
        BY <4>1, <3>1, <3>2, FetchPipelineAssumption
    <3>6. tx' = [size |-> 0, phase |-> "select"] /\ 0 \in 0 .. MaxBatchSize
      BY <1>3, FetchPipelineAssumption DEF Settle
    <3>8. Len(queue') - InHand' <= QueueCap
      BY <3>2, <3>5, <3>6, FetchPipelineAssumption DEF InHand
    <3>7. result' = result
      BY <1>3 DEF Settle
    <3> QED
      BY <1>1, <3>5, <3>6, <3>7, <3>8 DEF QueueOK
  <2> QED
    BY <2>1, <2>2, <2>3 DEF TypeInv, TypeOK, TablesOK, FetchOK, QueueOK
<1> QED
  BY <1>2, <1>3 DEF Flush

(* Every step keeps the types.                                             *)
LEMMA TypesStep == TypeInv /\ [Next]_vars => TypeInv'
<1> SUFFICES ASSUME TypeInv, [Next]_vars PROVE TypeInv'
  OBVIOUS
<1>1. CASE UNCHANGED vars
  BY <1>1 DEF vars, dbVars, fetchVars, TypeInv, TypeOK, InHand, HoldsDocument
<1>2. CASE Next
  BY <1>2, OutsideType, SchedulerType, FetchType, RequestType, FlushType DEF Next
<1> QED
  BY <1>1, <1>2

(* The strengthened invariant, to be used by the proofs that follow.       *)
LEMMA TypesHold == Spec => []TypeInv
  BY TypeInit, TypesStep, PTL DEF Spec

(* TypeOK, for any number of feeds, workers and refreshes.                 *)
THEOREM TypeCorrect == Spec => []TypeOK
<1>1. TypeInv => TypeOK
  BY DEF TypeInv
<1> QED
  BY TypesHold, <1>1, PTL

-----------------------------------------------------------------------------
(* Claims.                                                                 *)

(* A step that neither claims nor releases keeps the claims exact: it      *)
(* leaves fetching alone, moves no goroutine into or out of the states     *)
(* that own a feed, and changes the feed of no owner.                      *)
LEMMA KeepsClaims ==
  ASSUME FetchingExact, fetching' = fetching,
         \A p \in Goroutine : pc'[p] \in Owning <=> pc[p] \in Owning,
         \A p \in Goroutine : pc[p] \in Owning => job'[p].feed = job[p].feed
  PROVE  FetchingExact'
  BY DEF FetchingExact

(* A goroutine takes a task or a request, and owns nothing yet.            *)
LEMMA TaskKeepsClaims ==
  ASSUME TypeInv, FetchingExact, NEW f \in Feed, NEW p \in Goroutine,
         pc[p] = "idle",
         pc' = [pc EXCEPT ![p] = "claim"],
         job' = [job EXCEPT ![p].feed = f],
         fetching' = fetching
  PROVE  FetchingExact'
<1>1. FetchOK
  BY Parts DEF TypeInv
<1>2. \A q \in Goroutine : pc'[q] \in Owning <=> pc[q] \in Owning
  BY <1>1 DEF FetchOK, Owning
<1>3. \A q \in Goroutine : pc[q] \in Owning => job'[q].feed = job[q].feed
  BY <1>1 DEF FetchOK, Owning
<1> QED
  BY <1>2, <1>3, KeepsClaims

(* An owner moves on within its fetch.                                     *)
LEMMA OwnerKeepsClaims ==
  ASSUME TypeInv, FetchingExact, NEW p \in Goroutine, NEW s \in Owning,
         pc[p] \in Owning,
         pc' = [pc EXCEPT ![p] = s],
         \A q \in Goroutine : job'[q].feed = job[q].feed,
         fetching' = fetching
  PROVE  FetchingExact'
<1>1. FetchOK
  BY Parts DEF TypeInv
<1>2. \A q \in Goroutine : pc'[q] \in Owning <=> pc[q] \in Owning
  BY <1>1 DEF FetchOK
<1> QED
  BY <1>2, KeepsClaims

(* The two steps that change fetching keep it exact: only a feed nobody    *)
(* owns is claimed, and no two goroutines own the feed that is released.   *)
LEMMA ClaimExact ==
  ASSUME TypeInv, FetchingExact, NEW p \in Goroutine, Claim(p)
  PROVE  FetchingExact'
<1>1. FetchOK
  BY Parts DEF TypeInv
<1>2. job' = job /\ pc[p] = "claim" /\ job[p].feed \in Feed
  BY <1>1 DEF Claim, FetchOK
<1>3. CASE job[p].feed \in fetching
  <2>1. fetching' = fetching /\ pc' = [pc EXCEPT ![p] = After(p)]
    BY <1>3 DEF Claim
  <2>2. \A q \in Goroutine : pc'[q] \in Owning <=> pc[q] \in Owning
    BY <1>1, <1>2, <2>1 DEF FetchOK, Owning, After
  <2> QED
    BY <1>2, <2>1, <2>2, KeepsClaims
<1>4. CASE job[p].feed \notin fetching
  <2>1. /\ fetching' = fetching \cup {job[p].feed}
        /\ pc' = [pc EXCEPT ![p] = "cached"]
    BY <1>4 DEF Claim
  <2>2. pc'[p] \in Owning /\ pc[p] \notin Owning
    BY <1>1, <1>2, <2>1 DEF FetchOK, Owning
  <2>3. \A q \in Goroutine : q # p => pc'[q] = pc[q]
    BY <1>1, <2>1 DEF FetchOK
  <2>4. \A q \in Goroutine : pc[q] \in Owning => job[q].feed # job[p].feed
    BY <1>2, <1>4 DEF FetchingExact
  <2>5. ASSUME NEW f \in Feed
        PROVE  f \in fetching' <=> \E q \in Goroutine : pc'[q] \in Owning /\ job'[q].feed = f
    <3>1. CASE f = job[p].feed
      BY <1>2, <2>1, <2>2, <3>1
    <3>2. CASE f # job[p].feed
      BY <1>2, <2>1, <2>2, <2>3, <3>2 DEF FetchingExact
    <3> QED
      BY <3>1, <3>2
  <2>6. ASSUME NEW q \in Goroutine, NEW r \in Goroutine, q # r,
               pc'[q] \in Owning, pc'[r] \in Owning
        PROVE  job'[q].feed # job'[r].feed
    <3>1. CASE q # p /\ r # p
      BY <1>2, <2>3, <2>6, <3>1 DEF FetchingExact
    <3>2. CASE q = p \/ r = p
      BY <1>2, <2>3, <2>4, <2>6, <3>2
    <3> QED
      BY <3>1, <3>2
  <2> QED
    BY <2>5, <2>6 DEF FetchingExact
<1> QED
  BY <1>3, <1>4

(* See ClaimExact.                                                         *)
LEMMA ReleaseExact ==
  ASSUME TypeInv, FetchingExact, NEW p \in Goroutine, Release(p)
  PROVE  FetchingExact'
<1>1. FetchOK
  BY Parts DEF TypeInv
<1>2. /\ pc[p] \in Owning /\ job[p].feed \in Feed
      /\ fetching' = fetching \ {job[p].feed}
      /\ pc' = [pc EXCEPT ![p] = After(p)]
  BY <1>1 DEF Release, FetchOK, Owning
<1>3. \A q \in Goroutine : job'[q].feed = job[q].feed
  BY <1>1 DEF Release, FetchOK
<1>4. pc'[p] \notin Owning /\ \A q \in Goroutine : q # p => pc'[q] = pc[q]
  BY <1>1, <1>2 DEF FetchOK, Owning, After
<1>5. ASSUME NEW f \in Feed
      PROVE  f \in fetching' <=> \E q \in Goroutine : pc'[q] \in Owning /\ job'[q].feed = f
  <2>1. CASE f = job[p].feed
    BY <1>2, <1>3, <1>4, <2>1 DEF FetchingExact
  <2>2. CASE f # job[p].feed
    BY <1>2, <1>3, <1>4, <2>2 DEF FetchingExact
  <2> QED
    BY <2>1, <2>2
<1>6. ASSUME NEW q \in Goroutine, NEW r \in Goroutine, q # r,
             pc'[q] \in Owning, pc'[r] \in Owning
      PROVE  job'[q].feed # job'[r].feed
  BY <1>3, <1>4, <1>6 DEF FetchingExact
<1> QED
  BY <1>5, <1>6 DEF FetchingExact

(* Every step of a fetch keeps the claims exact.                           *)
LEMMA FetchClaims ==
  ASSUME TypeInv, FetchingExact, NEW p \in Goroutine, Fetch(p)
  PROVE  FetchingExact'
<1>1. FetchOK
  BY Parts DEF TypeInv
<1>2. CASE Claim(p)
  BY <1>2, ClaimExact
<1>3. CASE Release(p)
  BY <1>3, ReleaseExact
<1>4. CASE GetFeedFetcher(p) \/ Fetched(p)
  <2>1. \A q \in Goroutine : job'[q].feed = job[q].feed
    BY <1>1, <1>4 DEF GetFeedFetcher, Fetched, FetchOK
  <2>2. \E s \in Owning : pc' = [pc EXCEPT ![p] = s]
    BY <1>4 DEF GetFeedFetcher, Fetched, Owning
  <2>3. pc[p] \in Owning /\ fetching' = fetching
    BY <1>4 DEF GetFeedFetcher, Fetched, Owning
  <2> QED
    BY <2>1, <2>2, <2>3, OwnerKeepsClaims
<1>5. CASE \/ NotModified(p) \/ ServerError(p) \/ NoAnswer(p) \/ ClientError(p)
           \/ DeleteFeedFetcher(p) \/ StoreValidators(p)
           \/ SubmitItems(p) \/ MarkFetched(p)
  <2>1. job' = job /\ fetching' = fetching
    BY <1>5 DEF NotModified, ServerError, NoAnswer, ClientError, DeleteFeedFetcher,
                StoreValidators, SubmitItems, MarkFetched
  <2>2. \E s \in Owning : pc' = [pc EXCEPT ![p] = s]
    BY <1>5 DEF NotModified, ServerError, NoAnswer, ClientError, DeleteFeedFetcher,
                StoreValidators, SubmitItems, MarkFetched, Return, Owning
  <2>3. pc[p] \in Owning
    BY <1>5 DEF NotModified, ServerError, NoAnswer, ClientError, DeleteFeedFetcher,
                StoreValidators, SubmitItems, MarkFetched, Owning
  <2> QED
    BY <2>1, <2>2, <2>3, OwnerKeepsClaims
<1> QED
  BY <1>2, <1>3, <1>4, <1>5 DEF Fetch

(* Every step keeps the claims exact.                                      *)
LEMMA ClaimsStep == TypeInv /\ FetchingExact /\ [Next]_vars => FetchingExact'
<1> SUFFICES ASSUME TypeInv, FetchingExact, [Next]_vars PROVE FetchingExact'
  OBVIOUS
<1>1. ASSUME fetching' = fetching, pc' = pc, job' = job PROVE FetchingExact'
  BY <1>1, KeepsClaims
<1>2. CASE Outside \/ Flush \/ UNCHANGED vars
  BY <1>1, <1>2 DEF Outside, Publish, TimePasses, SuspensionEnds, Suspend, Delete,
                    Flush, Block, Execute, Settle, vars, dbVars, fetchVars
<1>3. CASE Scheduler
  <2>1. CASE ListFeedsToFetch \/ \E f \in Feed : SkipFeed(f) \/ DeferFeed(f)
    BY <1>1, <2>1 DEF ListFeedsToFetch, SkipFeed, DeferFeed
  <2>2. ASSUME NEW f \in Feed, NEW w \in Worker, AddTask(f, w) PROVE FetchingExact'
    BY <2>2, TaskKeepsClaims DEF AddTask, Goroutine
  <2> QED
    BY <1>3, <2>1, <2>2 DEF Scheduler
<1>4. ASSUME NEW r \in Request, AwaitResult(r) \/ Cancel(r) PROVE FetchingExact'
  <2>1. job' = job /\ fetching' = fetching /\ pc[r] \in Owning /\ r \in Goroutine
    BY <1>4 DEF AwaitResult, Cancel, Owning, Goroutine
  <2>2. \E s \in Owning : pc' = [pc EXCEPT ![r] = s]
    BY <1>4 DEF AwaitResult, Cancel, Return, Owning
  <2> QED
    BY <2>1, <2>2, OwnerKeepsClaims
<1>5. ASSUME NEW f \in Feed, NEW r \in Request, Refresh(f, r) PROVE FetchingExact'
  BY <1>5, TaskKeepsClaims DEF Refresh, Goroutine
<1> QED
  BY <1>2, <1>3, <1>4, <1>5, FetchClaims DEF Next

(* FetchingExact: whatever fails and whoever leaves, a feed is marked as   *)
(* being fetched exactly while one goroutine fetches it.                   *)
THEOREM ClaimsExact == Spec => []FetchingExact
<1>1. Init => FetchingExact
  BY DEF Init, FetchingExact, Owning
<1> QED
  BY <1>1, TypesHold, ClaimsStep, PTL DEF Spec
-----------------------------------------------------------------------------
(* As long as bodies are read to their end, transactions commit and no     *)
(* feed is deleted, nothing that speaks for items - a validator, a mark, a *)
(* reported success - is ever ahead of the items.                          *)


\* What FetchTruncated and FetchFaults let happen and the theorems exclude.
Faultless == ~Truncation /\ ~Contention /\ Deletable = {}

-----------------------------------------------------------------------------
(* The inductive invariant.                                                *)

\* The items of version v of f are saved or wait to be saved.
Secured(f, v) == v <= saved[f] \/ Pending(f, v)

\* Without faults no job fails, and every batch under way commits.
AllCommit == Faultless /\ feeds = Feed /\ tx.phase \in {"select", "commit"}

MarksInTable == \A f \in Feed : row[f].last <= saved[f]

\* A mark that waits is behind the items it speaks for.
MarksInQueue ==
  \A i \in 1 .. Len(queue) : queue[i].kind = "mark" =>
    \/ queue[i].version <= saved[queue[i].feed]
    \/ \E k \in 1 .. i - 1 : /\ queue[k].kind = "save"
                             /\ queue[k].feed = queue[i].feed
                             /\ queue[k].version >= queue[i].version

\* The version a goroutine got from the table, or has handed to the queue.
HeldSecured ==
  \A p \in Goroutine : pc[p] \in {"get", "await", "mark"} =>
    Secured(job[p].feed, job[p].version)

TagsSecured ==
  \A f \in Feed :
    \/ Secured(f, row[f].etag)
    \/ \E p \in Goroutine : /\ pc[p] = "submit" /\ job[p].feed = f
                            /\ job[p].version >= row[f].etag

\* A request that reports success is over: what it holds stays what it is.
SuccessSecured ==
  \A r \in Request : outcome[r] = "success" =>
    /\ pc[r] \in {"release", "done"}
    /\ Secured(job[r].feed, job[r].version)

CoverInv ==
  /\ AllCommit
  /\ MarksInTable /\ MarksInQueue
  /\ HeldSecured /\ TagsSecured /\ SuccessSecured

-----------------------------------------------------------------------------
(* The channel and the table of items.                                     *)

\* Secured in the next state, of a feed and a version given in this one.
SecuredNext(f, v) ==
  \/ v <= saved'[f]
  \/ \E i \in DOMAIN queue' :
       queue'[i].kind = "save" /\ queue'[i].feed = f /\ queue'[i].version >= v

\* A step loses no items.
Stays ==
  \A f \in Feed, v \in Version \cup {NoTag} : Secured(f, v) => SecuredNext(f, v)

(* The channel is a sequence of jobs with typed fields.                    *)
LEMMA Elements ==
  ASSUME TypeInv
  PROVE  /\ queue \in Seq(Jobs) /\ Len(queue) \in Nat
         /\ DOMAIN queue = 1 .. Len(queue)
         /\ \A i \in 1 .. Len(queue) :
              queue[i].feed \in Feed /\ queue[i].version \in Version
<1>1. queue \in Seq(Jobs)
  BY DEF TypeInv, TypeOK
<1>2. Len(queue) \in Nat /\ DOMAIN queue = 1 .. Len(queue)
  BY <1>1, LenProperties
<1>3. \A i \in 1 .. Len(queue) : queue[i] \in Jobs
  BY <1>1, ElementOfSeq
<1> QED
  BY <1>1, <1>2, <1>3 DEF Jobs

(* See Elements.                                                           *)
LEMMA ElementsNext ==
  ASSUME TypeInv'
  PROVE  \A i \in DOMAIN queue' : queue'[i].version \in Version
<1>1. queue' \in Seq(Jobs)
  BY DEF TypeInv, TypeOK
<1>2. DOMAIN queue' = 1 .. Len(queue')
  BY <1>1, LenProperties
<1>3. \A i \in 1 .. Len(queue') : queue'[i] \in Jobs
  BY <1>1, ElementOfSeq
<1> QED
  BY <1>2, <1>3 DEF Jobs

(* Versions and the absence of one are integers.                           *)
LEMMA VersionsAreInts == Version \cup {NoTag} \subseteq Int
  BY FetchPipelineAssumption DEF Version, NoTag

(* A send adds a job behind those that wait.                               *)
LEMMA Sent ==
  ASSUME TypeInv, NEW kind \in {"save", "mark", "defer"}, NEW f \in Feed,
         NEW v \in Version, NEW r \in Request \cup {NoRequest},
         Enqueue(kind, f, v, r)
  PROVE  /\ Len(queue') = Len(queue) + 1
         /\ DOMAIN queue' = 1 .. Len(queue) + 1
         /\ \A i \in 1 .. Len(queue) : queue'[i] = queue[i]
         /\ queue'[Len(queue) + 1].kind = kind
         /\ queue'[Len(queue) + 1].feed = f
         /\ queue'[Len(queue) + 1].version = v
<1> DEFINE j == [kind |-> kind, feed |-> f, version |-> v, request |-> r]
<1>1. queue' = Append(queue, j)
  BY DEF Enqueue
<1>2. j.kind = kind /\ j.feed = f /\ j.version = v
  OBVIOUS
<1>3. j \in Jobs /\ queue \in Seq(Jobs) /\ Len(queue) \in Nat
  BY Elements DEF Jobs
<1> HIDE DEF j
<1>4. /\ Len(queue') = Len(queue) + 1
      /\ \A i \in 1 .. Len(queue) : queue'[i] = queue[i]
      /\ queue'[Len(queue) + 1] = j
      /\ queue' \in Seq(Jobs)
  BY <1>1, <1>3, AppendProperties
<1>5. DOMAIN queue' = 1 .. Len(queue')
  BY <1>4, LenProperties
<1> QED
  BY <1>2, <1>4, <1>5

(* A send loses no items, and secures those it sends.                      *)
LEMMA SendSecures ==
  ASSUME TypeInv, NEW kind \in {"save", "mark", "defer"}, NEW f \in Feed,
         NEW v \in Version, NEW r \in Request \cup {NoRequest},
         Enqueue(kind, f, v, r), saved' = saved
  PROVE  Stays /\ (kind = "save" => SecuredNext(f, v))
<1>1. Stays
  <2> SUFFICES ASSUME NEW g \in Feed, NEW w \in Version \cup {NoTag}, Secured(g, w)
               PROVE  SecuredNext(g, w)
    BY DEF Stays
  <2>1. CASE w <= saved[g]
    BY <2>1 DEF SecuredNext
  <2>2. CASE Pending(g, w)
    <3>1. PICK i \in 1 .. Len(queue) :
            queue[i].kind = "save" /\ queue[i].feed = g /\ queue[i].version >= w
      BY <2>2, Elements DEF Pending
    <3>2. i \in DOMAIN queue' /\ queue'[i] = queue[i]
      BY <3>1, Sent, Elements
    <3> QED
      BY <3>1, <3>2 DEF SecuredNext
  <2> QED
    BY <2>1, <2>2 DEF Secured
<1>2. ASSUME kind = "save" PROVE SecuredNext(f, v)
  <2>1. Len(queue) + 1 \in DOMAIN queue' /\ v >= v
    BY Sent, Elements, VersionsAreInts
  <2> QED
    BY <1>2, <2>1, Sent DEF SecuredNext
<1> QED
  BY <1>1, <1>2

(* A mark is sent behind the items it speaks for.                          *)
LEMMA SendMarks ==
  ASSUME TypeInv, MarksInQueue,
         NEW kind \in {"save", "mark", "defer"}, NEW f \in Feed,
         NEW v \in Version, NEW r \in Request \cup {NoRequest},
         Enqueue(kind, f, v, r), saved' = saved,
         kind = "mark" => Secured(f, v)
  PROVE  MarksInQueue'
<1> DEFINE n == Len(queue)
<1>1. n \in Nat /\ Len(queue') = n + 1
  BY Elements, Sent
<1> SUFFICES ASSUME NEW i \in 1 .. n + 1, queue'[i].kind = "mark"
             PROVE  \/ queue'[i].version <= saved'[queue'[i].feed]
                    \/ \E k \in 1 .. i - 1 : /\ queue'[k].kind = "save"
                                             /\ queue'[k].feed = queue'[i].feed
                                             /\ queue'[k].version >= queue'[i].version
  BY <1>1 DEF MarksInQueue
<1>2. \A k \in 1 .. n : queue'[k] = queue[k]
  BY Sent
<1>3. CASE i \in 1 .. n
  <2>1. queue'[i] = queue[i] /\ \A k \in 1 .. i - 1 : queue'[k] = queue[k]
    BY <1>1, <1>2, <1>3
  <2> QED
    BY <1>3, <2>1 DEF MarksInQueue
<1>4. CASE i = n + 1
  <2>1. queue'[i].feed = f /\ queue'[i].version = v /\ kind = "mark"
    BY <1>4, Sent
  <2>2. CASE v <= saved[f]
    BY <2>1, <2>2
  <2>3. CASE Pending(f, v)
    <3>1. PICK k \in 1 .. n :
            queue[k].kind = "save" /\ queue[k].feed = f /\ queue[k].version >= v
      BY <2>3, Elements DEF Pending
    <3>2. k \in 1 .. i - 1 /\ queue'[k] = queue[k]
      BY <1>1, <1>2, <1>4
    <3> QED
      BY <2>1, <3>1, <3>2
  <2> QED
    BY <2>1, <2>2, <2>3 DEF Secured
<1> QED
  BY <1>1, <1>3, <1>4

-----------------------------------------------------------------------------
(* A batch that commits.                                                   *)

(* The batch under way is the front of the channel.                        *)
LEMMA BatchIsFront ==
  ASSUME TypeInv
  PROVE  /\ tx.size \in Nat /\ tx.size <= Len(queue)
         /\ DOMAIN Batch = 1 .. tx.size
         /\ \A i \in 1 .. tx.size : Batch[i] = queue[i]
<1> DEFINE n == tx.size
<1>1. n \in Nat /\ n <= Len(queue)
  BY FetchPipelineAssumption DEF TypeInv, TypeOK
<1>2. Batch = SubSeq(queue, 1, n)
  BY DEF Batch
<1>3. queue \in Seq(Jobs) /\ Len(queue) \in Nat
  BY Elements
<1> HIDE DEF n
<1>4. 1 \in 1 .. Len(queue) + 1 /\ n \in 1 - 1 .. Len(queue)
  BY <1>1, <1>3
<1>5. /\ Batch \in Seq(Jobs) /\ Len(Batch) = n
      /\ \A i \in 1 .. n : Batch[i] = queue[i]
  BY <1>1, <1>2, <1>3, <1>4, SubSeqProperties
<1>6. DOMAIN Batch = 1 .. n
  BY <1>5, LenProperties
<1> QED
  BY <1>1, <1>5, <1>6 DEF n

(* What a commit does to the items: those of the batch are saved, and      *)
(* nothing that was saved is lost.                                         *)
LEMMA SettleSaves ==
  ASSUME TypeInv, AllCommit, Settle
  PROVE  /\ Applied
         /\ saved' \in [Feed -> Version]
         /\ \A f \in Feed : saved[f] <= saved'[f]
         /\ \A i \in 1 .. tx.size : queue[i].kind = "save" =>
              queue[i].version <= saved'[queue[i].feed]
<1>1. Applied
  BY DEF Settle, AllCommit
<1>2. saved' \in [Feed -> Version] /\ \A f \in Feed : Newest(f, saved'[f])
  BY <1>1 DEF Applied
<1>3. \A f \in Feed : saved[f] <= saved'[f]
  BY <1>2 DEF Newest
<1>4. ASSUME NEW i \in 1 .. tx.size, queue[i].kind = "save"
      PROVE  queue[i].version <= saved'[queue[i].feed]
  <2> DEFINE f == queue[i].feed
  <2>1. i \in DOMAIN Batch /\ Batch[i] = queue[i]
    BY BatchIsFront
  <2>2. f \in Feed
    BY BatchIsFront, Elements
  <2>3. i \in JobsFor(f, {"save"})
    BY <1>4, <2>1 DEF JobsFor
  <2> QED
    BY <1>2, <2>1, <2>2, <2>3 DEF Newest
<1> QED
  BY <1>1, <1>2, <1>3, <1>4

(* What it leaves on the channel.                                          *)
LEMMA SettleLeaves ==
  ASSUME TypeInv, Settle
  PROVE  /\ Len(queue') = Len(queue) - tx.size
         /\ DOMAIN queue' = 1 .. Len(queue) - tx.size
         /\ \A i \in 1 .. Len(queue) - tx.size : queue'[i] = queue[i + tx.size]
<1> DEFINE n == tx.size
           L == Len(queue)
<1>1. n \in Nat /\ n <= L /\ L \in Nat /\ queue \in Seq(Jobs) /\ n > 0
  BY BatchIsFront, Elements DEF Settle, TypeInv, TypeOK
<1>2. queue' = SubSeq(queue, n + 1, L)
  BY DEF Settle
<1> HIDE DEF n
<1>3. n + 1 \in 1 .. L + 1 /\ L \in n + 1 - 1 .. L
  BY <1>1
<1>4. /\ queue' \in Seq(Jobs)
      /\ Len(queue') = IF n + 1 <= L THEN L - (n + 1) + 1 ELSE 0
      /\ \A i \in 1 .. L - (n + 1) + 1 : queue'[i] = queue[n + 1 + i - 1]
  BY <1>1, <1>2, <1>3, SubSeqProperties
<1>5. Len(queue') = L - n /\ \A i \in 1 .. L - n : queue'[i] = queue[i + n]
  <2>1. L - (n + 1) + 1 = L - n /\ \A i \in 1 .. L - n : n + 1 + i - 1 = i + n
    BY <1>1
  <2>2. Len(queue') = L - n
    BY <1>1, <1>4
  <2> QED
    BY <1>4, <2>1, <2>2
<1>6. DOMAIN queue' = 1 .. L - n
  BY <1>4, <1>5, LenProperties
<1> QED
  BY <1>5, <1>6 DEF n

(* A commit loses no items.                                                *)
LEMMA SettleSecures ==
  ASSUME TypeInv, AllCommit, Settle
  PROVE  Stays
<1> SUFFICES ASSUME NEW f \in Feed, NEW v \in Version \cup {NoTag}, Secured(f, v)
             PROVE  SecuredNext(f, v)
  BY DEF Stays
<1> DEFINE n == tx.size
<1>1. v \in Int /\ saved[f] \in Int /\ saved'[f] \in Int /\ saved[f] <= saved'[f]
  BY SettleSaves, VersionsAreInts DEF TypeInv, TypeOK
<1>2. CASE v <= saved[f]
  BY <1>1, <1>2 DEF SecuredNext
<1>3. CASE Pending(f, v)
  <2>1. PICK i \in 1 .. Len(queue) :
          queue[i].kind = "save" /\ queue[i].feed = f /\ queue[i].version >= v
    BY <1>3, Elements DEF Pending
  <2>2. n \in Nat /\ Len(queue) \in Nat /\ queue[i].version \in Int
    BY BatchIsFront, Elements, VersionsAreInts
  <2>3. CASE i <= n
    <3>1. queue[i].version <= saved'[f]
      BY <2>1, <2>2, <2>3, SettleSaves
    <3> QED
      BY <1>1, <2>1, <2>2, <3>1 DEF SecuredNext
  <2>4. CASE i > n
    <3> DEFINE k == i - n
    <3>1. k \in 1 .. Len(queue) - n /\ k + n = i
      BY <2>2, <2>4
    <3>2. k \in DOMAIN queue' /\ queue'[k] = queue[i]
      BY <3>1, SettleLeaves
    <3> QED
      BY <2>1, <3>2 DEF SecuredNext
  <2> QED
    BY <2>2, <2>3, <2>4
<1> QED
  BY <1>2, <1>3 DEF Secured

(* The marks that stay on the channel are behind their items, or those are *)
(* saved now.                                                              *)
LEMMA SettleMarks ==
  ASSUME TypeInv, AllCommit, MarksInQueue, Settle
  PROVE  MarksInQueue'
<1> DEFINE n == tx.size
           m == Len(queue) - n
<1>0. n = tx.size /\ m = Len(queue) - n /\ Len(queue') = m
  BY SettleLeaves
<1>1. n \in Nat /\ Len(queue) \in Nat /\ m \in Nat
  BY BatchIsFront, Elements
<1> HIDE DEF n, m
<1> SUFFICES ASSUME NEW i \in 1 .. m, queue'[i].kind = "mark"
             PROVE  \/ queue'[i].version <= saved'[queue'[i].feed]
                    \/ \E k \in 1 .. i - 1 : /\ queue'[k].kind = "save"
                                             /\ queue'[k].feed = queue'[i].feed
                                             /\ queue'[k].version >= queue'[i].version
  BY <1>0 DEF MarksInQueue
<1> DEFINE f == queue[i + n].feed
           v == queue[i + n].version
<1>2. /\ queue'[i] = queue[i + n] /\ i + n \in 1 .. Len(queue)
      /\ queue'[i].feed = f /\ queue'[i].version = v
      /\ f = queue[i + n].feed /\ v = queue[i + n].version
  BY <1>0, <1>1, SettleLeaves
<1>3. f \in Feed /\ v \in Int /\ saved[f] \in Int /\ saved'[f] \in Int
  BY <1>2, Elements, SettleSaves, VersionsAreInts DEF TypeInv, TypeOK
<1>4. CASE v <= saved[f]
  BY <1>2, <1>3, <1>4, SettleSaves
<1> HIDE DEF f, v
<1>5. CASE \E k \in 1 .. i + n - 1 : /\ queue[k].kind = "save"
                                     /\ queue[k].feed = f
                                     /\ queue[k].version >= v
  <2>1. PICK k \in 1 .. i + n - 1 :
          queue[k].kind = "save" /\ queue[k].feed = f /\ queue[k].version >= v
    BY <1>5
  <2>2. k \in 1 .. Len(queue) /\ queue[k].version \in Int
    BY <1>1, <1>2, <2>1, Elements, VersionsAreInts DEF f, v
  <2>3. CASE k <= n
    <3>1. k \in 1 .. tx.size
      BY <1>0, <1>1, <2>1, <2>3
    <3>2. queue[k].version <= saved'[f]
      BY <2>1, <3>1, SettleSaves
    <3> QED
      BY <1>2, <1>3, <2>1, <2>2, <3>2
  <2>4. CASE k > n
    <3>1. PICK h \in 1 .. m : h \in 1 .. i - 1 /\ h + n = k
      <4>1. k - n \in 1 .. m /\ k - n \in 1 .. i - 1 /\ k - n + n = k
        BY <1>1, <2>4
      <4> QED
        BY <4>1
    <3>2. queue'[h] = queue[k]
      BY <1>0, <3>1, SettleLeaves
    <3> QED
      BY <1>2, <2>1, <3>1, <3>2
  <2> QED
    BY <1>1, <2>2, <2>3, <2>4
<1> QED
  <2>1. CASE v <= saved[f]
    BY <1>4, <2>1
  <2>2. v <= saved[f] \/ \E k \in 1 .. i + n - 1 : /\ queue[k].kind = "save"
                                                  /\ queue[k].feed = f
                                                  /\ queue[k].version >= v
    <3>1. PICK g \in 1 .. Len(queue) : g = i + n
      BY <1>2
    <3>2. queue[g].kind = "mark" /\ queue[g].feed = f /\ queue[g].version = v
      BY <1>2, <3>1
    <3>3. v <= saved[f] \/ \E k \in 1 .. g - 1 : /\ queue[k].kind = "save"
                                                /\ queue[k].feed = f
                                                /\ queue[k].version >= v
      BY <3>2 DEF MarksInQueue
    <3> QED
      BY <1>1, <3>1, <3>3
  <2> QED
    BY <1>4, <1>5, <2>2

(* A commit brings no mark into the table before its items, and touches no *)
(* validator.                                                              *)
LEMMA SettleTable ==
  ASSUME TypeInv, AllCommit, MarksInTable, MarksInQueue, Settle
  PROVE  MarksInTable' /\ \A f \in Feed : row'[f].etag = row[f].etag
<1>1. PICK last \in [Feed -> Version] :
        /\ \A f \in Feed : LastMark(f, last[f])
        /\ row' = [f \in Feed |->
             IF JobsFor(f, {"mark", "defer"}) # {}
             THEN [row[f] EXCEPT !.next = "later", !.last = last[f]]
             ELSE row[f]]
  BY SettleSaves DEF Applied
<1>2. row \in [Feed -> [etag : Version \cup {NoTag}, last : Version,
                        next : {"null", "due", "later", "suspended"}]]
  BY DEF TypeInv, TypeOK
<1>3. \A f \in Feed : row'[f].etag = row[f].etag
  BY <1>1, <1>2
<1>4. ASSUME NEW f \in Feed PROVE row'[f].last <= saved'[f]
  <2>1. row[f].last \in Int /\ saved[f] \in Int /\ saved'[f] \in Int
    BY <1>2, SettleSaves, VersionsAreInts DEF TypeInv, TypeOK
  <2>2. row[f].last <= saved'[f]
    BY <2>1, SettleSaves DEF MarksInTable
  <2>3. ASSUME NEW i \in JobsFor(f, {"mark"}) PROVE Batch[i].version <= saved'[f]
    <3>1. i \in 1 .. tx.size /\ queue[i].kind = "mark" /\ queue[i].feed = f
      BY <2>3, BatchIsFront DEF JobsFor
    <3>2. i \in 1 .. Len(queue) /\ tx.size \in Nat /\ queue[i].version \in Int
      <4>1. tx.size \in Nat /\ i \in 1 .. Len(queue)
        BY <3>1, BatchIsFront
      <4>2. queue[i].version \in Version
        BY <4>1, Elements
      <4> QED
        BY <4>1, <4>2, VersionsAreInts
    <3>3. CASE queue[i].version <= saved[f]
      BY <2>1, <3>1, <3>2, <3>3, BatchIsFront, SettleSaves
    <3>4. CASE \E k \in 1 .. i - 1 : /\ queue[k].kind = "save"
                                     /\ queue[k].feed = f
                                     /\ queue[k].version >= queue[i].version
      <4>1. PICK k \in 1 .. i - 1 : /\ queue[k].kind = "save"
                                    /\ queue[k].feed = f
                                    /\ queue[k].version >= queue[i].version
        BY <3>4
      <4>2. k \in 1 .. tx.size /\ k \in 1 .. Len(queue)
        BY <3>1, <3>2, BatchIsFront, Elements
      <4>3. queue[k].version <= saved'[f] /\ queue[k].version \in Int
        BY <4>1, <4>2, SettleSaves, Elements, VersionsAreInts
      <4> QED
        BY <2>1, <3>1, <3>2, <4>1, <4>3, BatchIsFront
    <3> QED
      BY <3>1, <3>2, <3>3, <3>4 DEF MarksInQueue
  <2>4. last[f] <= saved'[f]
    BY <1>1, <2>2, <2>3 DEF LastMark
  <2> QED
    BY <1>1, <1>2, <2>2, <2>4
<1> QED
  BY <1>3, <1>4 DEF MarksInTable

-----------------------------------------------------------------------------
(* The goroutines.                                                         *)

(* What goroutines hold and the table has are a feed and a version, or the *)
(* absence of one.                                                         *)
LEMMA Held ==
  ASSUME TypeInv
  PROVE  /\ \A p \in Goroutine : /\ job[p].feed \in Feed
                                 /\ job[p].version \in Version \cup {NoTag}
         /\ \A f \in Feed : /\ row[f].etag \in Version \cup {NoTag}
                            /\ saved[f] \in Nat
<1>1. saved \in [Feed -> Version] /\ Version \subseteq Nat
  BY FetchPipelineAssumption DEF TypeInv, TypeOK, Version
<1> QED
  BY <1>1 DEF TypeInv, TypeOK

(* A step that sends and saves nothing loses no items, either.             *)
LEMMA QuietSecures ==
  ASSUME UNCHANGED <<queue, saved>>
  PROVE  /\ Stays
         /\ MarksInQueue => MarksInQueue'
<1>1. Stays
  BY DEF Stays, Secured, SecuredNext, Pending
<1>2. MarksInQueue => MarksInQueue'
  BY DEF MarksInQueue
<1> QED
  BY <1>1, <1>2

(* A step of one goroutine: what the others hold and have reported stays   *)
(* secured.                                                                *)
LEMMA OthersSecured ==
  ASSUME TypeInv, HeldSecured, SuccessSecured, Stays, NEW p \in Goroutine,
         \A q \in Goroutine : q # p => pc'[q] = pc[q] /\ job'[q] = job[q],
         \A r \in Request : r # p => outcome'[r] = outcome[r],
         pc'[p] \in {"get", "await", "mark"} =>
           SecuredNext(job'[p].feed, job'[p].version),
         p \in Request /\ outcome'[p] = "success" =>
           /\ pc'[p] \in {"release", "done"}
           /\ SecuredNext(job'[p].feed, job'[p].version)
  PROVE  HeldSecured' /\ SuccessSecured'
<1>1. \A q \in Goroutine : Secured(job[q].feed, job[q].version) =>
                           SecuredNext(job[q].feed, job[q].version)
  BY Held DEF Stays
<1>2. \A q \in Goroutine : pc'[q] \in {"get", "await", "mark"} =>
                           SecuredNext(job'[q].feed, job'[q].version)
  BY <1>1 DEF HeldSecured
<1>3. \A r \in Request : outcome'[r] = "success" =>
        pc'[r] \in {"release", "done"} /\ SecuredNext(job'[r].feed, job'[r].version)
  BY <1>1 DEF SuccessSecured, Goroutine
<1> QED
  BY <1>2, <1>3 DEF HeldSecured, SuccessSecured, Secured, SecuredNext, Pending

(* A step that caches no new validator, and after which a goroutine that   *)
(* was about to submit still is, or has done so.                           *)
LEMMA TagsKept ==
  ASSUME TypeInv, TypeInv', TagsSecured, Stays,
         \A f \in Feed : row'[f].etag = row[f].etag \/ row'[f].etag = NoTag,
         \A p \in Goroutine : pc[p] = "submit" =>
           /\ job'[p] = job[p]
           /\ pc'[p] = "submit" \/ SecuredNext(job[p].feed, job[p].version)
  PROVE  TagsSecured'
<1> SUFFICES ASSUME NEW f \in Feed
             PROVE  \/ SecuredNext(f, row'[f].etag)
                    \/ \E p \in Goroutine : /\ pc'[p] = "submit" /\ job'[p].feed = f
                                            /\ job'[p].version >= row'[f].etag
  BY DEF TagsSecured, Secured, SecuredNext, Pending
<1>1. CASE row'[f].etag = NoTag
  <2>1. saved'[f] \in Version
    BY DEF TypeInv, TypeOK
  <2>2. NoTag <= saved'[f]
    BY <2>1, FetchPipelineAssumption DEF NoTag, Version
  <2> QED
    BY <1>1, <2>2 DEF SecuredNext
<1>2. CASE row'[f].etag = row[f].etag
  <2>1. CASE Secured(f, row[f].etag)
    BY <1>2, <2>1, Held DEF Stays
  <2>2. ASSUME NEW p \in Goroutine, pc[p] = "submit", job[p].feed = f,
               job[p].version >= row[f].etag
        PROVE  \/ SecuredNext(f, row'[f].etag)
               \/ pc'[p] = "submit" /\ job'[p].feed = f
                  /\ job'[p].version >= row'[f].etag
    <3>1. CASE pc'[p] = "submit"
      BY <1>2, <2>2, <3>1
    <3>2. CASE SecuredNext(f, job[p].version)
      <4>1. CASE job[p].version <= saved'[f]
        <5>1. saved'[f] \in Int
          BY VersionsAreInts DEF TypeInv, TypeOK
        <5> QED
          BY <1>2, <2>2, <4>1, <5>1, Held, VersionsAreInts DEF SecuredNext
      <4>2. CASE \E i \in DOMAIN queue' : /\ queue'[i].kind = "save"
                                          /\ queue'[i].feed = f
                                          /\ queue'[i].version >= job[p].version
        <5>1. PICK i \in DOMAIN queue' : /\ queue'[i].kind = "save"
                                         /\ queue'[i].feed = f
                                         /\ queue'[i].version >= job[p].version
          BY <4>2
        <5>2. queue'[i].version \in Int
          BY <5>1, ElementsNext, VersionsAreInts
        <5> QED
          BY <1>2, <2>2, <5>1, <5>2, Held, VersionsAreInts DEF SecuredNext
      <4> QED
        BY <3>2, <4>1, <4>2 DEF SecuredNext
    <3> QED
      BY <2>2, <3>1, <3>2
  <2> QED
    BY <2>1, <2>2 DEF TagsSecured
<1> QED
  BY <1>1, <1>2

-----------------------------------------------------------------------------
(* The steps.                                                              *)

(* Initially there are no items and nothing that speaks for any.           *)
LEMMA CoverInit == Init /\ Faultless => CoverInv
<1> SUFFICES ASSUME Init, Faultless PROVE CoverInv
  OBVIOUS
<1>1. AllCommit
  BY DEF Init, AllCommit
<1>2. MarksInTable
  <2>1. \A f \in Feed : row[f] = NoRow /\ saved[f] = 0
    BY DEF Init
  <2>2. NoRow.last = 0 /\ 0 <= 0
    BY DEF NoRow
  <2> QED
    BY <2>1, <2>2 DEF MarksInTable
<1>3. MarksInQueue
  <2>1. queue = <<>> /\ Len(queue) = 0
    BY EmptySeq DEF Init
  <2> QED
    BY <2>1 DEF MarksInQueue
<1>4. HeldSecured /\ SuccessSecured
  BY DEF Init, HeldSecured, SuccessSecured
<1>5. TagsSecured
  <2>1. NoTag <= 0
    BY DEF NoTag
  <2> QED
    BY <2>1 DEF Init, NoRow, TagsSecured, Secured
<1> QED
  BY <1>1, <1>2, <1>3, <1>4, <1>5 DEF CoverInv

(* Publishers, the clock and users do not disturb any of it.               *)
LEMMA OutsideCover ==
  ASSUME TypeInv, TypeInv', CoverInv, Outside
  PROVE  CoverInv'
<1> SUFFICES ASSUME NEW f \in Feed,
                    \/ Publish(f) \/ TimePasses(f) \/ SuspensionEnds(f)
                    \/ Suspend(f) \/ Delete(f)
             PROVE  CoverInv'
  BY DEF Outside
<1>1. ~Delete(f)
  BY DEF Delete, CoverInv, AllCommit, Faultless
<1>2. /\ UNCHANGED <<feeds, saved, queue, tx, pc, job, outcome>>
      /\ \A g \in Feed : row'[g].etag = row[g].etag /\ row'[g].last = row[g].last
  <2>1. UNCHANGED <<feeds, saved, queue, tx, pc, job, outcome>>
    BY <1>1 DEF Publish, TimePasses, SuspensionEnds, Suspend, dbVars, fetchVars
  <2>2. row' = row \/ \E s : row' = [row EXCEPT ![f].next = s]
    BY <1>1 DEF Publish, TimePasses, SuspensionEnds, Suspend, dbVars
  <2>3. row \in [Feed -> [etag : Version \cup {NoTag}, last : Version,
                          next : {"null", "due", "later", "suspended"}]]
    BY DEF TypeInv, TypeOK
  <2>4. \A g \in Feed : row'[g].etag = row[g].etag /\ row'[g].last = row[g].last
    BY <2>2, <2>3
  <2> QED
    BY <2>1, <2>4
<1>3. AllCommit' /\ MarksInTable'
  BY <1>2 DEF CoverInv, AllCommit, Faultless, MarksInTable
<1>4. Stays /\ MarksInQueue'
  BY <1>2, QuietSecures DEF CoverInv
<1>5. HeldSecured' /\ SuccessSecured'
  BY <1>2 DEF CoverInv, HeldSecured, SuccessSecured, Secured, Pending
<1>6. TagsSecured'
  BY <1>2, <1>4, TagsKept DEF CoverInv
<1> QED
  BY <1>3, <1>4, <1>5, <1>6 DEF CoverInv

(* The steps of a goroutine that send nothing and leave the table alone.   *)
LEMMA QuietCover ==
  ASSUME TypeInv, TypeInv', CoverInv, NEW p \in Goroutine,
         UNCHANGED <<dbVars, queue, tx>>,
         \A q \in Goroutine : q # p => pc'[q] = pc[q] /\ job'[q] = job[q],
         \A r \in Request : r # p => outcome'[r] = outcome[r],
         pc[p] # "submit",
         pc'[p] \in {"get", "await", "mark"} =>
           Secured(job'[p].feed, job'[p].version),
         p \in Request /\ outcome'[p] = "success" =>
           /\ pc'[p] \in {"release", "done"}
           /\ Secured(job'[p].feed, job'[p].version)
  PROVE  CoverInv'
<1>1. AllCommit' /\ MarksInTable'
  BY DEF CoverInv, AllCommit, Faultless, MarksInTable, dbVars
<1>2. Stays /\ MarksInQueue'
  BY QuietSecures DEF CoverInv, dbVars
<1>3. SecuredNext(job'[p].feed, job'[p].version) <=>
      Secured(job'[p].feed, job'[p].version)
  BY DEF Secured, SecuredNext, Pending, dbVars
<1>4. HeldSecured' /\ SuccessSecured'
  BY <1>2, <1>3, OthersSecured DEF CoverInv
<1>5. TagsSecured'
  <2>1. \A f \in Feed : row'[f].etag = row[f].etag
    BY DEF dbVars
  <2>2. \A q \in Goroutine : pc[q] = "submit" => pc'[q] = "submit" /\ job'[q] = job[q]
    OBVIOUS
  <2> QED
    BY <1>2, <2>1, <2>2, TagsKept DEF CoverInv
<1> QED
  BY <1>1, <1>2, <1>4, <1>5 DEF CoverInv

(* The rounds of the scheduler and new requests.                           *)
LEMMA TaskCover ==
  ASSUME TypeInv, TypeInv', CoverInv,
         Scheduler \/ \E r \in Request, f \in Feed : Refresh(f, r)
  PROVE  CoverInv'
<1>1. CASE ListFeedsToFetch \/ \E f \in Feed : SkipFeed(f)
  <2>1. UNCHANGED <<dbVars, queue, tx, pc, job, outcome>>
    BY <1>1 DEF ListFeedsToFetch, SkipFeed
  <2> QED
    BY <2>1 DEF CoverInv, AllCommit, Faultless, MarksInTable, MarksInQueue,
                HeldSecured, SuccessSecured, TagsSecured, Secured, Pending, dbVars
<1>2. ASSUME NEW f \in Feed, DeferFeed(f) PROVE CoverInv'
  <2>1. /\ UNCHANGED <<dbVars, tx, pc, job, outcome>> /\ 0 \in Version
        /\ Enqueue("defer", f, 0, NoRequest)
    BY <1>2, FetchPipelineAssumption DEF DeferFeed, Version
  <2>2. AllCommit' /\ MarksInTable'
    BY <2>1 DEF CoverInv, AllCommit, Faultless, MarksInTable, dbVars
  <2>3. Stays /\ MarksInQueue'
    BY <2>1, SendSecures, SendMarks DEF CoverInv, dbVars
  <2>4. HeldSecured' /\ SuccessSecured'
    <3>1. \A p \in Goroutine : Secured(job[p].feed, job[p].version) =>
                               SecuredNext(job[p].feed, job[p].version)
      BY <2>3, Held DEF Stays
    <3>2. /\ \A p \in Goroutine : pc[p] \in {"get", "await", "mark"} =>
               SecuredNext(job[p].feed, job[p].version)
          /\ \A r \in Request : outcome[r] = "success" =>
               /\ pc[r] \in {"release", "done"}
               /\ SecuredNext(job[r].feed, job[r].version)
      BY <3>1 DEF CoverInv, HeldSecured, SuccessSecured, Goroutine
    <3> QED
      BY <2>1, <3>2 DEF HeldSecured, SuccessSecured, Secured, SecuredNext, Pending
  <2>5. TagsSecured'
    BY <2>1, <2>3, TagsKept DEF CoverInv, dbVars
  <2> QED
    BY <2>2, <2>3, <2>4, <2>5 DEF CoverInv
<1>3. ASSUME NEW f \in Feed, NEW p \in Goroutine,
             \/ p \in Worker /\ AddTask(f, p)
             \/ p \in Request /\ Refresh(f, p)
      PROVE  CoverInv'
  <2>1. /\ UNCHANGED <<dbVars, queue, tx, outcome>> /\ pc[p] = "idle"
        /\ pc' = [pc EXCEPT ![p] = "claim"]
        /\ job' = [job EXCEPT ![p].feed = f]
    BY <1>3 DEF AddTask, Refresh
  <2>2. /\ pc'[p] = "claim"
        /\ \A q \in Goroutine : q # p => pc'[q] = pc[q] /\ job'[q] = job[q]
    BY <2>1 DEF TypeInv, TypeOK
  <2>3. p \in Request => outcome'[p] # "success"
    BY <2>1 DEF CoverInv, SuccessSecured
  <2> QED
    BY <2>1, <2>2, <2>3, QuietCover
<1> QED
  BY <1>1, <1>2, <1>3 DEF Scheduler, Goroutine

(* What a goroutine reads from the table, a 304 vouches for and a 200      *)
(* brings: no version gets into a mark before its items are under way.     *)
LEMMA RequestCover ==
  ASSUME TypeInv, TypeInv', CoverInv, FetchingExact, NEW p \in Goroutine,
         GetFeedFetcher(p) \/ NotModified(p) \/ Fetched(p)
  PROVE  CoverInv'
<1>1. /\ UNCHANGED <<dbVars, queue, tx, outcome>>
      /\ pc[p] \in {"cached", "get"}
  BY DEF GetFeedFetcher, NotModified, Fetched
<1>2. \A q \in Goroutine : q # p => pc'[q] = pc[q] /\ job'[q] = job[q]
  BY DEF GetFeedFetcher, NotModified, Fetched, TypeInv, TypeOK
<1>3. p \in Request => outcome'[p] # "success"
  BY <1>1 DEF CoverInv, SuccessSecured
<1>4. pc'[p] \in {"get", "await", "mark"} => Secured(job'[p].feed, job'[p].version)
  <2>1. CASE GetFeedFetcher(p)
    <3>1. job'[p].feed = job[p].feed /\ job'[p].version = row[job[p].feed].etag
      BY <2>1 DEF GetFeedFetcher, TypeInv, TypeOK
    <3>2. pc[p] = "cached" /\ job[p].feed \in Feed
      BY <2>1, Held DEF GetFeedFetcher
    <3>3. \A q \in Goroutine : pc[q] = "submit" => job[q].feed # job[p].feed
      BY <3>2 DEF FetchingExact, Owning
    <3> QED
      BY <3>1, <3>2, <3>3 DEF CoverInv, TagsSecured
  <2>2. CASE NotModified(p)
    BY <2>2 DEF NotModified, CoverInv, HeldSecured
  <2>3. CASE Fetched(p)
    <3>1. pc'[p] = "store"
      BY <2>3 DEF Fetched, TypeInv, TypeOK
    <3> QED
      BY <3>1
  <2> QED
    BY <2>1, <2>2, <2>3
<1> QED
  BY <1>1, <1>2, <1>3, <1>4, QuietCover

(* A goroutine that is turned back, fails, or releases its claim.          *)
LEMMA ReturnCover ==
  ASSUME TypeInv, TypeInv', CoverInv, NEW p \in Goroutine,
         Claim(p) \/ ServerError(p) \/ NoAnswer(p) \/ ClientError(p) \/ Release(p)
  PROVE  CoverInv'
<1>1. UNCHANGED <<dbVars, queue, tx>> /\ pc[p] \in {"claim", "get", "release"}
  BY DEF Claim, ServerError, NoAnswer, ClientError, Release
<1>2. /\ \A q \in Goroutine : q # p => pc'[q] = pc[q] /\ job'[q] = job[q]
      /\ \A r \in Request : r # p => outcome'[r] = outcome[r]
  BY DEF Claim, ServerError, NoAnswer, ClientError, Release, Return, TypeInv, TypeOK
<1>3. pc'[p] \notin {"get", "await", "mark"}
  BY DEF Claim, ServerError, NoAnswer, ClientError, Release, Return, After, TypeInv, TypeOK
<1>4. ASSUME p \in Request, outcome'[p] = "success"
      PROVE  /\ pc'[p] \in {"release", "done"}
             /\ Secured(job'[p].feed, job'[p].version)
  <2>1. p \notin Worker
    BY <1>4, FetchPipelineAssumption
  <2>2. CASE Release(p)
    <3>1. pc'[p] = "done" /\ job'[p] = job[p] /\ outcome' = outcome
      BY <2>1, <2>2 DEF Release, After, TypeInv, TypeOK
    <3> QED
      BY <1>4, <3>1 DEF CoverInv, SuccessSecured
  <2>3. CASE Claim(p) \/ ServerError(p) \/ NoAnswer(p) \/ ClientError(p)
    <3>1. outcome'[p] \in {outcome[p], "failure"} /\ pc[p] \in {"claim", "get"}
      BY <1>4, <2>3 DEF Claim, ServerError, NoAnswer, ClientError, Return, TypeInv, TypeOK
    <3> QED
      BY <1>4, <3>1 DEF CoverInv, SuccessSecured
  <2> QED
    BY <2>2, <2>3
<1> QED
  BY <1>1, <1>2, <1>3, <1>4, QuietCover

(* After a 5xx answer the row is gone, and says nothing any more.          *)
LEMMA ForgetCover ==
  ASSUME TypeInv, TypeInv', CoverInv, NEW p \in Goroutine, DeleteFeedFetcher(p)
  PROVE  CoverInv'
<1>1. /\ UNCHANGED <<feeds, saved, queue, tx, job>> /\ pc[p] = "forget"
      /\ pc'[p] = "release"
      /\ \A q \in Goroutine : q # p => pc'[q] = pc[q]
      /\ \A r \in Request : r # p => outcome'[r] = outcome[r]
      /\ p \in Request => outcome'[p] = "failure"
  BY DEF DeleteFeedFetcher, Return, TypeInv, TypeOK
<1>2. \A f \in Feed : row'[f] = row[f] \/ row'[f] = NoRow
  BY DEF DeleteFeedFetcher, TypeInv, TypeOK
<1>3. AllCommit'
  BY <1>1 DEF CoverInv, AllCommit, Faultless
<1>4. MarksInTable'
  <2>1. NoRow.last = 0 /\ \A f \in Feed : 0 <= saved[f]
    BY Held DEF NoRow
  <2> QED
    BY <1>1, <1>2, <2>1 DEF CoverInv, MarksInTable
<1>5. Stays /\ MarksInQueue'
  BY <1>1, QuietSecures DEF CoverInv
<1>6. HeldSecured' /\ SuccessSecured'
  BY <1>1, <1>5, OthersSecured DEF CoverInv
<1>7. TagsSecured'
  <2>1. \A f \in Feed : row'[f].etag = row[f].etag \/ row'[f].etag = NoTag
    BY <1>2 DEF NoRow
  <2>2. \A q \in Goroutine : pc[q] = "submit" => job'[q] = job[q] /\ pc'[q] = "submit"
    BY <1>1
  <2> QED
    BY <1>5, <2>1, <2>2, TagsKept DEF CoverInv
<1> QED
  BY <1>3, <1>4, <1>5, <1>6, <1>7 DEF CoverInv

(* The validators of a response are cached by the goroutine that is about  *)
(* to submit its items, or that has none to submit.                        *)
LEMMA StoreCover ==
  ASSUME TypeInv, TypeInv', CoverInv, NEW p \in Goroutine, StoreValidators(p)
  PROVE  CoverInv'
<1> DEFINE f == job[p].feed
           v == job[p].version
<1>1. f \in Feed /\ v \in Version /\ v \in Nat
  BY Held, FetchPipelineAssumption
     DEF TypeInv, HoldsDocument, StoreValidators, Version
<1>2. /\ UNCHANGED <<feeds, saved, queue, tx, job>> /\ pc[p] = "store"
      /\ \A q \in Goroutine : q # p => pc'[q] = pc[q]
  BY DEF StoreValidators, Return, TypeInv, TypeOK
<1>3. /\ pc'[p] = IF v > 0 THEN "submit" ELSE "mark"
      /\ outcome' = outcome
  BY DEF StoreValidators, CoverInv, AllCommit, Faultless, TypeInv, TypeOK
<1>4. row' = row \/ row' = [row EXCEPT ![f].etag = v]
  BY DEF StoreValidators
<1>5. row \in [Feed -> [etag : Version \cup {NoTag}, last : Version,
                        next : {"null", "due", "later", "suspended"}]]
  BY DEF TypeInv, TypeOK
<1> HIDE DEF f, v
<1>6. /\ \A g \in Feed : row'[g].last = row[g].last
      /\ \A g \in Feed : row'[g].etag = row[g].etag \/ (g = f /\ row'[g].etag = v)
  BY <1>4, <1>5
<1>7. AllCommit' /\ MarksInTable'
  BY <1>2, <1>6 DEF CoverInv, AllCommit, Faultless, MarksInTable
<1>8. Stays /\ MarksInQueue'
  BY <1>2, QuietSecures DEF CoverInv
<1>9. v = 0 => SecuredNext(f, v)
  BY <1>1, <1>2, Held DEF SecuredNext
<1>10. HeldSecured' /\ SuccessSecured'
  <2>1. pc'[p] \in {"get", "await", "mark"} => SecuredNext(job'[p].feed, job'[p].version)
    <3>1. pc'[p] \in {"get", "await", "mark"} => v = 0
      BY <1>1, <1>3
    <3> QED
      BY <1>2, <1>9, <3>1 DEF f, v
  <2>2. p \in Request => outcome'[p] # "success"
    BY <1>2, <1>3 DEF CoverInv, SuccessSecured
  <2> QED
    BY <1>2, <1>3, <1>8, <2>1, <2>2, OthersSecured DEF CoverInv
<1>11. TagsSecured'
  <2> SUFFICES ASSUME NEW g \in Feed
               PROVE  \/ SecuredNext(g, row'[g].etag)
                      \/ \E q \in Goroutine : /\ pc'[q] = "submit" /\ job'[q].feed = g
                                              /\ job'[q].version >= row'[g].etag
    BY DEF TagsSecured, Secured, SecuredNext, Pending
  <2>1. CASE row'[g].etag = row[g].etag
    <3>1. CASE Secured(g, row[g].etag)
      BY <1>8, <2>1, <3>1, Held DEF Stays
    <3>2. ASSUME NEW q \in Goroutine, pc[q] = "submit", job[q].feed = g,
                 job[q].version >= row[g].etag
          PROVE  pc'[q] = "submit" /\ job'[q].feed = g /\ job'[q].version >= row'[g].etag
      BY <1>2, <2>1, <3>2
    <3> QED
      BY <3>1, <3>2 DEF CoverInv, TagsSecured
  <2>2. CASE g = f /\ row'[g].etag = v
    <3>1. CASE v = 0
      BY <1>9, <2>2, <3>1
    <3>2. CASE v > 0
      <4>1. pc'[p] = "submit" /\ job'[p].feed = f /\ job'[p].version = v /\ v >= v
        BY <1>1, <1>2, <1>3, <3>2 DEF f, v
      <4> QED
        BY <2>2, <4>1
    <3> QED
      BY <1>1, <3>1, <3>2
  <2> QED
    BY <1>6, <2>1, <2>2
<1> QED
  BY <1>7, <1>8, <1>10, <1>11 DEF CoverInv

(* The items go into the channel first, the mark behind them.              *)
LEMMA SubmitCover ==
  ASSUME TypeInv, TypeInv', CoverInv, NEW p \in Goroutine,
         SubmitItems(p) \/ MarkFetched(p)
  PROVE  CoverInv'
<1> DEFINE f == job[p].feed
           v == job[p].version
           kind == IF pc[p] = "submit" THEN "save" ELSE "mark"
           r == IF pc[p] = "submit" /\ p \in Request THEN p ELSE NoRequest
<1>1. /\ UNCHANGED <<dbVars, tx, job>> /\ pc[p] \in {"submit", "mark"}
      /\ Enqueue(kind, f, v, r)
      /\ \A q \in Goroutine : q # p => pc'[q] = pc[q]
      /\ \A q \in Request : q # p => outcome'[q] = outcome[q]
  BY DEF SubmitItems, MarkFetched, Return, TypeInv, TypeOK
<1>2. /\ f \in Feed /\ v \in Version /\ r \in Request \cup {NoRequest}
      /\ kind \in {"save", "mark", "defer"}
  BY <1>1, Held DEF TypeInv, HoldsDocument
<1>3. kind = "mark" => Secured(f, v)
  BY <1>1 DEF CoverInv, HeldSecured
<1>4. kind = "save" <=> pc[p] = "submit"
  OBVIOUS
<1>5. AllCommit' /\ MarksInTable'
  BY <1>1 DEF CoverInv, AllCommit, Faultless, MarksInTable, dbVars
<1>6. Stays /\ (kind = "save" => SecuredNext(f, v)) /\ MarksInQueue'
  <2> HIDE DEF f, v, kind, r
  <2>1. saved' = saved
    BY <1>1 DEF dbVars
  <2>2. Stays /\ (kind = "save" => SecuredNext(f, v))
    BY <1>1, <1>2, <2>1, SendSecures
  <2>3. MarksInQueue'
    BY <1>1, <1>2, <1>3, <2>1, SendMarks DEF CoverInv
  <2> QED
    BY <2>2, <2>3
<1>7. SecuredNext(f, v)
  <2>1. CASE pc[p] = "submit"
    BY <1>4, <1>6, <2>1
  <2>2. CASE pc[p] = "mark"
    <3>1. Secured(f, v)
      BY <2>2 DEF CoverInv, HeldSecured
    <3> QED
      BY <1>2, <1>6, <3>1 DEF Stays
  <2> QED
    BY <1>1, <2>1, <2>2
<1>8. HeldSecured' /\ SuccessSecured'
  <2>1. SecuredNext(job'[p].feed, job'[p].version)
    BY <1>1, <1>7
  <2>2. p \in Request /\ outcome'[p] = "success" => pc'[p] \in {"release", "done"}
    <3>1. CASE SubmitItems(p)
      <4>1. outcome' = outcome /\ pc[p] = "submit"
        BY <3>1 DEF SubmitItems
      <4> QED
        BY <4>1 DEF CoverInv, SuccessSecured
    <3>2. CASE MarkFetched(p)
      BY <3>2 DEF MarkFetched, Return, TypeInv, TypeOK
    <3> QED
      BY <3>1, <3>2
  <2> QED
    BY <1>1, <1>6, <2>1, <2>2, OthersSecured DEF CoverInv
<1>9. TagsSecured'
  <2>1. \A g \in Feed : row'[g].etag = row[g].etag
    BY <1>1 DEF dbVars
  <2>2. \A q \in Goroutine : pc[q] = "submit" =>
          /\ job'[q] = job[q]
          /\ pc'[q] = "submit" \/ SecuredNext(job[q].feed, job[q].version)
    BY <1>1, <1>7
  <2> QED
    BY <1>6, <2>1, <2>2, TagsKept DEF CoverInv
<1> QED
  BY <1>5, <1>6, <1>8, <1>9 DEF CoverInv

(* A refresh that waits goes on with a result or gives up.                 *)
LEMMA AwaitCover ==
  ASSUME TypeInv, TypeInv', CoverInv, NEW r \in Request, AwaitResult(r) \/ Cancel(r)
  PROVE  CoverInv'
<1>1. /\ UNCHANGED <<dbVars, queue, tx, job>> /\ r \in Goroutine
      /\ pc[r] \in {"await", "silent"}
      /\ pc[r] = "silent" => pc'[r] = "release"
      /\ \A q \in Goroutine : q # r => pc'[q] = pc[q]
      /\ \A q \in Request : q # r => outcome'[q] = outcome[q]
  BY DEF AwaitResult, Cancel, Return, Goroutine, TypeInv, TypeOK
<1>2. pc'[r] # "release" => Secured(job'[r].feed, job'[r].version)
  BY <1>1 DEF CoverInv, HeldSecured
<1>3. outcome'[r] \in {outcome[r], "failure"}
  BY DEF AwaitResult, Cancel, Return, TypeInv, TypeOK
<1>4. outcome'[r] # "success"
  BY <1>1, <1>3 DEF CoverInv, SuccessSecured
<1> QED
  BY <1>1, <1>2, <1>4, QuietCover

(* No job fails, and every batch commits.                                  *)
LEMMA FlushCover ==
  ASSUME TypeInv, TypeInv', CoverInv, Flush
  PROVE  CoverInv'
<1>1. CASE Settle
  <2>1. UNCHANGED <<feeds, pc, job, outcome>> /\ tx' = [size |-> 0, phase |-> "select"]
    BY <1>1 DEF Settle, fetchVars
  <2>2. AllCommit'
    BY <2>1 DEF CoverInv, AllCommit, Faultless
  <2>3. Stays /\ MarksInQueue'
    BY <1>1, SettleSecures, SettleMarks DEF CoverInv
  <2>4. MarksInTable' /\ \A f \in Feed : row'[f].etag = row[f].etag
    BY <1>1, SettleTable DEF CoverInv
  <2>5. HeldSecured' /\ SuccessSecured'
    <3>1. \A p \in Goroutine : Secured(job[p].feed, job[p].version) =>
                               SecuredNext(job[p].feed, job[p].version)
      BY <2>3, Held DEF Stays
    <3>2. /\ \A p \in Goroutine : pc[p] \in {"get", "await", "mark"} =>
               SecuredNext(job[p].feed, job[p].version)
          /\ \A r \in Request : outcome[r] = "success" =>
               /\ pc[r] \in {"release", "done"}
               /\ SecuredNext(job[r].feed, job[r].version)
      BY <3>1 DEF CoverInv, HeldSecured, SuccessSecured, Goroutine
    <3> QED
      BY <2>1, <3>2 DEF HeldSecured, SuccessSecured, Secured, SecuredNext, Pending
  <2>6. TagsSecured'
    BY <2>1, <2>3, <2>4, TagsKept DEF CoverInv
  <2> QED
    BY <2>2, <2>3, <2>4, <2>5, <2>6 DEF CoverInv
<1>2. ASSUME NEW n \in 1 .. MaxBatchSize, NEW k \in 1 .. MaxBatchSize + 1,
             k <= n + 1, Execute(n, k)
      PROVE  CoverInv'
  <2>1. UNCHANGED <<dbVars, fetchVars, queue>>
    BY <1>2 DEF Execute
  <2>2. ~(k <= n)
    <3> SUFFICES ASSUME k <= n PROVE FALSE
      OBVIOUS
    <3>1. Fails(queue[k]) /\ n <= Len(queue)
      BY <1>2 DEF Execute, Flushable, CoverInv, AllCommit, Faultless
    <3>2. k \in 1 .. Len(queue)
      BY <1>2, <3>1, Elements, FetchPipelineAssumption
    <3>3. queue[k].feed \in Feed
      BY <3>2, Elements
    <3> QED
      BY <3>1, <3>3 DEF Fails, CoverInv, AllCommit
  <2>3. k > n
    BY <2>2, FetchPipelineAssumption
  <2>4. PICK phase \in {"commit", "rollback"} :
          /\ k > n /\ phase = "rollback" => Contention
          /\ tx' = [size |-> n, phase |-> phase]
    BY <1>2 DEF Execute
  <2>5. phase = "commit"
    BY <2>3, <2>4 DEF CoverInv, AllCommit, Faultless
  <2>6. AllCommit'
    BY <2>1, <2>4, <2>5 DEF CoverInv, AllCommit, Faultless, dbVars
  <2> QED
    BY <2>1, <2>6 DEF CoverInv, MarksInTable, MarksInQueue, HeldSecured,
       SuccessSecured, TagsSecured, Secured, Pending, dbVars, fetchVars
<1>3. ASSUME NEW n \in 1 .. MaxBatchSize, Block(n) PROVE CoverInv'
  BY <1>3 DEF Block, CoverInv, AllCommit, Faultless
<1> QED
  BY <1>1, <1>2, <1>3 DEF Flush

(* Together.                                                               *)
LEMMA CoverStep ==
  TypeInv /\ FetchingExact /\ CoverInv /\ [Next]_vars => CoverInv'
<1> SUFFICES ASSUME TypeInv, FetchingExact, CoverInv, [Next]_vars PROVE CoverInv'
  OBVIOUS
<1>1. TypeInv'
  BY TypesStep
<1>2. CASE UNCHANGED vars
  BY <1>2 DEF vars, dbVars, fetchVars, CoverInv, AllCommit, Faultless, MarksInTable,
     MarksInQueue, HeldSecured, SuccessSecured, TagsSecured, Secured, Pending
<1>3. CASE Outside
  BY <1>1, <1>3, OutsideCover
<1>4. CASE Scheduler \/ \E r \in Request : \E f \in Feed : Refresh(f, r)
  BY <1>1, <1>4, TaskCover
<1>5. ASSUME NEW p \in Goroutine, Fetch(p) PROVE CoverInv'
  BY <1>1, <1>5, RequestCover, ReturnCover, ForgetCover, StoreCover, SubmitCover DEF Fetch
<1>6. ASSUME NEW r \in Request, AwaitResult(r) \/ Cancel(r) PROVE CoverInv'
  BY <1>1, <1>6, AwaitCover
<1>7. CASE Flush
  BY <1>1, <1>7, FlushCover
<1> QED
  BY <1>2, <1>3, <1>4, <1>5, <1>6, <1>7 DEF Next

-----------------------------------------------------------------------------
(* The theorems.                                                           *)

(* The invariant, for the three theorems.                                  *)
LEMMA CoverHolds == Spec /\ Faultless => []CoverInv
<1>1. Spec => [](TypeInv /\ FetchingExact)
  BY TypesHold, ClaimsExact, PTL
<1> QED
  BY <1>1, CoverInit, CoverStep, PTL DEF Spec

(* LastFetchedMeansSaved: the items of a successful fetch are in the table *)
(* when its mark is.                                                       *)
THEOREM MarksFollowItems == Spec /\ Faultless => []LastFetchedMeansSaved
<1>1. CoverInv => LastFetchedMeansSaved
  BY DEF CoverInv, AllCommit, MarksInTable, LastFetchedMeansSaved
<1> QED
  BY <1>1, CoverHolds, PTL

(* ValidatorsCovered: no cached validator keeps items away that are not    *)
(* stored, waiting or about to be submitted.                               *)
THEOREM TagsVouchForItems == Spec /\ Faultless => []ValidatorsCovered
<1>1. CoverInv => ValidatorsCovered
  BY DEF CoverInv, AllCommit, TagsSecured, Secured, ValidatorsCovered
<1> QED
  BY <1>1, CoverHolds, PTL

(* SuccessIsNotLost: a refresh that reports success has its items stored   *)
(* or on their way.                                                        *)
THEOREM SuccessKeepsItems == Spec /\ Faultless => []SuccessIsNotLost
<1>1. CoverInv => SuccessIsNotLost
  BY DEF CoverInv, SuccessSecured, Secured, SuccessIsNotLost
<1> QED
  BY <1>1, CoverHolds, PTL
=============================================================================

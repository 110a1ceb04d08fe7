--------------------------- MODULE FetchPipeline ---------------------------
(***************************************************************************)
(* How a feed document becomes stored items: the scheduler and the pool    *)
(* workers (cmd/feed-reader/fetcher_service.go), the synchronous refresh   *)
(* of the API, the conditional HTTP fetch with its cached validators       *)
(* (fetcher.go), the write queue, and the API calls that suspend or delete *)
(* a feed while all this is going on.                                      *)
(*                                                                         *)
(* The document of a feed is a version number that grows when its          *)
(* publisher adds items; version 0 has no items.  saved[f] is the newest   *)
(* version whose items are stored.  Instants are abstracted to what        *)
(* ListFeedsToFetch can tell: due, later, or later because a user asked.   *)
(* The write queue is one sequence of jobs, oldest first: those of the     *)
(* worker's batch, and behind them those in the channel.  A batch commits  *)
(* as a whole or not at all, as in AtomicBatches.                          *)
(***************************************************************************)
EXTENDS Integers, Sequences

CONSTANTS Feed,
          Worker,         \* the goroutines of the worker pool
          Request,        \* goroutines of synchronous refreshes, one feed each
          NoRequest,      \* a job without ResultChan
          MaxBatchSize,   \* WriteQueueConfig.MaxBatchSize
          MaxVersion,     \* bound: how often a document changes
          Suspendable,    \* feeds a user may suspend
          Deletable,      \* feeds a user may delete
          Windowed,       \* feeds with ignore windows
          Truncation,     \* a response body may break off while it is parsed
          Contention      \* a batch may fail at any point for SQLite's reasons

ASSUME FetchPipelineAssumption ==
  /\ Feed # {}
  /\ MaxBatchSize \in Nat \ {0} /\ MaxVersion \in Nat
  /\ Suspendable \subseteq Feed /\ Deletable \subseteq Feed /\ Windowed \subseteq Feed
  /\ NoRequest \notin Request /\ Worker \cap Request = {}
  /\ Truncation \in BOOLEAN /\ Contention \in BOOLEAN

VARIABLES feeds,      \* rows of table feeds
          row,        \* feed_fetcher: etag, next_fetch, last_fetched_at
          saved,      \* newest version whose items are stored
          upstream,   \* version the publisher serves
          fetching,   \* FetcherService.fetching
          todo,       \* what FetchAllFeeds has listed and not yet handled
          pc, job,    \* per goroutine: where it is, [feed, version]
          result,     \* ResultChan of each request
          outcome,    \* FeedFetchResult of each request
          queue,      \* jobs submitted and not settled, oldest first
          tx          \* the worker: where it is, and the size of the batch
                      \* it flushes

fetchVars == <<upstream, fetching, todo, pc, job, outcome>>
dbVars == <<feeds, row, saved>>
vars == <<dbVars, fetchVars, result, queue, tx>>

Goroutine == Worker \cup Request

NoTag == -1
Version == 0 .. MaxVersion

\* A missing feed_fetcher row reads like one of NULLs: ListFeedsToFetch joins
\* it from the left.
NoRow == [etag |-> NoTag, next |-> "null", last |-> 0]
Due == {"null", "due"}

\* make(chan WriteQueueJob, cfg.MaxBatchSize*2)
QueueCap == 2 * MaxBatchSize

\* What the worker holds besides the channel: the batch it flushes; in its
\* select it receives at once whatever comes, up to a full batch.
InHand == IF tx.phase = "select" THEN MaxBatchSize ELSE tx.size

ChannelFull == Len(queue) - InHand = QueueCap

Jobs == [kind : {"save", "mark", "defer"}, feed : Feed, version : Version,
         request : Request \cup {NoRequest}]

\* The states in which a goroutine owns its feed's entry of fetching.
Owning == {"cached", "get", "silent", "forget", "store", "submit", "await", "mark",
           "release"}

TypeOK ==
  /\ feeds \in SUBSET Feed
  /\ row \in [Feed -> [etag : Version \cup {NoTag}, last : Version,
                       next : {"null", "due", "later", "suspended"}]]
  /\ saved \in [Feed -> Version] /\ upstream \in [Feed -> Version]
  /\ fetching \in SUBSET Feed /\ todo \in SUBSET Feed
  /\ pc \in [Goroutine -> Owning \cup {"idle", "claim", "done"}]
  /\ job \in [Goroutine -> [feed : Feed, version : Version \cup {NoTag}]]
  /\ result \in [Request -> {"none", "ok", "error"}]
  /\ outcome \in [Request -> {"none", "success", "failure"}]
  /\ tx \in [size : 0 .. MaxBatchSize, phase : {"select", "commit", "rollback", "stuck"}]
  /\ queue \in Seq(Jobs) /\ tx.size <= Len(queue) /\ Len(queue) - InHand <= QueueCap
  /\ tx.size = 0 <=> tx.phase = "select"

Init ==
  /\ feeds = Feed
  /\ row = [f \in Feed |-> NoRow]
  /\ saved = [f \in Feed |-> 0]
  /\ upstream \in [Feed -> Version \cap {0, 1}]
  /\ fetching = {} /\ todo = {}
  /\ pc = [p \in Goroutine |-> "idle"]
  /\ job = [p \in Goroutine |-> [feed |-> CHOOSE f \in Feed : TRUE, version |-> NoTag]]
  /\ result = [r \in Request |-> "none"]
  /\ outcome = [r \in Request |-> "none"]
  /\ queue = <<>> /\ tx = [size |-> 0, phase |-> "select"]

-----------------------------------------------------------------------------
(* The world outside: publishers, the clock, users.                        *)

Publish(f) ==
  /\ upstream[f] < MaxVersion
  /\ upstream' = [upstream EXCEPT ![f] = @ + 1]
  /\ UNCHANGED <<dbVars, fetching, todo, pc, job, outcome, result, queue, tx>>

\* next_fetch, or the end of a suspension, is reached.
TimePasses(f) ==
  /\ row[f].next = "later"
  /\ row' = [row EXCEPT ![f].next = "due"]
  /\ UNCHANGED <<feeds, saved, fetchVars, result, queue, tx>>

SuspensionEnds(f) ==
  /\ row[f].next = "suspended"
  /\ row' = [row EXCEPT ![f].next = "due"]
  /\ UNCHANGED <<feeds, saved, fetchVars, result, queue, tx>>

\* A flush holds SQLite's only write lock until it commits or rolls back.  One
\* that is stuck may hold it or not, and nothing here depends on getting it.
WriteLockFree == tx.phase \in {"select", "stuck"}

\* FeedsSuspend writes next_fetch itself, past the write queue.
Suspend(f) ==
  /\ WriteLockFree /\ f \in feeds \cap Suspendable
  /\ row' = [row EXCEPT ![f].next = "suspended"]
  /\ UNCHANGED <<feeds, saved, fetchVars, result, queue, tx>>

\* FeedsDelete: the feed_fetcher row goes with the feed (ON DELETE CASCADE).
Delete(f) ==
  /\ WriteLockFree /\ f \in feeds \cap Deletable
  /\ feeds' = feeds \ {f}
  /\ row' = [row EXCEPT ![f] = NoRow]
  /\ UNCHANGED <<saved, fetchVars, result, queue, tx>>

-----------------------------------------------------------------------------
(* FetchAllFeeds, run by the scheduler, and FetchFeedsByIDsSync.           *)

\* ListFeedsToFetch, read once for the whole round.
ListFeedsToFetch ==
  /\ todo = {}
  /\ todo' = {f \in feeds : row[f].next \in Due}
  /\ UNCHANGED <<dbVars, upstream, fetching, pc, job, outcome, result, queue, tx>>

\* Mutated Enqueue: append instead of a send that waits.
EnqueueUnbounded(kind, f, v, r) ==
  queue' = Append(queue, [kind |-> kind, feed |-> f, version |-> v, request |-> r])

\* Submit: the send waits while the channel is full.
Enqueue(kind, f, v, r) ==
  /\ ~ChannelFull
  /\ queue' = Append(queue, [kind |-> kind, feed |-> f, version |-> v, request |-> r])

\* The query for the feed's ignore windows fails: it is skipped this round.
SkipFeed(f) ==
  /\ f \in todo
  /\ todo' = todo \ {f}
  /\ UNCHANGED <<dbVars, upstream, fetching, pc, job, outcome, result, queue, tx>>

\* The feed is in an ignore window: only its next_fetch moves.
DeferFeed(f) ==
  /\ f \in todo \cap Windowed
  /\ todo' = todo \ {f}
  /\ Enqueue("defer", f, 0, NoRequest)
  /\ UNCHANGED <<dbVars, upstream, fetching, pc, job, outcome, result, tx>>

\* AddTask: the channel is unbuffered, so a worker takes the task at once.
AddTask(f, w) ==
  /\ f \in todo /\ pc[w] = "idle"
  /\ todo' = todo \ {f}
  /\ pc' = [pc EXCEPT ![w] = "claim"]
  /\ job' = [job EXCEPT ![w].feed = f]
  /\ UNCHANGED <<dbVars, upstream, fetching, outcome, result, queue, tx>>

\* A refresh of a feed that ListFeedsByIDs has found.
Refresh(f, r) ==
  /\ pc[r] = "idle" /\ f \in feeds
  /\ pc' = [pc EXCEPT ![r] = "claim"]
  /\ job' = [job EXCEPT ![r].feed = f]
  /\ UNCHANGED <<dbVars, upstream, fetching, todo, outcome, result, queue, tx>>

\* A worker is free for the next task; a request is over.
After(p) == IF p \in Worker THEN "idle" ELSE "done"

\* Mutated Claim: the Delete is deferred before LoadOrStore, not after it.
ClaimDeferEarly(p) ==
  /\ pc[p] = "claim"
  /\ IF job[p].feed \in fetching
     THEN /\ pc' = [pc EXCEPT ![p] = "release"]
          /\ outcome' = IF p \in Request THEN [outcome EXCEPT ![p] = "failure"]
                                         ELSE outcome
          /\ UNCHANGED fetching
     ELSE /\ fetching' = fetching \cup {job[p].feed}
          /\ pc' = [pc EXCEPT ![p] = "cached"]
          /\ UNCHANGED outcome
  /\ UNCHANGED <<dbVars, upstream, todo, job, result, queue, tx>>

\* fetching.LoadOrStore: the second to come turns back at once.
Claim(p) ==
  /\ pc[p] = "claim"
  /\ IF job[p].feed \in fetching
     THEN /\ pc' = [pc EXCEPT ![p] = After(p)]
          /\ outcome' = IF p \in Request THEN [outcome EXCEPT ![p] = "failure"]
                                         ELSE outcome
          /\ UNCHANGED fetching
     ELSE /\ fetching' = fetching \cup {job[p].feed}
          /\ pc' = [pc EXCEPT ![p] = "cached"]
          /\ UNCHANGED outcome
  /\ UNCHANGED <<dbVars, upstream, todo, job, result, queue, tx>>

\* The deferred fetching.Delete.
Release(p) ==
  /\ pc[p] = "release"
  /\ fetching' = fetching \ {job[p].feed}
  /\ pc' = [pc EXCEPT ![p] = After(p)]
  /\ job' = IF p \in Worker THEN [job EXCEPT ![p].version = NoTag] ELSE job
  /\ UNCHANGED <<dbVars, upstream, todo, outcome, result, queue, tx>>

\* Mutated Return: the Delete is not deferred, and forgotten.
ReturnWithoutDelete(p, o) ==
  /\ pc' = [pc EXCEPT ![p] = After(p)]
  /\ outcome' = IF p \in Request THEN [outcome EXCEPT ![p] = o] ELSE outcome

\* The goroutine p returns, with FeedFetchResult o if somebody waits for it.
Return(p, o) ==
  /\ pc' = [pc EXCEPT ![p] = "release"]
  /\ outcome' = IF p \in Request THEN [outcome EXCEPT ![p] = o] ELSE outcome

-----------------------------------------------------------------------------
(* GofeedFetcher.Fetch.                                                    *)

\* The validators of the last response, read before the request is sent.
GetFeedFetcher(p) ==
  /\ pc[p] = "cached"
  /\ job' = [job EXCEPT ![p].version = row[job[p].feed].etag]
  /\ pc' = [pc EXCEPT ![p] = "get"]
  /\ UNCHANGED <<dbVars, upstream, fetching, todo, outcome, result, queue, tx>>

\* 304: the document is the one the validators stand for.
NotModified(p) ==
  /\ pc[p] = "get"
  /\ job[p].version = upstream[job[p].feed]
  /\ pc' = [pc EXCEPT ![p] = "mark"]
  /\ UNCHANGED <<dbVars, upstream, fetching, todo, job, outcome, result, queue, tx>>

\* 200, with the publisher's document of this moment.
Fetched(p) ==
  /\ pc[p] = "get"
  /\ job' = [job EXCEPT ![p].version = upstream[job[p].feed]]
  /\ pc' = [pc EXCEPT ![p] = "store"]
  /\ UNCHANGED <<dbVars, upstream, fetching, todo, outcome, result, queue, tx>>

\* No connection, or a 5xx status: the feed_fetcher row is to go.
ServerError(p) ==
  /\ pc[p] = "get"
  /\ pc' = [pc EXCEPT ![p] = "forget"]
  /\ UNCHANGED <<dbVars, upstream, fetching, todo, job, outcome, result, queue, tx>>

\* The publisher takes the connection and never answers: the HTTP client has no
\* timeout of its own.
NoAnswer(p) ==
  /\ pc[p] = "get"
  /\ pc' = [pc EXCEPT ![p] = "silent"]
  /\ UNCHANGED <<dbVars, upstream, fetching, todo, job, outcome, result, queue, tx>>

\* Any other status that is not 2xx: the row stays.
ClientError(p) ==
  /\ pc[p] = "get"
  /\ Return(p, "failure")
  /\ UNCHANGED <<dbVars, upstream, fetching, todo, job, result, queue, tx>>

\* DeleteFeedFetcher forgets the validators, and next_fetch with them; when it
\* does not get the write lock its error is ignored.
DeleteFeedFetcher(p) ==
  /\ pc[p] = "forget"
  /\ \/ /\ WriteLockFree
        /\ row' = [row EXCEPT ![job[p].feed] = NoRow]
     \/ UNCHANGED row
  /\ Return(p, "failure")
  /\ UNCHANGED <<feeds, saved, upstream, fetching, todo, job, result, queue, tx>>

\* Mutated StoreValidators: the validators are those of a second request.
StoreValidatorsOfNow(p) ==
  /\ pc[p] = "store"
  /\ \/ /\ WriteLockFree /\ job[p].feed \in feeds
        /\ row' = [row EXCEPT ![job[p].feed].etag = upstream[job[p].feed]]
     \/ UNCHANGED row
  /\ \/ /\ pc' = [pc EXCEPT ![p] = IF job[p].version > 0 THEN "submit" ELSE "mark"]
        /\ UNCHANGED outcome
     \/ /\ Truncation
        /\ Return(p, "failure")
  /\ UNCHANGED <<feeds, saved, upstream, fetching, todo, job, result, queue, tx>>

\* Mutated StoreValidators: > 1 for > 0 in the test on the number of items.
StoreValidatorsSkipOne(p) ==
  /\ pc[p] = "store"
  /\ \/ /\ WriteLockFree /\ job[p].feed \in feeds
        /\ row' = [row EXCEPT ![job[p].feed].etag = job[p].version]
     \/ UNCHANGED row
  /\ \/ /\ pc' = [pc EXCEPT ![p] = IF job[p].version > 1 THEN "submit" ELSE "mark"]
        /\ UNCHANGED outcome
     \/ /\ Truncation
        /\ Return(p, "failure")
  /\ UNCHANGED <<feeds, saved, upstream, fetching, todo, job, result, queue, tx>>

\* UpsertFeedFetcher keeps the validators of the response, if it has any, the
\* feed still exists and the lock is to be had (its error is ignored); only
\* then is the body parsed.
StoreValidators(p) ==
  /\ pc[p] = "store"
  /\ \/ /\ WriteLockFree /\ job[p].feed \in feeds
        /\ row' = [row EXCEPT ![job[p].feed].etag = job[p].version]
     \/ UNCHANGED row
  /\ \/ /\ pc' = [pc EXCEPT ![p] = IF job[p].version > 0 THEN "submit" ELSE "mark"]
        /\ UNCHANGED outcome
     \/ /\ Truncation
        /\ Return(p, "failure")
  /\ UNCHANGED <<feeds, saved, upstream, fetching, todo, job, result, queue, tx>>

-----------------------------------------------------------------------------
(* The rest of FetchAndSave and fetchAndSaveSync.                          *)

SubmitItems(p) ==
  /\ pc[p] = "submit"
  /\ Enqueue("save", job[p].feed, job[p].version,
             IF p \in Request THEN p ELSE NoRequest)
  /\ pc' = [pc EXCEPT ![p] = IF p \in Request THEN "await" ELSE "mark"]
  /\ UNCHANGED <<dbVars, upstream, fetching, todo, job, outcome, result, tx>>

AwaitResult(r) ==
  /\ pc[r] = "await"
  /\ \/ /\ result[r] = "ok"
        /\ pc' = [pc EXCEPT ![r] = "mark"]
        /\ UNCHANGED outcome
     \/ /\ result[r] = "error"
        /\ Return(r, "failure")
  /\ UNCHANGED <<dbVars, upstream, fetching, todo, job, result, queue, tx>>

\* The client goes away: ctx.Done().  What waits for the publisher ends, too;
\* DeleteFeedFetcher then fails with the same context.
Cancel(r) ==
  /\ pc[r] \in {"await", "silent"}
  /\ Return(r, "failure")
  /\ UNCHANGED <<dbVars, upstream, fetching, todo, job, result, queue, tx>>

\* markFetched computes next_fetch and submits it as a job of its own.
MarkFetched(p) ==
  /\ pc[p] = "mark"
  /\ Enqueue("mark", job[p].feed, job[p].version, NoRequest)
  /\ Return(p, "success")
  /\ UNCHANGED <<dbVars, upstream, fetching, todo, job, result, tx>>

-----------------------------------------------------------------------------
(* The worker of the write queue, in detail in WriteQueue.                 *)

Batch == SubSeq(queue, 1, tx.size)

\* A job of a deleted feed meets a foreign key: nothing to link its items to,
\* no feed_fetcher row to insert.
Fails(j) == j.feed \notin feeds

\* The batch is full, or the ticker comes: n jobs have been received, the others
\* wait in the channel.
Flushable(n) == tx.phase = "select" /\ n <= Len(queue) /\ Len(queue) - n <= QueueCap

\* A batch of n jobs is executed up to job k, the first that fails; if k is
\* n + 1, all have run.  The jobs before k have answered "ok" and job k answers
\* "error", before anything is committed; those behind it never answer.  Where
\* BUSY has made the batch run again, the first job had answered "error" before,
\* and that is what is read.
Execute(n, k) ==
  /\ Flushable(n)
  /\ \A i \in 1 .. k - 1 : ~Fails(queue[i])
  /\ k <= n => Fails(queue[k]) \/ Contention
  /\ \E phase \in {"commit", "rollback"} :
       /\ k <= n => phase = "rollback"
       /\ k > n /\ phase = "rollback" => Contention
       /\ tx' = [size |-> n, phase |-> phase]
  /\ \E busy \in BOOLEAN :
       /\ busy => Contention
       /\ result' = [r \in Request |->
            IF \/ busy /\ queue[1].request = r
               \/ k <= n /\ queue[k].request = r
            THEN "error"
            ELSE IF \E i \in 1 .. k - 1 : queue[i].request = r THEN "ok"
            ELSE result[r]]
  /\ UNCHANGED <<dbVars, fetchVars, queue>>

\* BUSY has made the batch run again, and the first job has a ResultChan that
\* holds a result already, whose requester has taken one or has left: the send
\* blocks for good.
Block(n) ==
  /\ Contention /\ Flushable(n)
  /\ queue[1].request \in Request
  /\ result' = [result EXCEPT ![queue[1].request] = "error"]
  /\ tx' = [size |-> n, phase |-> "stuck"]
  /\ UNCHANGED <<dbVars, fetchVars, queue>>

\* The jobs of the batch for a feed.
JobsFor(f, kinds) ==
  {i \in DOMAIN Batch : Batch[i].feed = f /\ Batch[i].kind \in kinds}

\* A newer document repeats the items of an older one, so that the stored
\* version only grows.
Newest(f, v) ==
  LET stored == {Batch[i].version : i \in JobsFor(f, {"save"})} \cup {saved[f]}
  IN v \in stored /\ \A x \in stored : x <= v

\* The last mark of a batch wins.
LastMark(f, v) ==
  IF JobsFor(f, {"mark"}) = {} THEN v = row[f].last
  ELSE \E i \in JobsFor(f, {"mark"}) : /\ v = Batch[i].version
                                       /\ \A k \in JobsFor(f, {"mark"}) : k <= i

\* What a committed batch does to the tables.
Applied ==
  /\ saved' \in [Feed -> Version]
  /\ \A f \in Feed : Newest(f, saved'[f])
  /\ \E last \in [Feed -> Version] :
       /\ \A f \in Feed : LastMark(f, last[f])
       /\ row' = [f \in Feed |->
            IF JobsFor(f, {"mark", "defer"}) # {}
            THEN [row[f] EXCEPT !.next = "later", !.last = last[f]]
            ELSE row[f]]

Settle ==
  /\ tx.phase \in {"commit", "rollback"}
  /\ IF tx.phase = "commit" THEN Applied ELSE UNCHANGED <<saved, row>>
  /\ queue' = SubSeq(queue, tx.size + 1, Len(queue))
  /\ tx' = [size |-> 0, phase |-> "select"]
  /\ UNCHANGED <<feeds, fetchVars, result>>

Outside == \E f \in Feed :
  Publish(f) \/ TimePasses(f) \/ SuspensionEnds(f) \/ Suspend(f) \/ Delete(f)

Scheduler ==
  \/ ListFeedsToFetch
  \/ \E f \in Feed : \/ SkipFeed(f) \/ DeferFeed(f)
                     \/ \E w \in Worker : AddTask(f, w)

Fetch(p) ==
  \/ Claim(p) \/ GetFeedFetcher(p) \/ NotModified(p) \/ Fetched(p)
  \/ ServerError(p) \/ NoAnswer(p) \/ ClientError(p) \/ DeleteFeedFetcher(p)
  \/ StoreValidators(p) \/ SubmitItems(p) \/ MarkFetched(p) \/ Release(p)

Flush ==
  \/ Settle
  \/ \E n \in 1 .. MaxBatchSize :
       Block(n) \/ \E k \in 1 .. MaxBatchSize + 1 : k <= n + 1 /\ Execute(n, k)

Next ==
  \/ Outside
  \/ Scheduler
  \/ \E p \in Goroutine : Fetch(p)
  \/ \E r \in Request : \/ AwaitResult(r) \/ Cancel(r)
                        \/ \E f \in Feed : Refresh(f, r)
  \/ Flush

Spec == Init /\ [][Next]_vars

\* The scheduler's loop, the workers, the refreshes, the loop of the queue and
\* the clients that stay are scheduled, and senders blocked on the full channel
\* are served first come first served.  Nobody promises that a client leaves,
\* that a silent publisher speaks or that a stuck queue moves.
Fairness ==
  /\ WF_vars(Scheduler)
  /\ WF_vars(Flush)
  /\ \A p \in Goroutine : /\ WF_vars(Fetch(p))
                           /\ SF_vars(SubmitItems(p) \/ MarkFetched(p))
  /\ \A r \in Request : WF_vars(AwaitResult(r))

FairSpec == Spec /\ Fairness

-----------------------------------------------------------------------------
(* Properties.                                                             *)

\* The items of version v of f, or of a later one, wait to be saved.
Pending(f, v) ==
  \E i \in DOMAIN queue :
    queue[i].kind = "save" /\ queue[i].feed = f /\ queue[i].version >= v

\* A feed is marked as being fetched exactly while one goroutine fetches it:
\* the goroutine that is turned back does not release the entry of the other,
\* and no path out of a fetch keeps it (fetcher_service.go:68-76, 243-247).
FetchingExact ==
  /\ \A f \in Feed : f \in fetching
       <=> \E p \in Goroutine : pc[p] \in Owning /\ job[p].feed = f
  /\ \A p, q \in Goroutine :
       /\ p # q /\ pc[p] \in Owning /\ pc[q] \in Owning
       => job[p].feed # job[q].feed

\* docs/feed_specification.md:22, last_fetched_at is the "Timestamp of the
\* last successful fetch": the items of that fetch are stored.  The items are
\* submitted before the mark, and a 304 stands for items already submitted.
LastFetchedMeansSaved == \A f \in feeds : row[f].last <= saved[f]

\* A cached validator makes the publisher withhold the document from then on
\* (fetcher.go:102, 117-133), so the items it stands for must be stored, on
\* their way through the queue, or about to be submitted by their fetch.
ValidatorsCovered ==
  \A f \in feeds : row[f].etag > 0 =>
    \/ row[f].etag <= saved[f]
    \/ Pending(f, row[f].etag)
    \/ \E p \in Goroutine : /\ pc[p] = "submit" /\ job[p].feed = f
                            /\ job[p].version >= row[f].etag

\* A refresh that reports success has its items stored or still on their way.
SuccessIsNotLost ==
  \A r \in Request :
    outcome[r] = "success" /\ job[r].feed \in feeds =>
      \/ job[r].version <= saved[job[r].feed]
      \/ Pending(job[r].feed, job[r].version)

\* docs/adaptive_fetch.md:33 "Manual feed refreshes and suspends always take
\* precedence over the adaptive schedule": no next_fetch of the schedule
\* replaces the end of a suspension.
SuspendsTakePrecedence ==
  [][\A f \in feeds : row[f].next = "suspended" => row'[f].next # "later"]_vars

\* What keeps a goroutine waiting: a publisher that never answers; a job that
\* was lost behind the one that failed its batch, or one that never settles
\* because the queue is stuck; or a channel that the stuck queue has left full.
Abandoned(p) ==
  \/ pc[p] = "silent"
  \/ /\ pc[p] = "await" /\ result[p] = "none"
     /\ tx.phase = "stuck" \/ \A i \in DOMAIN queue : queue[i].request # p
  \/ pc[p] \in {"submit", "mark"} /\ tx.phase = "stuck" /\ ChannelFull

\* Every fetch ends and lets the feed be fetched again, but for those that wait
\* for what never comes (fetcher_service.go:129-137, write_queue.go:94-101, 240,
\* fetcher.go:28).
ClaimsReleased ==
  \A f \in Feed : f \in fetching ~>
    (f \notin fetching \/ \E p \in Goroutine : job[p].feed = f /\ Abandoned(p))
=============================================================================

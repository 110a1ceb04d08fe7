# A verification of feed-reader

feed-reader is a self-hosted RSS reader: a Go server that fetches feeds in the
background and stores their items in SQLite, an HTTP API, and a SolidJS
frontend that keeps copies of what the server has.  This directory holds TLA+
models of both, the TLC configurations that check them and TLAPS proofs about
them.  `PROJECT.json` maps every definition to the lines it
models (paths relative to the repository, under `src/`), and lists the runs,
the mutants that show that each property can fail, the disagreements between
code and documentation that were met, the hazards and the theorems.

    tlc -workers 2 -config WriteQueue.cfg MCWriteQueue     # a run
    tlapm WriteQueueProofs.tla                                  # the proofs

Properties of the code are stated at the end of each module with the line they
are about.  An operator under a comment "Mutated X" is the definition X with a
plausible bug; nothing uses it in the model.

## 1. Inventory

### The server process

`cmd/feed-reader/main.go` starts six kinds of goroutines over one SQLite
database (WAL, one writer at a time, a busy timeout of five seconds):

| component | state | operations | talks to |
|---|---|---|---|
| write queue (`write_queue.go`) | the channel of jobs, the batch being collected | Submit, Stop, the loop of Start, flush | every background writer submits to it; it runs a transaction per batch; a SaveItemsJob answers on a result channel |
| transactions (`store/feed_store.go:183`, `store/retry.go`, `store/retry_db.go`) | the open transaction | WithTransaction, WithRetry | SQLite: busy, commit, rollback |
| fetcher service (`fetcher_service.go`) | `fetching`, the set of feeds being fetched | FetchAllFeeds, FetchFeedsByIDsSync, FetchAndSave, fetchAndSaveSync, markFetched | scheduler and handlers call it; it calls the fetcher, the pool and the write queue |
| fetcher (`fetcher.go`) | the cached validators in feed_fetcher | Fetch | publishers, over HTTP |
| scheduler and worker pool (`scheduler.go`, `worker_pool.go`) | the unbuffered channel of tasks | Start, AddTask, Wait | the scheduler blocks in AddTask until a worker is free |
| shutdown (`main.go:136-155`) | how far main is | server.Shutdown with five seconds, pool.Wait, Stop, wait | all of the above |
| interval (`scheduler.go:56-128`, `fetcher_service.go:314-345`) | none, reads feed_items | CalculateAdaptiveInterval, AdjustIntervalForPeak | called by markFetched |
| ignore windows (`ignore_window.go`) | tables ignore_windows, feed_ and tag_ignore_windows | IsTimeInIgnoreWindow, AdjustNextFetchForIgnoreWindows | called by markFetched and FetchAllFeeds |
| block and URL rules (`store/item_block_rules.go`, `url_parser.go`) | item_block_rules, item_blocks | CreateItemBlockRules, a background scan, the check in SaveItemsJob | the handlers start the scan in a goroutine of its own |
| tags (`store/tag_store.go`) | tags, feed_tags | SetFeedTags, ManageFeedTags, GetOrCreateTag | handlers |
| OPML (`opml_importer.go`, `opml.go`) | none | Import, export | fetches every new feed, then one transaction |
| HTTP API (`internal/httpapi`) | none | a handler per operation | the store, mostly one query each; refresh, suspend, delete and feed creation do more |
| database opening (`internal/primarydb`, `sql/migration.go`) | the recovery from foreign key violations | OpenDB | SQLite |
| read-only replica (`cmd/feed-reader-readonly`) | none of its own | the reading handlers | a Litestream VFS |

### The frontend

| component | state | operations | talks to |
|---|---|---|---|
| items and read state (`item-db.ts`, `item-read-db.ts`, `item-sync-state.ts`) | query data per filter, anchors of what was fetched | the queries' functions, updateItemReadStatus | the API, by deltas since an anchor; updates are optimistic and rolled back |
| list of items (`ItemList.tsx`, `ItemRow.tsx`, `routes/_items.tsx`) | filter in the URL, selection, transient removals | filter, search, select, mark one or many | the queries above |
| item dialog (`ItemDetailRouteView.tsx`, `ItemDetailModal.tsx`, `use-swipe.ts`, `item-prefetch.ts`) | the item in the URL, the cache of single items, timers of the skip | next, previous, toggle, skip, close; by key, button and swipe | the list behind it decides what comes next |
| feeds and tags (`FeedList.tsx`, `TagManagement.tsx`, the dialogs, `feed-db.ts`, `tag-db.ts`, `fetching-state.ts`) | selection, filter, staged tags, marks of feeds being fetched | add, delete, refresh, suspend, manage tags, import | requests that overlap, each invalidating some of three queries |
| rules (`block-rules.tsx`, `url-rules.tsx`, `csv-parser.ts`) | forms, filter and order, the CSV dialog | add, add many, delete | `addItemBlockRules` with its scan |
| ignore windows (`ignore-windows.tsx`, three dialogs, `ignore-window-db.ts`) | the form, staged windows | create, change, delete, attach | repeats the activity test of `ignore_window.go` |
| widgets (`ui/Modal.tsx`, `ui/KebabMenu.tsx`, `ui/HorizontalScrollList.tsx`, `toast-store.ts`) | focus, the open menu, timers, scroll position | open, tab, pick, scroll, show | used by all pages |

### What is hard here, and what makes each part correct

* Write queue.  A batch is one transaction that is retried as a whole, jobs
  answer from inside it, and Stop must not lose anything.  Correct: no job is
  applied twice or forgotten, an answer and the database agree, the worker ends.
* Fetch pipeline.  The scheduler's workers, refreshes and API calls work on the
  same rows through a queue that delays their writes; validators are cached
  before the items they vouch for are saved; batches fail.  Correct: one
  goroutine per feed, no timestamp, validator or success ahead of the items,
  every claim on a feed released, a suspension not overwritten.
* Shutdown.  main closes two channels that others send on.  Correct: nobody
  sends on a closed channel, nothing is left in the queue, the process ends.
* Interval.  Stored dates lag behind the document.  Correct: the interval is in
  its bounds, is the mean of the gaps between the newest dates, and sees the
  newest document.
* Ignore windows.  Zones, midnight, the end of the week, windows that hand over
  to each other.  Correct: the next fetch is the first instant that no window
  covers, and the loop ends.
* Rules, tags, OPML, feed creation.  Check-then-act across requests and
  partial failures of several writes; a scan in the background that races with
  the job that saves items.  Correct: an import is stored whole or not at all, a
  URL once; a rule blocks everything it matches.
* Frontend, copies.  Answers to polls that were sent before an update,
  overlapping updates of which one fails, requests that invalidate too little.
  Correct: once all is quiet, what is shown is what the server has.
* Frontend, dialogs.  The list changes under the item that is open; fingers and
  keys arrive at any time.  Correct: there is always a way on, nothing is passed
  over, a gesture moves by one item.
* Forms.  Their validation and the server's are written twice.  Correct: what
  one lets through the other accepts.

The hazards behind these, with their lines and the properties that would catch
them, are the list "hazards" of `PROJECT.json`; lesser ones are at the end of
section 3.

## 2. Modules

| module | models |
|---|---|
| `AtomicBatches` | what the write queue promises: jobs in order, the oldest few settled in one step, all committed or all lost |
| `WriteQueue` | `write_queue.go` with its transaction and its callers; implements AtomicBatches |
| `FetchPipeline` | scheduler round, worker pool, refresh, conditional fetch, jobs, suspension, deletion; the write queue in outline: its channel, its batches that commit or are lost as a whole, the send that sticks |
| `Shutdown` | all the goroutines from the signal to the end of the process |
| `AdaptiveInterval` | the interval functions over the history of a feed |
| `IgnoreWindow` | the activity test and the loop that leaves the windows |
| `ReadSync` | the frontend's copy of the read state, its polls and optimistic updates, and the rows on the server |
| `ItemList` | the lists of items by filter and their anchors, the rows, search, selection, marking one or many |
| `ItemDetail` | EXTENDS ItemList: the dialog over the list, its ways on, its marks, what it fetches ahead |
| `Gesture` | the swipes: touches, directions, thresholds, the dialog that follows |
| `Widgets` | modal dialog, kebab menu, toasts, chips that scroll, the narrow screen's menu, the button that copies |
| `FeedStore` | feeds and tags: the requests, the handlers, the import, the three queries and the marks of feeds being fetched |
| `FeedsPage` | EXTENDS FeedStore: the pages of feeds and tags with their dialogs |
| `BlockRules` | the rules, their scans, the job that saves items, the URL rules |
| `RulesPage` | EXTENDS BlockRules: the two pages and the CSV dialog |
| `IgnoreWindowsPage` | EXTENDS IgnoreWindow: the pages of the windows, their requests and handlers, the badges |
| `MC...` | the constants of the runs; `MCSchedule` and `MCPages` put several machines into one run |
| `...Proofs` | theorems; `PagesProofs` has those of FeedsPage, Gesture, ItemDetail, Widgets and their composition MCPages, `ScheduleProofs` those of AdaptiveInterval, IgnoreWindow and IgnoreWindowsPage, `BlockRulesProofs` those of RulesPage, too |
| `FiniteOrder` | lemmas on finite sets, for the proofs |

### How state and actions correspond to the code

**WriteQueue.**  `jobs` is the buffered channel (capacity twice the batch size),
`batch` the slice of Start, `worker` its program counter: in the select, about
to begin a transaction, executing.  `attempt` and `executed` are the state of
WithRetry and of the loop over the batch.  `resultChan` and `requester` are a
SaveItemsJob's channel and the `select` of fetchAndSaveSync, which takes the
result or leaves with its context.  The database is `log`, the committed jobs;
`lost` are those of batches that were rolled back for good.  What Execute writes
is abstracted to the job.  A failing job answers `error` and ends the batch;
BUSY strikes the first write of a transaction (the one that takes the lock) and
is retried up to MaxRetries, anything else is final; BeginError is the BeginTx that
fails before any job has run.  SubmitClosed is the panic
of a send on a closed channel.

**FetchPipeline.**  A goroutine's `pc` names the call it is about to make, in
the order of FetchAndSave, fetchAndSaveSync and Fetch.  The document of a feed is
a version number; a version's items include those of the older ones.  `row` is
the row of feed_fetcher; next_fetch is reduced to what ListFeedsToFetch can tell
(null, due, later, and later because a user suspended the feed, which the code
does not distinguish and the property needs).  `queue` has the jobs of the worker's
batch and those in the channel in one sequence: what the worker holds (`InHand`) is the batch
it flushes or, in its select, up to a full batch; the rest is in the channel, and a
send waits while that is full.  A flush takes the oldest jobs,
executes them in order up to the first that fails (those before it answer `ok`, it
answers `error`, those behind it never answer) and settles in a later step, so that
a failure of the
transaction between the answer and the commit is possible.  Where BUSY made a
batch run twice, its first job has answered `error` before, and a refresh that read this
answer reports an error although its items are saved; or, if the channel of that job
holds a result that nobody takes, the worker is `stuck` (Block).  A publisher may
leave a request unanswered (NoAnswer), which only a client that leaves can end.

**Shutdown.**  `main` is the step main is at; both channels can be closed under
a sender, which panics.  A job is known by the refresh that waits for its result, if
one does.  The queue receives (`jobs`, `batch`), flushes and settles, or is `stuck` in a
flush whose first job, retried, sends to a requester that is gone.  A task that starts
after the signal fails at once since its context is done.

**AdaptiveInterval.**  Hours are integers.  The code merges and sorts dates; the
model keeps with each date whose it is and where it was read, which the code
forgets and the properties need.  `Latest` chooses among equal dates, as an
unstable sort may.  A document may date an item in the past or the future, as
PublishedParsed is taken as it is; and the queue may have saved the items of a
scheduled fetch before or after the stored dates are read.

**IgnoreWindow.**  An instant is a minute, a zone an offset.  One step is one
pass of the loop.

**ReadSync.**  A row of `server` is a row of item_reads with updated_at in whole
seconds, as the column has it.  `reads` is the data of the query item-reads,
`items` what the list of items said, `anchor` is lastReadFetched.  A member of
`polls` is one run of the query function: Page is a request and its answer,
Deliver the end of the function, which moves the anchor whether or not the run
still counts and whose return value is dropped if it does not.  Invalidate is
what the query cache does with a run under way when somebody presses refresh:
cancelled, but the promise runs on, as the function takes no abort signal.
SetItemRead takes its time while it holds SQLite's write lock, so updates become
visible in the order of their times.  `disturbed` is a history variable: the
items of which the code may have lost track.

**ItemList, ItemDetail.**  `rows`, `fetched` are the query data and the anchor
(lastFetchedMap) of each filter; `reads` the data of the query item-reads.  A
query's function is one step for the list, whose answer merges into what is
there; ListItemsLost is a run that was cancelled and went on, which moves the anchor while
its answer is dropped, when the run in its place fails.  `itemReads` is what the server has of each item, `itemCache` the query
data of single items.  An item is a number in the order of the list.  `updates`
are updateItemReadStatus calls: Send (optimistic), Commit, the server's write,
Acknowledge, the answer, or FailUpdate with the rollback.  `shown` is the item of the URL, the end, or nothing;
`Visible` is filterVisibleListItems, from which NextItem and PrevItem follow,
and `Ways` are the keys, buttons and swipes the dialog enables.  `skip` has the
two timers of the skip animation.  `gaps`, `disturbed`, `unsynced`, `seen`,
`offered` and `origin` are history: `unsynced` are the rows a poll would bring,
`gaps` the unread items that a key's query may not have seen, `disturbed` the
items an update of which failed in a way the code cannot undo.

**Gesture.**  `finger` is where the first touch is, in units of 50 pixels (the
tolerance is one, the threshold two);
`direction`, `swiping`, `cancelled` are the closure's variables, `x` and `y` the
signals.  `fired` counts what the hook called since the screen was clear.

**FeedStore, FeedsPage.**  A member of `ops` is a request under way.  Creation
is two transactions, the import a check, fetches and a transaction; each of the
other handlers is one.  A query is `asked`, `read` by the server, or delivered;
Invalidate drops the run under way, as TanStack Query does.  `marks`
and `errors` are fetchingState.  `behind` and `crossed` are history: queries
that the code does not tell of a change, and feeds with two refreshes at once.
The page adds selection, filters, dialogs and forms; a button is enabled as its
JSX says.  The pages of feeds and of tags are open side by side.

**BlockRules, RulesPage.**  SaveItemsJob reads the rules in one step and writes
in another; a commit in between makes its snapshot stale, and SQLite refuses the
write.  A scan reads the URL rules, then the items, then treats rule by rule.
What an item matches is given by constants, so that an item's new version may
match a rule that the old one did not.  The CSV dialog counts its rows when they
are registered (`counts`) and shows these numbers when the request is over (`result`).

**IgnoreWindowsPage.**  One feed with one tag; `attached` are the two join
tables.  A window is a record as in IgnoreWindow; the form has blank fields, the
times it returns to when "all day" is unticked, and its own default.

**MCSchedule, MCPages.**  The machines share no variable, so a run of both
together would only multiply their states.  `mover` says which one moves in
a behaviour; the others
stay where they begin.  MCPages EXTENDS the pages' modules, so that it checks the
very definitions the proofs are about, and takes the widgets by INSTANCE.  A property of one machine is
checked in all behaviours of that machine, as a run of its own would.

## 3. Runs

| run | instance | shows |
|---|---|---|
| WriteQueue | 4 jobs, 2 with a result channel, batches of 2, 3 attempts | AppliedOnce, NothingForgotten, CommittedIsAnswered, AnswerOnlyAfterExecution; the queue implements AtomicBatches; every job settles, Stop ends the worker and requesters are answered, but for two exceptions, named in the properties |
| WriteQueueStuck | 3 jobs, 2 with a result channel | **fails**: the final flush ends |
| FetchClean | 1 feed, 1 worker, 1 refresh, batches of 2, documents 0 to 2 | claims exact; last_fetched_at, validators and reported success never ahead of the items |
| FetchFaults | 1 refresh and the scheduler's deferrals, batches of 2 that fail at any job or get stuck, the feed deleted, broken bodies, a silent publisher | each claim is released, but for three exceptions, named in the property |
| FetchSuspend | 1 worker, no refresh, no ignore window | **fails**: a suspension takes precedence |
| FetchTruncated | 1 worker, no refresh, no suspension, broken bodies | **fails**: last_fetched_at is a successful fetch |
| Shutdown | 2 workers, 1 refresh, 2 feeds, batches of 2, a channel of 4 | the queue outlives the pool, an orderly exit is complete, the signal ends the process unless the queue is stuck |
| ShutdownPanic | the same without a refresh | **fails**: all pending writes are committed |
| AdaptiveHybrid | 3 items, 2 dated, 4 hours, a week of 3 hours | **fails**: published_at if available, else created_at |
| Schedule | the interval as in AdaptiveHybrid; every subset of 6 windows at 6 instants; 2 windows on the page, 3 acts of users | bounds and mean of gaps, newest document counts; first free instant, loop ends; the badges are the windows the scheduler is given, and as active |
| ReadSync | 2 items, 1 row per page, 2 overlapping polls, 1 update, another browser | a change older than the anchor is shown, but for three exceptions, named with the property |
| Pages | items: 3, 2 updates at a time, 4 acts; touches: 4 by 4 spots, 2 fingers; widgets: 2 toasts; feeds: 2 URLs, a tag, 2 requests, 3 acts; rules: an item of 2 versions, 3 acts | read states agree, lists are complete, the dialog has a way on and passes nothing over, a gesture moves once, spinners and query data are right, imports are whole, forms agree with handlers, rules block all they match |

The runs that fail are disagreements of the code with a sentence of its docs
or comments, quoted under "findings" in `PROJECT.json`:

* WriteQueueStuck.  A batch that is retried executes its jobs again, and a
  SaveItemsJob sends on its channel of one again, from inside the transaction.
  If its requester has taken the first result or has left, the second send
  blocks for ever: the worker stops, the queue fills up, the scheduler and all
  refreshes block, and shutdown waits for ever.  It takes a busy timeout of
  SQLite, hence another writer, such as a handler's own write.
  The run WriteQueue shows that this state, StuckForGood, is the only way for the
  worker to stop: the same properties hold in every other case.
* FetchSuspend.  The scheduler lists a feed, and the user suspends it before the mark of
  the fetch that follows is committed: the mark overwrites the suspension, whether
  the fetch had begun by then or not (TLC's traces differ in this).  Read off the
  code, the same comes of the deferral of a listed feed (`fetcher_service.go:165-177`)
  and of the removal of the row after a 5xx answer (`fetcher.go:96`).  The run has no
  ignore windows, so that its trace is the mark's.
* FetchTruncated.  Validators are stored before the body is parsed.  If parsing
  fails, the next fetch gets a 304, counts as success, and the items are not
  asked for again until the publisher changes the document.  The same property
  fails for another reason, too: the items of a fetch and its mark are two jobs
  that may fall in two batches, and the first may roll back, for example because
  the batch also has a job of a feed deleted meanwhile.
* ShutdownPanic.  The scheduler is not waited for.  It may be blocked in AddTask
  when main closes that channel; it panics and the process dies before the final
  flush.  A refresh that outlives the five seconds of the server's shutdown does
  the same with the channel of jobs.
* AdaptiveHybrid.  Stored items count with created_at, since SaveItemsJob never
  sets feed_items.published_at; undated items of the document count with the
  time of each fetch.

### What the passing runs except

Some properties hold but for cases they name.  These are the behaviours that
the project's tests and comments do not mention.

* AnsweredUnlessLost: a requester whose job is behind a failing one in its batch
  gets no answer at all.
* ClaimsReleased: such a refresh keeps the claim on its feed until its client leaves,
  and no worker fetches the feed meanwhile; so does one whose publisher never
  answers (the HTTP client has no timeout, `fetcher.go:28`), and whoever waits for a
  stuck queue, for an answer or at its full channel.
* ShutdownEnds, StopEndsWorker, EveryJobSettles: all but for a queue that is stuck
  (WriteQueueStuck), which Stop waits for in vain.
* FreeWhenWeekHasFree: windows that cover the whole week end the loop inside a
  window.
* NothingMissed (ReadSync): the frontend can show a wrong read state for good,
  that is until the item changes again or the page is loaded anew: (1) an update
  fails after a poll or another update overlapped with it, and the rollback
  restores what was there before, although the test "should allow server data
  to overwrite local data (Server Wins)" (`item-read-db.node.test.ts:211`) has the
  server's state win; (2) a cancelled poll moves the anchor to the newest change
  it has seen and its rows are dropped; (3) an item changes in the very second of
  the last row of a page, and its id comes before that row's.  NothingMissed
  fails without either of the first two.
* ReadsAgree: the same from the dialog's side; and a toggle that fails after the
  dialog has gone on writes the old state into the cache of the item now shown
  (`ItemDetailModal.tsx:472`).
* ListComplete: an item marked unread elsewhere after a list of unread items was
  first loaded never appears in it (the poll asks for newer items only); and when
  the cache drops the data of a filter nobody looks at, its anchor stays
  (`item-db.ts:113-121`), so the list begins with what is new since then; a run that
  is cancelled moves the anchor, too (`item-db.ts:165-170`), and what only it has read
  is missing if the run in its place fails; and an
  item saved in the second of the anchor is found only if the list is asked again.
* SpinnerExact: of two overlapping refreshes of a feed the first to end takes the
  mark of both away (`fetching-state.ts:41`).
* CacheFresh: to delete a tag or to import leaves the query feed-tags as it was
  (`tag-db.ts:59`, `ImportOpmlModal.tsx:67`); a creation that fails after the feed
  was stored tells nobody, and trying again is refused as a duplicate.
* BlocksComplete: a scan that is cut short is not taken up again; a change of
  the URL rules blocks nothing that is stored already.
* FormsAccepted is about the rules.  The form of a window lets times through that
  are equal but not 00:00, which the handler refuses; WindowShownAsEnforced does
  not depend on it.

### Further observations

Seen while modelling; no property is about them.

* "All time" has no value in the URL: validateSearch restores 30 days
  (`_items.tsx:17-33`), so opening an item resets the filter, while a test
  (`ItemDetailRouteView.Navigation.test.tsx:175`) is named as if it did not.
* A pending skip is not cleared when the dialog goes on by another way
  (`ItemDetailModal.tsx:228-248`), although the comment at line 255 says so.
* A bulk mark clears what was selected while it ran (`ItemList.tsx:211`); ids
  hidden by a change of the tag stay selected; isAllSelected compares sizes only.
* Escape in a kebab menu also closes the dialog around it; Enter on its button
  opens it and the click that follows closes it (`KebabMenu.tsx:48-58`).
* Late answers: the answer to a save closes whichever dialog of its kind is open
  by then (tags, windows); adding a rule, a tag or a feed wipes what was typed
  meanwhile; staged tags survive Cancel.
* The result of an import stays until the page is loaded anew, and the cross of
  its dialog closes it although closing is meant to be disabled
  (`ImportOpmlModal.tsx:80-87`, `ui/Modal.tsx:195-209`).
* The filter by domain or tag stays on when its last rule or tag is gone.
* The two icons of a copied URL stick after a second click
  (`FeedList.tsx:546-558`); the arrows of the chips are not updated when chips
  load; `errorInterceptor` (`query.ts:25-44`) is never applied.

### Bounds

* WriteQueue.  Four jobs fill the channel of four, while the worker is in its
  select as well as while it is stuck in a send; they make a full batch, a batch
  of one and a batch cut short by the timer or by Stop.  Two jobs with result channels can be in one batch or in two.  Three attempts allow a
  retry that is followed by another.  MaxBusy bounds how often in a row the lock
  is held past its timeout; at 3 a batch can also run out of attempts.
* FetchPipeline.  One feed, since the feeds meet only in the queue; one worker
  and one refresh, since a claim has two sides.  Versions 0 (no items) to 2 in FetchClean,
  0 and 1 in the others, and Publish between any two steps.  Batches of two separate or
  join the two jobs of a fetch, and put a refresh's job behind one that fails; with the
  channel of four, sends wait.  FetchFaults has deferrals in place of the worker: they
  are the jobs of others that share a batch with the refresh's, fill the
  channel and fail with the deleted feed, and a worker's fetch has the
  refresh's steps but for the wait.  Suspensions only move next_fetch, which claims and
  validators do not read; FetchFaults and FetchTruncated leave them out.  MaxVersion is the only bound on behaviour: there is no
  limit on the number of fetches, except that a refresh happens once.
* Shutdown.  Two workers so that one can be busy while the other has exited;
  with the scheduler and a refresh, who fill a channel of four and a batch of two.
* Pages, items.  Three items: one too old for the list as it begins, one that
  is there, one that comes later, so that the list grows and shrinks under the
  dialog and the end can be reached too early.  Two updates at a time: one and
  its rival, or the marks of two dialog steps.  Four acts are enough to open,
  move, toggle and leave.  Window is 1 where the code prefetches 5.
* Pages, touches.  Spots within, at and beyond tolerance and threshold; a second
  finger; no bound on the length of a gesture.
* Pages, feeds.  Two feeds at most ever; a tag.  Two requests overlap, of which
  one may be an import of two URLs.  A tag's name is not used again once it is
  deleted, since tags are known by name in the model and by id in the code.
  MaxActs = 3 and MaxSent = 2 bound what users do and how many requests that
  sends, not what server, queries and network make of it.
* Pages, rules.  One item of two versions, of which the second has the keyword;
  three acts are a rule, a fetch and another of either, or a change of the URL
  rules.
* Where a bound is on acts, dialogs are opened and closed only while it leaves
  something to do (`Room`, `RuleRoom`): an open dialog that nothing more happens in adds
  states and shows nothing.
* AdaptiveInterval (in Schedule).  LastItems, Week and the limits are scaled down so that more
  dates than count, several buckets, and both limits occur.  MaxTime ends time, and
  bounds the dates of the future a document may state.
  DefaultInterval is outside the limits on purpose.
* IgnoreWindowsPage.  The table begins with one all-day window, attached to the
  tag; a second is created with the form's default or with what is entered.  A
  load of a query is one step; FeedStore has loads in detail.
* IgnoreWindow.  The windows are one of each kind: by day, overnight, all day in
  both notations, ahead of and behind UTC, and a pair that hands over to each
  other.  The instants are ends of windows, midnights and the week's end.
  MaxIterations is 15 where the code has 500: no chain of these windows that
  ends is longer.
* ReadSync.  The second item is created a second after the first, so the list,
  the anchor and the polls meet items they have not seen; one row per answer makes
  every poll of two rows a poll of two pages.  Two polls, since at most one
  counts; one update of one item, with the other browser as its rival.  The third
  exception of NothingMissed needs three items and is not reached here: with three
  items, pages of two and a single poll, the property fails without it.

### Fairness

`WriteQueue.Fairness`: the goroutine of Start and every requester that waits are
scheduled (Go schedules runnable goroutines).  Not assumed: that anybody
submits, that Stop is called, that a client leaves, that SQLite gets better.
`FetchPipeline.Fairness`: the scheduler's loop, the queue, and each goroutine of
a fetch are scheduled.  Strong fairness is asked of the sends only: a Go channel
serves blocked senders first come first served, so a sender is not overtaken
for ever.  Not assumed: that a client leaves, that a publisher answers, that batches
commit, that the worker is not stuck; where one of these is what a goroutine waits
for, ClaimsReleased says so (`Abandoned`).
`Shutdown.Fairness`: main, the scheduler and the queue are scheduled; workers
only once the context is done, because a fetch may hang before.  A flush ends or is
stuck, and nobody promises the first.  Refreshes are not
assumed to go on, for the server waits for them five seconds at most.
`IgnoreWindow`: the loop is scheduled, in Schedule as WF of its Next.  `ReadSync`
and the pages have safety only and assume nothing: their properties say what holds
when requests and queries have come to rest, and nothing obliges a user, a network
or a browser to let them.

## 4. Theorems

All of them are for every value of the constants that the named ASSUMEs admit;
the runs evaluate these too.  `StoreAssumption`, `TouchAssumption`,
`ItemAssumption`, `CsvAssumption`, `RuleAssumption`, `WidgetAssumption`, `PageAssumption`, `AdaptiveAssumption`, `ReadSyncAssumption` and
those of the other modules say what kind of thing a constant is: that there are
finitely many URLs and items, that ids count from one, that times of day are
minutes, that a CSV file has an end and its parser hands on one of the domains a
rule can have, that a stored version is not the absence of one.  Two
theorems need more and have it as a hypothesis with a name, `Faultless` and
`FewWindows`.

* `WriteQueueProofs`.  The inductive invariant has three parts.  `LoopInv` ties
  the program counter to the batch: nothing under way in the select, a batch
  that is not full, at least one job and a valid attempt inside a flush, an
  empty channel once it was seen closed.  `PlaceInv` says that committed, lost,
  collected and waiting jobs are apart and together are the submitted ones; its
  lemmas are about concatenation and injectivity (a job that moves from one end
  of a sequence to another stays in one place).  `AnswerInv` is needed because
  the answer comes before the commit: it remembers that in an attempt the
  executed jobs of the batch have answered.  From these follow TypeCorrect,
  StoppedEmpty, JobsAppliedOnce, JobsNotForgotten, CommittedAnswered and
  AnsweredAfterExecution.  `QueueIsAtomic` is the refinement: with pending as
  `batch \o jobs` each step is a submission, a commit or loss of a prefix, or a
  stutter.  `StuckIsForGood` says that the exception of the liveness properties
  is permanent: while the worker stands before a full channel whose requester no
  longer waits, no step of the loop is possible (StuckNoLoop), and no caller will
  read that channel again.
* `FetchPipelineProofs`, types and claims.  TypeOK is not inductive: a job on the
  channel has a version, but the version a goroutine holds may be the absence of
  a validator.  With HoldsDocument (from "store" on, what a goroutine holds is a
  document's version) it is.  Its last conjuncts are the capacities: the
  channel never holds more than twice the batch size besides what the worker has in
  hand, through sends, flushes of any size and a stuck flush.  `ClaimsExact` rests on three lemmas: what neither
  claims nor releases keeps the claims exact (KeepsClaims), a claim succeeds only
  on a feed nobody owns (ClaimExact), and a release frees the feed of its only
  owner (ReleaseExact).  Both halves of FetchingExact are needed: without the
  second, that no two goroutines own one feed, a release could unmark a feed that
  another goroutine still fetches.
* `FetchPipelineProofs`, coverage: LastFetchedMeansSaved, ValidatorsCovered and
  SuccessIsNotLost, under `Faultless`: bodies are read to their end, batches
  commit, no feed is deleted.  The hypothesis is needed: FetchTruncated shows that
  without it the first one fails.  `CoverInv` says where the items of a version
  are that somebody speaks for: a mark that waits has them saved or queued in
  front of it (MarksInQueue); a goroutine that holds a version it read from the
  table, or has submitted, has them saved or queued (HeldSecured); a cached
  validator has, too, or the goroutine that stored it is about to submit them
  (TagsSecured).  The step from TagsSecured to HeldSecured, when a goroutine reads
  the validator, needs that this other goroutine does not exist: that is
  ClaimsExact.  A request that has reported success no longer changes what it
  holds (SuccessSecured).  A committing batch is a prefix of the queue, so what is
  secured stays so.
* `ShutdownProofs`.  TypeOK is inductive; `ShutdownOrder` says what main's step
  implies about the channels and the workers.  It is needed because
  QueueOutlivesPool by itself does not say that the task channel is closed, which
  is what keeps an exited worker exited.  ShutdownPanic shows that the program can
  die of a send on a closed channel; two theorems say when it cannot.
  `NoEarlyPanic`: never before the signal, nor while the tasks are open
  (PanicOrder).  `WorkersSendSafely`: no worker's step is the one that panics, so
  what is left are the scheduler and the refreshes, which main does not wait for.
* `FiniteOrder`.  Lemmas only, that several proofs need: a finite set that is not
  empty has a last element in any strict order (LastElement), hence a maximum and
  a minimum.  It needs no induction theorem with an operator: the subsets of a
  finite set are well-founded by inclusion, so a smallest counterexample exists.
  In the same way `SubsetInduction` and `UpTo` are inductions for a set of subsets
  or of numbers in place of a predicate, and with them sums over finite sets have
  the properties one expects: they exist, any order of adding gives the same
  (SumAnyOrder), and the gaps between descending numbers add up to the distance of
  the first from the last (SumOfGaps).
* `ScheduleProofs`, interval.  `IntervalTypeCorrect` and `RangeKept`: whatever
  is published, saved and lost, the interval is the default or within its limits.
  It rests on LatestExists, that the newest LastItems of any set of dates exist:
  without it the CHOOSE of Latest says nothing, nor do the gaps.  `NewestCounts`:
  a date of the document just fetched is among those that count, or they are all
  as late.  `IntervalIsMean` is MeanOfGaps: what the code computes from the first and
  the last of the dates that count is the mean of all gaps between them, within the
  limits.  The property orders the dates by rank (NthDate: fewer than k are later,
  at least k not earlier), the code by how it sorts; FirstIsNewest and LastOfLatest
  say that the two agree on the ends, also when dates are equal, and SumOfGaps that
  the ends are all that matters.
* `ScheduleProofs`, windows.  The code's test is by weekday and minute of the day
  of the instant; the properties speak of windows as spans that begin on a day and
  last for a length.  `IgnoredIsCovered` proves the two equal for every instant,
  window and zone, by the three kinds of windows, and `EndCovers` that from an
  active instant up to the computed end the window covers everything.  With these
  SkipsCoveredOnly is inductive together with the types; LeavesFree needs no more
  than that the loop's exit is the exit of the test.  `LimitSuffices` is
  FreeWhenWeekHasFree for all sets of windows with `FewWindows`, seven times their
  number at most MaxIterations, so 71 for the code's 500: each pass ends at an end
  of a window, later than all passes before (PassInv), a window has one end a day
  (OneEndADay), and so the passes that end within a week inject into the windows
  times seven days.
* `ScheduleProofs`, pages.  `TestsAgree` is about two operators and no
  behaviour: the activity tests of the browser and of the scheduler are equal for
  every window, zone and instant of whole numbers.  `BadgesAreEnforced` adds what
  the pages do: what users enter are whole numbers; `LinksExist`, the foreign
  keys, without which a badge might have no window; and `Copied`: a query that
  differs from its table is stale, is behind (the answer that would have
  invalidated it was lost), or will be invalidated by a request that is done.
* `ReadSyncProofs`.  `NoChangeMissed` is NothingMissed for any number of items,
  polls, updates and rows per page.  NothingMissed speaks of the anchor only,
  but a cancelled poll that began at an older anchor may still move it, so the
  invariant speaks of `Past` rows, older than the anchor or than where some poll
  began: these no poll will ask for, and the copy must have them (ReadsRight), as
  must the state an update would be rolled back to (PreviousRight) and the copy
  that a poll is about to deliver, but for rows the poll has yet to read
  (CopyRight, with `Ahead`).  PageEnds is the step that fails without the third
  exception: that the rows a page has no room for come after its last one.
* `BlockRulesProofs`.  `RulesBlockAll` says that of scan and job, one always
  blocks an item.  JobExact: a job whose snapshot is the newest knows all rules, so
  what it saves is blocked by all of them.  ScansExact: of an item that a scan
  does not have as it is now, a job has taken care.  IdsInv: ids only grow, so a
  rule that is deleted and added again is not the one an earlier scan has.
  UrlsExact: unless the URL rules changed, scans have them as they are; rules on
  domains and keywords do not depend on them.  `FormsPass` is FormsAccepted: a
  request keeps what was checked when it was sent (SentInv), the form's check
  implies the server's (FormValid), and so does the parser's for each row it calls
  right, after it has completed it (RowsValid).  `RuleTypesCorrect` is more than its
  name says where snapshots are old: a block is of an item that is stored and of a
  rule that is there, as the foreign keys of item_blocks demand (schema.sql:112).
  It takes that a job that may save has the newest rules (JobExact), that what a scan
  found is stored still (ScanTyped), and that a scan writes only for a rule whose id
  is still the one it has (BlocksTypedStay); and that the valid
  rows of a text are not more than its rows, so that the dialog's result is a number of
  them (RowsCounted).
* `PagesProofs`, feeds.  `OpRight` says how far a request of each kind gets and what
  it has with it there.  `CachesFresh`: a query that is not behind is `Fresh` (what it
  has read or delivered is what the tables hold), or some request under way is `Owed`
  it: will invalidate it.  The hard steps are the answers: a request that has
  invalidated one query still owes the others, and a query that is read before a
  commit is owed by the request that commits.  `SpinnersExact` needs MarksRight,
  which speaks of pairs of requests: one that ends takes the mark away, so another
  refresh of the same feed must have crossed it.  `ImportsWhole` needs UrlsUnique
  and, for the count of rows, that new ids are as many as URLs.
* `PagesProofs`, items.  The four properties of list and dialog follow from one
  invariant, `ItemsInv`.  `CopyExact`: of an item that is neither disturbed nor
  unsynced and for which no update waits for the server, the entry in the copy of
  the read state is what the server has; or there is none, and then all other
  copies (the rows of every key, the cache of the item) are right or empty.  This is
  more than ReadsAgree says, which is about what is shown: a key that is not
  shown now may be shown next.  `BackExact` is what makes a rollback harmless: an
  update that nothing overlapped is alone with its items, was sent from a copy that
  was exact, and its items have not changed on the server since, or are unsynced.
  For a toggle the cache is not exact meanwhile, but what it will be set back to
  is.  `ShownListed` is about the dialog: the item shown is in the list, everything
  offered up to it was seen, and everything at the end; NextRight and PrevRight say
  where keys lead.  `ListComplete` is inductive as it stands; the case that matters
  is an answer (ListItemsStays): what is not in it is older than the anchor, hence
  was in an answer before; a cancelled run moves the anchor, and what it alone has read is
  excepted from then on (ListItemsLostStays).
* `PagesProofs`, swipes.  A swipe ends the swiping, and only a finger that comes
  down on a clear screen begins another: `Unfired` says that while swiping nothing
  was called yet.
* `PagesProofs`, together.  `PagesApart`: a behaviour of MCPages is a behaviour of each
  page's own specification, so that what is proved of a page holds in the composition
  that TLC runs.  `PageTypesCorrect` is TypesOK from there; for the widgets it says that
  the focus is on something that is there (FocusStays: whatever closes the menu takes the
  focus out of it) and that toasts, timers and the copy button's memory are bounded.

The proofs changed the models where these said too little.  `Changed` of FeedStore
and `RowError` of RulesPage were CASE expressions whose arms overlapped; TLA+ leaves
open which arm is taken, while the code takes the first, and so do they now.
MeanOfGaps sorted the dates with SetToSortSeq, which leaves open what it gives when two
entries have one date, as entries may; it speaks of ranks now.

TypeCorrect of `ScheduleProofs` and `PagesProofs`, IntervalTypeCorrect,
TouchTypeCorrect, ItemTypesCorrect, RuleTypesCorrect, EndsAreLater, StoppedEmpty,
StuckIsForGood, TestsAgree, PagesApart, NoEarlyPanic and WorkersSendSafely are theorems
only; no run has them as properties of its own (the runs Schedule and Pages check
other forms of the types).

Every invariant and every action property that a passing run checks is a theorem.
Only model-checked is the liveness (EveryJobSettles, StopEndsWorker, AnsweredUnlessLost,
ClaimsReleased, ShutdownEnds, LoopEnds), since fairness and ENABLED are out of the
prover's reach.

## 5. Not modelled

* A BeginTx that fails is in WriteQueue only; in FetchPipeline every failing batch
  answers at least one of its jobs.
* What jobs write in detail (upserts, cleaning of URLs); SaveFetchedItem, which only tests
  call; the rendering of items and pages, layout and Markdown; logging and
  telemetry.
* The list of items is one answer, in ReadSync as in ItemList, where the code
  asks page by page.
* A crash of the process in the middle of a transaction: SQLite's durability is
  not this project's code, and what is in memory is lost, which ShutdownPanic
  shows to happen.
* A retry of SQLITE_BUSY_SNAPSHOT, the error of a transaction that read before
  others wrote: retry.go has none, which WriteQueue has as a final error and
  BlockRules as a job that fails.
* FetchFeedsByIDs (`fetcher_service.go:207-230`), clearTransientRemovedIds and
  `updateItemStatus` of the frontend have no caller.
* Changes to summer time: a zone is an offset.
* Splitting a text into CSV columns, sorting the tables, reading and writing the
  XML of OPML: conversions that no state depends on but by their result, which
  is an input of the models.
* The recovery from foreign key violations at the opening of the database
  (`db_conn.go`): it runs once, alone, before anything else does, and what a
  deletion takes along is decided by SQLite's cascades.
* The read-only replica keeps no state, and the pages' read-only mode only has
  fewer buttons; migration is an external library; generated code is generated.

## 6. Plan

Done, in this order: AtomicBatches and WriteQueue with proofs, FetchPipeline with
proofs, Shutdown with proofs, AdaptiveInterval, IgnoreWindow, ReadSync; then
ItemList, ItemDetail, Gesture, Widgets, FeedStore, FeedsPage, BlockRules, RulesPage
and IgnoreWindowsPage; then proofs for gestures, badges and blocks, for the
interval and the loop's limit, for the copy of the read state, for the page of the
feeds, for the list of items with its dialog and for the forms of the rules.  What remains, by weight:

1. ReadSync: that the copy agrees with the server in the end when nothing
   changes any more.  It takes a fairness of polls, which the browser gives to
   visible pages only.
2. The pages of the list of items, as ReadSync has them for the read state.
3. The recovery from foreign key violations, should it ever run beside others.

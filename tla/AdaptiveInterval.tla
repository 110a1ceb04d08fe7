-------------------------- MODULE AdaptiveInterval --------------------------
(***************************************************************************)
(* When a feed is fetched next: FetcherService.getNextFetchInterval with   *)
(* CalculateAdaptiveInterval and AdjustIntervalForPeak (scheduler.go),     *)
(* over the history of one feed as SaveItemsJob stores it.                 *)
(*                                                                         *)
(* Time is counted in hours, the grain of the weekly distribution.  A date *)
(* used for the computation is an entry that also says whose date it is    *)
(* and where it was read; the code keeps the dates only.  The document of  *)
(* the feed holds every item published so far.                             *)
(***************************************************************************)
EXTENDS Integers, FiniteSets, SequencesExt, FiniteSetsExt

CONSTANTS Item,
          Dated,            \* items whose entry in the document has a date
          DefaultInterval,  \* FETCH_INTERVAL
          MinInterval, MaxInterval,
          LastItems,        \* 10, the number of dates that count
          Week,             \* 168, the number of hour buckets
          Horizon,          \* 14 days, how far the distribution looks back
          MaxTime           \* bound: the last hour of a behaviour

ASSUME AdaptiveAssumption ==
  /\ Dated \subseteq Item /\ IsFiniteSet(Item)
  /\ {DefaultInterval, MinInterval, MaxInterval, Horizon, MaxTime} \subseteq Nat
  /\ MinInterval <= MaxInterval
  /\ LastItems \in Nat \ {0, 1} /\ Week \in Nat \ {0}

VARIABLES now,
          published,  \* the date an item of the document states, or Never
          created,    \* created_at of the feed_items row, or Never
          pending,    \* items in a SaveItemsJob that is not flushed
          basis,      \* the entries of the last computation
          interval    \* what it gave, or NotYet

feedVars == <<now, published, created, pending, basis, interval>>

Never == -1
NotYet == -1

Time == 0 .. MaxTime

Entry == [item : Item, date : Time, from : {"stored", "document"}]

IntervalTypeOK ==
  /\ now \in Time
  /\ published \in [Item -> Time \cup {Never}]
  /\ created \in [Item -> Time \cup {Never}]
  /\ pending \in SUBSET Item
  /\ basis \in SUBSET Entry
  /\ interval \in Nat \cup {NotYet}

IntervalInit ==
  /\ now = 0
  /\ published = [i \in Item |-> Never]
  /\ created = [i \in Item |-> Never]
  /\ pending = {} /\ basis = {}
  /\ interval = NotYet

-----------------------------------------------------------------------------
(* scheduler.go.                                                           *)

Dates(entries) == {e.date : e \in entries}

\* The first LastItems of the entries sorted by date, newest first.
Latest(entries) ==
  CHOOSE T \in SUBSET entries :
    /\ Cardinality(T) = Min({Cardinality(entries), LastItems})
    /\ \A e \in T, d \in entries \ T : e.date >= d.date

Clamp(x) == IF x < MinInterval THEN MinInterval
            ELSE IF x > MaxInterval THEN MaxInterval ELSE x

\* Mutated CalculateAdaptiveInterval: divided by the number of dates.
CalculateByCount(entries) ==
  IF Cardinality(entries) < 2 THEN DefaultInterval
  ELSE LET recent == Latest(entries)
       IN Clamp((Max(Dates(recent)) - Min(Dates(recent)))
                  \div Cardinality(recent))

CalculateAdaptiveInterval(entries) ==
  IF Cardinality(entries) < 2 THEN DefaultInterval
  ELSE LET recent == Latest(entries)
       IN Clamp((Max(Dates(recent)) - Min(Dates(recent)))
                  \div (Cardinality(recent) - 1))

\* GetFeedUpdateDistribution: rows per hour of the week.
Count(rows, bucket) ==
  Cardinality({i \in Item : /\ rows[i] # Never
                            /\ rows[i] >= now - Horizon
                            /\ rows[i] % Week = bucket})

Peak(rows, bucket) ==
  /\ Count(rows, bucket) >= 2
  /\ \A b \in 0 .. Week - 1 : 2 * Count(rows, bucket) >= Count(rows, b)

\* Mutated AdjustIntervalForPeak: half of the shortest interval.
AdjustBelowMinimum(rows, base) ==
  IF Peak(rows, (now + base) % Week) THEN base \div 2 ELSE base

AdjustIntervalForPeak(rows, base) ==
  IF Peak(rows, (now + base) % Week)
  THEN IF base \div 2 < MinInterval THEN MinInterval ELSE base \div 2
  ELSE base

-----------------------------------------------------------------------------
(* getNextFetchInterval, after a fetch.                                    *)

\* ListRecentItemHybridDates.  SaveItemsJob leaves feed_items.published_at
\* NULL, so that created_at is the date of every row.
RecentItemDates(rows) ==
  Latest({[item |-> i, date |-> rows[i], from |-> "stored"] :
             i \in {i \in Item : rows[i] # Never}})

InDocument == {i \in Item : published[i] # Never}

\* The dates of the document that was just fetched, or the present.
DocumentDates ==
  {[item |-> i, date |-> IF i \in Dated THEN published[i] ELSE now,
    from |-> "document"] : i \in InDocument}

\* Either of the two queries may fail: without the dates the interval is the
\* default, without the distribution it is not adjusted.
NextFetchInterval(rows, entries) ==
  \/ /\ basis' = entries
     /\ LET base == CalculateAdaptiveInterval(basis')
        IN interval' \in {base, AdjustIntervalForPeak(rows, base)}
  \/ basis' = {} /\ interval' = DefaultInterval

\* Mutated FetchAndSave: the stored dates only, before the items are saved.
FetchAndSaveStored ==
  /\ NextFetchInterval(created, RecentItemDates(created))
  /\ pending' = pending \cup InDocument
  /\ UNCHANGED <<now, published, created>>

\* SaveItemsJob: a row that exists keeps its created_at.
Saved(items) ==
  [i \in Item |-> IF i \in items /\ created[i] = Never THEN now ELSE created[i]]

\* FetchAndSave: all the items of the document are handed to the write queue,
\* which may save them before the stored dates are read, and merged with these.
FetchAndSave ==
  /\ \/ pending' = pending \cup InDocument /\ UNCHANGED created
     \/ pending' = {} /\ created' = Saved(pending \cup InDocument)
  /\ NextFetchInterval(created', RecentItemDates(created') \cup DocumentDates)
  /\ UNCHANGED <<now, published>>

\* fetchAndSaveSync hands over the items, waits until they are saved, and
\* computes the interval from the stored dates alone.
FetchAndSaveSync ==
  /\ created' = Saved(InDocument)
  /\ NextFetchInterval(created', RecentItemDates(created'))
  /\ UNCHANGED <<now, published, pending>>

\* 304: nothing new.
NotModified ==
  /\ NextFetchInterval(created, RecentItemDates(created))
  /\ UNCHANGED <<now, published, created, pending>>

-----------------------------------------------------------------------------

\* The write queue saves the items.
Flush ==
  /\ pending # {}
  /\ created' = Saved(pending)
  /\ pending' = {}
  /\ UNCHANGED <<now, published, basis, interval>>

\* The publisher may date an item as it likes, in the past or the future; one
\* that has no date in the document has the 0 that nobody reads.
Publish(i) ==
  /\ published[i] = Never
  /\ \E t \in IF i \in Dated THEN Time ELSE {0} :
       published' = [published EXCEPT ![i] = t]
  /\ UNCHANGED <<now, created, pending, basis, interval>>

Tick ==
  /\ now < MaxTime
  /\ now' = now + 1
  /\ UNCHANGED <<published, created, pending, basis, interval>>

IntervalNext ==
  \/ FetchAndSave \/ FetchAndSaveSync \/ NotModified \/ Flush \/ Tick
  \/ \E i \in Item : Publish(i)

IntervalSpec == IntervalInit /\ [][IntervalNext]_feedVars

-----------------------------------------------------------------------------
(* Properties.                                                             *)

\* docs/adaptive_fetch.md:17 "The resulting interval is always clamped between
\* 15 minutes and 24 hours", and the halved interval of a peak is, too.  Only
\* the default, which is configured and used for fewer than two dates, may lie
\* outside (scheduler.go:59-61).
IntervalInRange ==
  interval # NotYet =>
    \/ interval \in MinInterval .. MaxInterval
    \/ /\ Cardinality(basis) < 2
       /\ interval \in {DefaultInterval, DefaultInterval \div 2}

\* The k-th newest of the dates, where entries may share one.
NthDate(entries, k) ==
  CHOOSE t \in Dates(entries) :
    /\ Cardinality({e \in entries : e.date > t}) < k
    /\ Cardinality({e \in entries : e.date >= t}) >= k

\* docs/adaptive_fetch.md:16, the base interval is the average time between
\* the updates: of one gap per pair of neighbours among the newest dates.
MeanOfGaps ==
  LET count == Min({Cardinality(basis), LastItems})
      gaps == [k \in 1 .. count - 1 |-> NthDate(basis, k) - NthDate(basis, k + 1)]
  IN count >= 2 => CalculateAdaptiveInterval(basis)
                     = Clamp(SumFunction(gaps) \div (count - 1))

\* fetcher_service.go:321 "ensure adaptive calculation uses the most current
\* data": the items of a scheduled fetch count although they are not stored,
\* unless their dates cannot be read.
NewestItemCounts ==
  [][FetchAndSave => \A i \in Dated \cap InDocument : basis' # {} =>
       \E e \in Latest(basis') : e.date >= published[i]]_feedVars

\* docs/adaptive_fetch.md:15 "The system uses the Published At date from the
\* feed if available. If not, it falls back to the Created At (discovery)
\* timestamp."
HybridTimestamp ==
  [][FetchAndSave \/ FetchAndSaveSync \/ NotModified =>
       \A e \in basis' : created'[e.item] # Never =>
         e.date = IF e.item \in Dated THEN published[e.item]
                                      ELSE created'[e.item]]_feedVars
=============================================================================

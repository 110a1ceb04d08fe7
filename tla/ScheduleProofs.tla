--------------------------- MODULE ScheduleProofs ---------------------------
(***************************************************************************)
(* When a feed is fetched next, for every set of windows and items, every  *)
(* limit and every time.  The interval stays in its range and counts the   *)
(* newest items; the next fetch is only put off through time that a window *)
(* covers, and ends at the first free instant; and the pages show the      *)
(* windows the scheduler is given.                                         *)
(***************************************************************************)
EXTENDS IgnoreWindowsPage, AdaptiveInterval, FiniteOrder, TLAPS

-----------------------------------------------------------------------------
(* The interval.                                                           *)

DatesAreInt(entries) == \A e \in entries : e.date \in Int

\* The properties by which Latest chooses.
IsLatest(T, entries) ==
  /\ Cardinality(T) = Min({Cardinality(entries), LastItems})
  /\ \A e \in T, d \in entries \ T : e.date >= d.date

(* A list that is not empty has a newest entry.                            *)
LEMMA NewestExists ==
  ASSUME NEW S, IsFiniteSet(S), S # {}, DatesAreInt(S)
  PROVE  \E e \in S : \A d \in S : e.date >= d.date
<1> DEFINE Older == {r \in S \X S : r[1].date < r[2].date}
<1>1. \A e \in S : <<e, e>> \notin Older
  BY DEF DatesAreInt
<1>2. \A u, v, w \in S : <<u, v>> \in Older /\ <<v, w>> \in Older => <<u, w>> \in Older
  BY DEF DatesAreInt
<1>3. PICK e \in S : \A d \in S : <<e, d>> \notin Older
  <2> HIDE DEF Older
  <2>1. QED
    BY <1>1, <1>2, LastElement
<1>4. ASSUME NEW d \in S PROVE e.date >= d.date
  <2>1. ~(e.date < d.date)
    BY <1>3
  <2>2. QED
    BY <2>1 DEF DatesAreInt
<1>5. QED
  BY <1>4

(* There are LastItems newest entries, or all: of the sets of at most as   *)
(* many entries with none newer outside, the largest has just as many.     *)
LEMMA LatestExists ==
  ASSUME NEW entries, IsFiniteSet(entries), DatesAreInt(entries)
  PROVE  Latest(entries) \in SUBSET entries /\ IsLatest(Latest(entries), entries)
<1> DEFINE Newest(T) == \A e \in T, d \in entries \ T : e.date >= d.date
           Top == {T \in SUBSET entries : Newest(T) /\ Cardinality(T) <= LastItems}
           Within == {r \in Top \X Top : r[1] \subseteq r[2] /\ r[1] # r[2]}
<1>1. /\ LastItems \in Nat /\ Cardinality(entries) \in Nat
      /\ \A T \in SUBSET entries : IsFiniteSet(T) /\ Cardinality(T) \in Nat
  BY AdaptiveAssumption, FS_Subset, FS_CardinalityType
<1>2. PICK T \in Top : \A U \in Top : <<T, U>> \notin Within
  <2>1. {} \in Top
    BY <1>1, FS_EmptySet
  <2>2. IsFiniteSet(Top)
    <3>1. IsFiniteSet(SUBSET entries)
      BY FS_SUBSET
    <3>2. QED
      BY <3>1, FS_Subset
  <2>3. \A U \in Top : <<U, U>> \notin Within
    OBVIOUS
  <2>4. \A U, V, W \in Top : <<U, V>> \in Within /\ <<V, W>> \in Within => <<U, W>> \in Within
    OBVIOUS
  <2> HIDE DEF Top, Within
  <2>5. QED
    BY <2>1, <2>2, <2>3, <2>4, LastElement
<1>3. T \subseteq entries /\ IsFiniteSet(T) /\ Newest(T) /\ Cardinality(T) <= LastItems
      /\ Cardinality(T) \in Nat
  BY <1>1
<1>4. CASE T = entries
  <2>1. Cardinality(T) = Min({Cardinality(entries), LastItems})
    BY <1>1, <1>3, <1>4, MinOfTwo
  <2>2. IsLatest(T, entries)
    BY <1>3, <2>1 DEF IsLatest
  <2>3. QED
    BY <1>3, <2>2 DEF Latest, IsLatest
<1>5. CASE T # entries
  <2> DEFINE rest == entries \ T
  <2>1. IsFiniteSet(rest) /\ rest # {} /\ DatesAreInt(rest)
    BY <1>3, <1>5, FS_Difference DEF DatesAreInt
  <2> HIDE DEF rest
  <2>2. PICK n \in rest : \A d \in rest : n.date >= d.date
    BY <2>1, NewestExists
  <2> DEFINE U == T \cup {n}
  <2>3. n \in entries /\ n \notin T /\ U \subseteq entries
    BY <1>3 DEF rest
  <2>4. Cardinality(U) = Cardinality(T) + 1
    BY <1>3, <2>3, FS_AddElement
  <2>5. Newest(U)
    BY <1>3, <2>2, <2>3 DEF rest
  <2>6. U \notin Top
    <3>1. T \subseteq U /\ T # U
      BY <2>3
    <3> HIDE DEF U, Top
    <3>2. QED
      BY <1>2, <3>1
  <2>7. ~(Cardinality(U) <= LastItems)
    BY <2>3, <2>5, <2>6
  <2>8. Cardinality(U) <= Cardinality(entries) /\ Cardinality(U) \in Nat
    BY <1>1, <2>3, FS_Subset
  <2>9. Cardinality(T) = Min({Cardinality(entries), LastItems})
    BY <1>1, <1>3, <2>4, <2>7, <2>8, MinOfTwo
  <2>10. IsLatest(T, entries)
    BY <1>3, <2>9 DEF IsLatest
  <2>11. QED
    BY <1>3, <2>10 DEF Latest, IsLatest
<1>6. QED
  BY <1>4, <1>5

(* Two entries or more have at least two latest ones, whose dates have a   *)
(* last and a first.                                                       *)
LEMMA LatestDates ==
  ASSUME NEW entries, IsFiniteSet(entries), DatesAreInt(entries), Cardinality(entries) >= 2
  PROVE  LET recent == Latest(entries)
         IN /\ Cardinality(recent) \in Nat /\ Cardinality(recent) >= 2
            /\ Max(Dates(recent)) \in Int /\ Min(Dates(recent)) \in Int
<1> DEFINE recent == Latest(entries)
           dates == Dates(recent)
<1>1. recent \subseteq entries /\ Cardinality(recent) = Min({Cardinality(entries), LastItems})
  BY LatestExists DEF IsLatest
<1> HIDE DEF recent
<1>2. IsFiniteSet(recent) /\ Cardinality(recent) \in Nat
  BY <1>1, FS_Subset, FS_CardinalityType
<1>3. Cardinality(recent) >= 2
  <2>1. Cardinality(entries) \in Nat /\ LastItems \in Nat /\ LastItems >= 2
    BY AdaptiveAssumption, FS_CardinalityType
  <2>2. QED
    BY <1>1, <2>1, MinOfTwo
<1>4. recent # {}
  BY <1>3, FS_EmptySet
<1>5. IsFiniteSet(dates)
  <2> DEFINE f == [e \in recent |-> e.date]
  <2>1. f \in Surjection(recent, dates)
    BY DEF Surjection, Dates
  <2> HIDE DEF f, dates
  <2>2. QED
    BY <1>2, <2>1, FS_Surjection
<1>6. dates \subseteq Int /\ dates # {}
  BY <1>1, <1>4 DEF Dates, DatesAreInt
<1>7. Max(dates) \in Int /\ Min(dates) \in Int
  <2> HIDE DEF dates
  <2>1. QED
    BY <1>5, <1>6, MaxIsLast, MinIsFirst
<1>8. QED
  BY <1>2, <1>3, <1>7 DEF recent

(* CalculateAdaptiveInterval keeps its limits, but for the default.        *)
LEMMA BaseInRange ==
  ASSUME NEW entries, IsFiniteSet(entries), DatesAreInt(entries)
  PROVE  IF Cardinality(entries) < 2
         THEN CalculateAdaptiveInterval(entries) = DefaultInterval
         ELSE CalculateAdaptiveInterval(entries) \in MinInterval .. MaxInterval
<1>1. CASE Cardinality(entries) < 2
  BY <1>1 DEF CalculateAdaptiveInterval
<1>2. CASE ~(Cardinality(entries) < 2)
  <2> DEFINE recent == Latest(entries)
             mean == (Max(Dates(recent)) - Min(Dates(recent))) \div (Cardinality(recent) - 1)
  <2>1. Cardinality(entries) >= 2
    BY <1>2, FS_CardinalityType
  <2>2. mean \in Int
    <3>1. /\ Cardinality(recent) \in Nat /\ Cardinality(recent) >= 2
          /\ Max(Dates(recent)) \in Int /\ Min(Dates(recent)) \in Int
      BY <2>1, LatestDates
    <3> HIDE DEF recent
    <3>2. Cardinality(recent) - 1 \in Int /\ Cardinality(recent) - 1 > 0
      BY <3>1
    <3>3. QED
      BY <3>1, <3>2
  <2>3. CalculateAdaptiveInterval(entries) = Clamp(mean)
    BY <1>2 DEF CalculateAdaptiveInterval
  <2> HIDE DEF mean
  <2>4. Clamp(mean) \in MinInterval .. MaxInterval
    BY <2>2, AdaptiveAssumption DEF Clamp
  <2>5. QED
    BY <1>2, <2>3, <2>4
<1>3. QED
  BY <1>1, <1>2

\* What is known of the history of the feed.
Rows == [Item -> Time \cup {Never}]

(* A date is a number.                                                     *)
LEMMA TimeIsInt == Time \subseteq Int
  BY AdaptiveAssumption DEF Time

(* So is that of an entry.                                                 *)
LEMMA EntriesDated ==
  ASSUME NEW S \in SUBSET Entry
  PROVE  DatesAreInt(S)
<1>1. ASSUME NEW e \in Entry PROVE e.date \in Int
  <2>1. e.date \in Time
    BY DEF Entry
  <2>2. QED
    BY <2>1, TimeIsInt, Zenon
<1>2. QED
  BY <1>1 DEF DatesAreInt

(* A finite number of items has a finite number of entries.                *)
LEMMA FiniteEntries ==
  ASSUME NEW S \in SUBSET Item, NEW f
  PROVE  IsFiniteSet({f[i] : i \in S})
<1> DEFINE g == [i \in S |-> f[i]]
           T == {f[i] : i \in S}
<1>1. g \in Surjection(S, T)
  BY DEF Surjection
<1>2. IsFiniteSet(S)
  BY AdaptiveAssumption, FS_Subset
<1> HIDE DEF g, T
<1>3. IsFiniteSet(T)
  BY <1>1, <1>2, FS_Surjection
<1>4. QED
  BY <1>3 DEF T

(* The stored dates are dates of the past, and finitely many.              *)
LEMMA StoredDates ==
  ASSUME NEW rows \in Rows
  PROVE  RecentItemDates(rows) \in SUBSET Entry /\ IsFiniteSet(RecentItemDates(rows))
<1> DEFINE Stored == {i \in Item : rows[i] # Never}
           f == [i \in Item |-> [item |-> i, date |-> rows[i], from |-> "stored"]]
           S == {f[i] : i \in Stored}
<1>1. S = {[item |-> i, date |-> rows[i], from |-> "stored"] :
              i \in {i \in Item : rows[i] # Never}}
  OBVIOUS
<1>2. S \subseteq Entry
  BY DEF Entry, Rows
<1>3. IsFiniteSet(S)
  <2> HIDE DEF f
  <2>1. QED
    BY FiniteEntries
<1>4. DatesAreInt(S)
  BY <1>2, EntriesDated
<1>5. RecentItemDates(rows) = Latest(S)
  BY <1>1 DEF RecentItemDates
<1> HIDE DEF S
<1>6. Latest(S) \subseteq S
  BY <1>3, <1>4, LatestExists
<1>7. QED
  BY <1>2, <1>3, <1>5, <1>6, FS_Subset

(* So are those of the document.                                           *)
LEMMA DatesOfDocument ==
  ASSUME now \in Time, published \in Rows
  PROVE  DocumentDates \in SUBSET Entry /\ IsFiniteSet(DocumentDates)
<1> DEFINE f == [i \in Item |-> [item |-> i, date |-> IF i \in Dated THEN published[i] ELSE now,
                                 from |-> "document"]]
<1>1. DocumentDates = {f[i] : i \in InDocument}
  BY DEF DocumentDates, InDocument
<1>2. {f[i] : i \in InDocument} \subseteq Entry
  BY DEF Entry, InDocument, Rows
<1>3. InDocument \subseteq Item
  BY DEF InDocument
<1> HIDE DEF f
<1>4. QED
  BY <1>1, <1>2, <1>3, FiniteEntries

(* Every way of computing the interval has a finite basis of entries and a *)
(* number in the range.                                                    *)
LEMMA ComputedInRange ==
  ASSUME NEW rows \in Rows, NEW entries \in SUBSET Entry, IsFiniteSet(entries),
         NextFetchInterval(rows, entries)
  PROVE  basis' \in SUBSET Entry /\ interval' \in Nat /\ IntervalInRange'
<1>1. /\ MinInterval \in Nat /\ MaxInterval \in Nat /\ DefaultInterval \in Nat
      /\ MinInterval <= MaxInterval
  BY AdaptiveAssumption
<1> DEFINE base == CalculateAdaptiveInterval(entries)
           InRange(n, E) ==
             \/ n \in MinInterval .. MaxInterval
             \/ Cardinality(E) < 2 /\ n \in {DefaultInterval, DefaultInterval \div 2}
<1>2. SUFFICES basis' \in SUBSET Entry /\ interval' \in Nat /\ InRange(interval', basis')
  BY DEF IntervalInRange
<1>3. CASE basis' = {} /\ interval' = DefaultInterval
  BY <1>1, <1>3, FS_EmptySet
<1>4. CASE basis' = entries /\ interval' \in {base, AdjustIntervalForPeak(rows, base)}
  <2>1. IF Cardinality(entries) < 2 THEN base = DefaultInterval
                                    ELSE base \in MinInterval .. MaxInterval
    BY BaseInRange, EntriesDated
  <2> HIDE DEF base
  <2>2. base \in Nat
    BY <1>1, <2>1
  <2>3. interval' = base \/ interval' = MinInterval
        \/ (interval' = base \div 2 /\ ~(base \div 2 < MinInterval))
    BY <1>4 DEF AdjustIntervalForPeak
  <2>4. base \div 2 \in Nat /\ base \div 2 <= base
    BY <2>2
  <2>5. interval' \in Nat
    BY <1>1, <2>2, <2>3, <2>4
  <2>6. InRange(interval', entries)
    BY <1>1, <2>1, <2>2, <2>3, <2>4
  <2>7. QED
    BY <1>4, <2>5, <2>6
<1>5. QED
  BY <1>3, <1>4 DEF NextFetchInterval

(* A finite set of entries from each source makes a finite basis.          *)
LEMMA MergedEntries ==
  ASSUME now \in Time, published \in Rows, NEW rows \in Rows
  PROVE  /\ RecentItemDates(rows) \cup DocumentDates \in SUBSET Entry
         /\ IsFiniteSet(RecentItemDates(rows) \cup DocumentDates)
  BY StoredDates, DatesOfDocument, FS_Union

(* What SaveItemsJob writes.                                               *)
LEMMA RowsSaved ==
  ASSUME now \in Time, created \in Rows, NEW items
  PROVE  Saved(items) \in Rows
  BY DEF Saved, Rows

IntervalInv == IntervalTypeOK /\ IntervalInRange

(* No step leaves the types or the range.                                  *)
LEMMA IntervalStays == IntervalInv /\ [IntervalNext]_feedVars => IntervalInv'
<1> SUFFICES ASSUME IntervalInv, [IntervalNext]_feedVars PROVE IntervalInv'
  OBVIOUS
<1>1. /\ now \in Time /\ published \in Rows /\ created \in Rows
      /\ pending \in SUBSET Item /\ basis \in SUBSET Entry
  BY DEF IntervalInv, IntervalTypeOK, Rows
<1>2. ASSUME NEW rows \in Rows, NEW entries \in SUBSET Entry, IsFiniteSet(entries),
             NextFetchInterval(rows, entries),
             now' = now, published' = published, created' \in Rows, pending' \in SUBSET Item
      PROVE  IntervalInv'
  <2>1. basis' \in SUBSET Entry /\ interval' \in Nat /\ IntervalInRange'
    BY <1>2, ComputedInRange
  <2>2. IntervalTypeOK'
    BY <1>1, <1>2, <2>1 DEF IntervalTypeOK, Rows
  <2>3. QED
    BY <2>1, <2>2 DEF IntervalInv
<1>3. ASSUME UNCHANGED <<basis, interval>>,
             now' \in Time, published' \in Rows, created' \in Rows, pending' \in SUBSET Item
      PROVE  IntervalInv'
  <2>1. IntervalTypeOK'
    BY <1>1, <1>3 DEF IntervalInv, IntervalTypeOK, Rows
  <2>2. IntervalInRange'
    BY <1>3 DEF IntervalInv, IntervalInRange
  <2>3. QED
    BY <2>1, <2>2 DEF IntervalInv
<1>4. InDocument \subseteq Item
  BY DEF InDocument
<1>5. CASE FetchAndSave
  <2>1. /\ NextFetchInterval(created', RecentItemDates(created') \cup DocumentDates)
        /\ now' = now /\ published' = published
    BY <1>5 DEF FetchAndSave
  <2>2. created' \in Rows
    BY <1>1, <1>5, RowsSaved DEF FetchAndSave
  <2>3. pending' \in SUBSET Item
    BY <1>1, <1>4, <1>5 DEF FetchAndSave
  <2>4. /\ RecentItemDates(created') \cup DocumentDates \in SUBSET Entry
        /\ IsFiniteSet(RecentItemDates(created') \cup DocumentDates)
    BY <1>1, <2>2, MergedEntries
  <2>5. QED
    BY <1>2, <2>1, <2>2, <2>3, <2>4
<1>6. CASE FetchAndSaveSync
  <2>1. /\ created' = Saved(InDocument)
        /\ NextFetchInterval(created', RecentItemDates(created'))
        /\ now' = now /\ published' = published /\ pending' = pending
    BY <1>6 DEF FetchAndSaveSync
  <2>2. created' \in Rows
    BY <1>1, <2>1, RowsSaved
  <2>3. QED
    BY <1>1, <1>2, <2>1, <2>2, StoredDates
<1>7. CASE NotModified
  <2>1. /\ NextFetchInterval(created, RecentItemDates(created))
        /\ now' = now /\ published' = published /\ created' = created /\ pending' = pending
    BY <1>7 DEF NotModified
  <2>2. QED
    BY <1>1, <1>2, <2>1, StoredDates
<1>8. CASE Flush
  <2>1. created' \in Rows
    BY <1>1, <1>8, RowsSaved DEF Flush
  <2>2. QED
    BY <1>1, <1>3, <1>8, <2>1 DEF Flush
<1>9. ASSUME NEW i \in Item, Publish(i) PROVE IntervalInv'
  <2>1. PICK t \in IF i \in Dated THEN Time ELSE {0} :
          published' = [published EXCEPT ![i] = t]
    BY <1>9 DEF Publish
  <2>2. 0 \in Time
    BY AdaptiveAssumption DEF Time
  <2>3. t \in Time
    BY <2>1, <2>2
  <2>4. published' \in Rows
    BY <1>1, <2>1, <2>3 DEF Rows
  <2>5. QED
    BY <1>1, <1>3, <1>9, <2>4 DEF Publish
<1>10. CASE Tick
  <2>1. now' \in Time
    BY <1>1, <1>10, AdaptiveAssumption DEF Tick, Time
  <2>2. QED
    BY <1>1, <1>3, <1>10, <2>1 DEF Tick
<1>11. CASE UNCHANGED feedVars
  BY <1>1, <1>3, <1>11 DEF feedVars
<1>12. QED
  BY <1>5, <1>6, <1>7, <1>8, <1>9, <1>10, <1>11 DEF IntervalNext

LEMMA IntervalInvHolds == IntervalSpec => []IntervalInv
<1>1. IntervalInit => IntervalInv
  BY AdaptiveAssumption DEF IntervalInit, IntervalInv, IntervalTypeOK, IntervalInRange,
     Time, NotYet, Entry
<1>2. QED
  BY <1>1, IntervalStays, PTL DEF IntervalSpec

(* The dates an interval is computed from are those of items, stored, or   *)
(* read from the document, and those the document states are taken as they *)
(* are, of the past or of the future.                                      *)
THEOREM IntervalTypeCorrect == IntervalSpec => []IntervalTypeOK
<1>1. IntervalInv => IntervalTypeOK
  BY DEF IntervalInv
<1>2. QED
  BY <1>1, IntervalInvHolds, PTL

(* IntervalInRange: no history of a feed, no peak and no failing query     *)
(* makes the interval leave its limits.                                    *)
THEOREM RangeKept == IntervalSpec => []IntervalInRange
<1>1. IntervalInv => IntervalInRange
  BY DEF IntervalInv
<1>2. QED
  BY <1>1, IntervalInvHolds, PTL

(* NewestItemCounts: a date of the document is among the latest of the     *)
(* merged list, or they are all as late.                                   *)
THEOREM NewestCounts == IntervalSpec => NewestItemCounts
<1> DEFINE Counts ==
      \A i \in Dated \cap InDocument : basis' # {} =>
        \E e \in Latest(basis') : e.date >= published[i]
<1>1. ASSUME IntervalTypeOK, FetchAndSave PROVE Counts
  <2> SUFFICES ASSUME NEW i \in Dated \cap InDocument, basis' # {}
               PROVE  \E e \in Latest(basis') : e.date >= published[i]
    OBVIOUS
  <2>r. created' \in Rows
    BY <1>1, RowsSaved DEF IntervalTypeOK, Rows, FetchAndSave
  <2> DEFINE entries == RecentItemDates(created') \cup DocumentDates
             x == [item |-> i, date |-> published[i], from |-> "document"]
  <2>1. basis' = entries
    BY <1>1 DEF FetchAndSave, NextFetchInterval
  <2>2. entries \subseteq Entry /\ IsFiniteSet(entries)
    BY <1>1, <2>r, MergedEntries DEF IntervalTypeOK, Rows
  <2>3. x \in entries
    BY DEF DocumentDates
  <2> HIDE DEF entries
  <2>4. Latest(entries) \subseteq entries /\ IsLatest(Latest(entries), entries)
    BY <2>2, EntriesDated, LatestExists
  <2>5. Latest(entries) # {}
    <3>1. Cardinality(entries) \in Nat /\ Cardinality(entries) # 0 /\ LastItems \in Nat
          /\ LastItems # 0
      BY <2>2, <2>3, AdaptiveAssumption, FS_CardinalityType, FS_EmptySet
    <3>2. Cardinality(Latest(entries)) # 0
      BY <2>4, <3>1, MinOfTwo DEF IsLatest
    <3>3. QED
      BY <3>2, FS_EmptySet
  <2>6. CASE x \in Latest(entries)
    <3>1. x.date >= published[i]
      <4>1. published[i] \in Int
        BY <2>2, <2>3, EntriesDated DEF DatesAreInt
      <4>2. QED
        BY <4>1
    <3>2. QED
      BY <2>1, <2>6, <3>1
  <2>7. CASE x \notin Latest(entries)
    <3>1. PICK e \in Latest(entries) : e.date >= x.date
      BY <2>3, <2>4, <2>5, <2>7 DEF IsLatest
    <3>2. QED
      BY <2>1, <3>1
  <2>8. QED
    BY <2>6, <2>7
<1>2. IntervalTypeOK /\ [IntervalNext]_feedVars => [FetchAndSave => Counts]_feedVars
  BY <1>1
<1>3. QED
  BY <1>2, IntervalTypeCorrect, PTL DEF IntervalSpec, NewestItemCounts

-----------------------------------------------------------------------------
(* The mean of the gaps.                                                   *)

Later(t, entries) == {e \in entries : e.date > t}
NotBefore(t, entries) == {e \in entries : e.date >= t}

\* The property by which NthDate chooses.
IsNth(t, entries, k) ==
  /\ t \in Dates(entries)
  /\ Cardinality(Later(t, entries)) < k /\ Cardinality(NotBefore(t, entries)) >= k

(* Finitely many entries have finitely many dates, which are numbers, and  *)
(* parts whose sizes are numbers.                                          *)
LEMMA DatesFinite ==
  ASSUME NEW S, IsFiniteSet(S), DatesAreInt(S)
  PROVE  /\ Dates(S) \in SUBSET Int /\ IsFiniteSet(Dates(S))
         /\ S # {} => Dates(S) # {}
         /\ \A t : /\ IsFiniteSet(Later(t, S)) /\ Cardinality(Later(t, S)) \in Nat
                   /\ IsFiniteSet(NotBefore(t, S)) /\ Cardinality(NotBefore(t, S)) \in Nat
<1> DEFINE f == [e \in S |-> e.date]
<1>1. f \in Surjection(S, Dates(S))
  BY DEF Surjection, Dates
<1>2. IsFiniteSet(Dates(S))
  <2> HIDE DEF f
  <2> QED
    BY <1>1, FS_Surjection
<1>3. Dates(S) \in SUBSET Int /\ (S # {} => Dates(S) # {})
  BY DEF Dates, DatesAreInt
<1>4. \A T \in SUBSET S : IsFiniteSet(T) /\ Cardinality(T) \in Nat
  BY FS_Subset, FS_CardinalityType
<1>5. \A t : Later(t, S) \in SUBSET S /\ NotBefore(t, S) \in SUBSET S
  BY DEF Later, NotBefore
<1> QED
  BY <1>2, <1>3, <1>4, <1>5

(* Of two dates, the entries of the later and after it are after the       *)
(* earlier: no two dates are the k-th.                                     *)
LEMMA NthUnique ==
  ASSUME NEW S, IsFiniteSet(S), DatesAreInt(S), NEW k \in Nat,
         NEW t, IsNth(t, S, k), NEW u, IsNth(u, S, k)
  PROVE  t = u
<1>1. t \in Int /\ u \in Int
  BY DatesFinite DEF IsNth
<1>2. ASSUME NEW a \in Int, NEW b \in Int, IsNth(a, S, k), IsNth(b, S, k), a < b
      PROVE  FALSE
  <2>1. NotBefore(b, S) \subseteq Later(a, S)
    <3>1. \A e \in S : e.date >= b => e.date > a
      BY <1>2 DEF DatesAreInt
    <3> QED
      BY <3>1 DEF NotBefore, Later
  <2>2. Cardinality(NotBefore(b, S)) <= Cardinality(Later(a, S))
    BY <2>1, DatesFinite, FS_Subset
  <2>3. Cardinality(Later(a, S)) < k /\ Cardinality(NotBefore(b, S)) >= k
    BY <1>2 DEF IsNth
  <2> QED
    BY <2>2, <2>3, DatesFinite
<1>3. ~(t < u) /\ ~(u < t)
  BY <1>1, <1>2
<1> QED
  BY <1>1, <1>3

(* So NthDate gives the one there is.                                      *)
LEMMA NthDateIs ==
  ASSUME NEW S, IsFiniteSet(S), DatesAreInt(S), NEW k \in Nat, NEW t, IsNth(t, S, k)
  PROVE  NthDate(S, k) = t
<1>1. NthDate(S, k) = CHOOSE u \in Dates(S) : IsNth(u, S, k)
  <2>1. \A u \in Dates(S) : IsNth(u, S, k) <=>
          /\ Cardinality({e \in S : e.date > u}) < k
          /\ Cardinality({e \in S : e.date >= u}) >= k
    BY DEF IsNth, Later, NotBefore
  <2> QED
    BY <2>1 DEF NthDate
<1>2. t \in Dates(S)
  BY DEF IsNth
<1>3. IsNth(NthDate(S, k), S, k)
  BY <1>1, <1>2
<1> QED
  BY <1>3, NthUnique

(* There is a k-th for every k up to the number of entries: the latest of  *)
(* the dates that at least k entries are not before.                       *)
LEMMA NthExists ==
  ASSUME NEW S, IsFiniteSet(S), DatesAreInt(S), NEW k \in Nat, k >= 1, k <= Cardinality(S)
  PROVE  \E t \in Int : IsNth(t, S, k)
<1> DEFINE G == {t \in Dates(S) : Cardinality(NotBefore(t, S)) >= k}
<1>1. S # {} /\ Cardinality(S) \in Nat
  BY FS_EmptySet, FS_CardinalityType
<1>2. /\ Dates(S) \in SUBSET Int /\ IsFiniteSet(Dates(S)) /\ Dates(S) # {}
  BY <1>1, DatesFinite
<1>3. Min(Dates(S)) \in Dates(S) /\ \A t \in Dates(S) : Min(Dates(S)) <= t
  BY <1>2, MinIsFirst
<1>4. Min(Dates(S)) \in G
  <2>1. NotBefore(Min(Dates(S)), S) = S
    <3>1. \A e \in S : e.date \in Dates(S) /\ e.date \in Int
      BY DEF Dates, DatesAreInt
    <3>2. \A e \in S : e.date >= Min(Dates(S))
      BY <1>2, <1>3, <3>1
    <3> QED
      BY <3>2 DEF NotBefore
  <2> QED
    BY <1>1, <1>3, <2>1
<1>5. G \in SUBSET Int /\ IsFiniteSet(G) /\ G # {}
  <2>1. G \in SUBSET Dates(S)
    OBVIOUS
  <2> HIDE DEF G
  <2> QED
    BY <1>2, <1>4, <2>1, FS_Subset
<1> DEFINE t == Max(G)
<1>6. t \in G /\ \A n \in G : n <= t
  <2> HIDE DEF G
  <2> QED
    BY <1>5, MaxIsLast
<1>7. t \in Dates(S) /\ t \in Int /\ Cardinality(NotBefore(t, S)) >= k
  BY <1>5, <1>6
<1> HIDE DEF t
<1>8. Cardinality(Later(t, S)) < k
  <2> SUFFICES ASSUME ~(Cardinality(Later(t, S)) < k) PROVE FALSE
    OBVIOUS
  <2> DEFINE L == Later(t, S)
             u == Min(Dates(L))
  <2>1. L \subseteq S /\ IsFiniteSet(L) /\ DatesAreInt(L) /\ Cardinality(L) \in Nat
    BY DatesFinite DEF Later, DatesAreInt
  <2>2. Cardinality(L) >= k /\ L # {}
    BY <2>1, FS_EmptySet
  <2>3. Dates(L) \in SUBSET Int /\ IsFiniteSet(Dates(L)) /\ Dates(L) # {}
    <3> HIDE DEF L
    <3> QED
      BY <2>1, <2>2, DatesFinite
  <2>4. u \in Dates(L) /\ \A d \in Dates(L) : u <= d
    <3> HIDE DEF L
    <3> QED
      BY <2>3, MinIsFirst
  <2> HIDE DEF u
  <2>5. u \in Int /\ u > t /\ u \in Dates(S)
    <3>1. \A e \in L : e.date > t /\ e.date \in Int /\ e.date \in Dates(S)
      BY DEF Later, Dates, DatesAreInt
    <3>2. PICK e \in L : u = e.date
      BY <2>4 DEF Dates
    <3> QED
      BY <3>1, <3>2
  <2>6. NotBefore(u, S) = L
    <3>1. \A e \in S : e.date > t => e.date \in Dates(L)
      BY DEF Later, Dates
    <3>2. \A e \in S : e.date > t => e.date >= u
      BY <2>3, <2>4, <2>5, <3>1
    <3>3. \A e \in S : e.date >= u => e.date > t
      BY <1>7, <2>5 DEF DatesAreInt
    <3> QED
      BY <3>2, <3>3 DEF NotBefore, Later
  <2>7. u \in G
    BY <2>2, <2>5, <2>6
  <2> QED
    BY <1>6, <1>7, <2>5, <2>7
<1> QED
  BY <1>7, <1>8 DEF IsNth

(* The first is the newest date ...                                        *)
LEMMA FirstIsNewest ==
  ASSUME NEW S, IsFiniteSet(S), DatesAreInt(S), NEW e \in S, \A d \in S : e.date >= d.date
  PROVE  IsNth(e.date, S, 1)
<1>1. Later(e.date, S) = {}
  BY DEF Later, DatesAreInt
<1>2. e \in NotBefore(e.date, S)
  BY DEF NotBefore, DatesAreInt
<1>3. Cardinality(NotBefore(e.date, S)) # 0
  BY <1>2, DatesFinite, FS_EmptySet
<1>4. Cardinality(NotBefore(e.date, S)) \in Nat
  BY DatesFinite
<1> QED
  BY <1>1, <1>3, <1>4, FS_EmptySet DEF IsNth, Dates

(* ... and the last of the latest entries has the date that is, of all     *)
(* entries, the one with their number.                                     *)
LEMMA LastOfLatest ==
  ASSUME NEW S, IsFiniteSet(S), DatesAreInt(S), NEW T \in SUBSET S, T # {},
         \A e \in T, d \in S \ T : e.date >= d.date
  PROVE  IsNth(Min(Dates(T)), S, Cardinality(T))
<1> DEFINE m == Min(Dates(T))
<1>1. IsFiniteSet(T) /\ DatesAreInt(T) /\ Cardinality(T) \in Nat
  BY FS_Subset, FS_CardinalityType DEF DatesAreInt
<1>2. m \in Dates(T) /\ m \in Int /\ \A d \in Dates(T) : m <= d
  BY <1>1, DatesFinite, MinIsFirst
<1> HIDE DEF m
<1>3. PICK e \in T : m = e.date
  BY <1>2 DEF Dates
<1>4. \A d \in T : d.date >= m
  BY <1>1, <1>2 DEF Dates, DatesAreInt
<1>5. Cardinality(NotBefore(m, S)) >= Cardinality(T)
  <2>1. T \in SUBSET NotBefore(m, S)
    BY <1>4 DEF NotBefore
  <2> QED
    BY <1>1, <2>1, DatesFinite, FS_Subset
<1>6. Cardinality(Later(m, S)) < Cardinality(T)
  <2>1. Later(m, S) \in SUBSET T
    BY <1>3 DEF Later, DatesAreInt
  <2>2. e \notin Later(m, S)
    BY <1>2, <1>3 DEF Later
  <2>3. Cardinality(Later(m, S)) <= Cardinality(T) /\ Cardinality(Later(m, S)) # Cardinality(T)
    BY <1>1, <2>1, <2>2, FS_Subset
  <2> QED
    BY <1>1, <2>3, DatesFinite
<1> QED
  BY <1>3, <1>5, <1>6 DEF IsNth, Dates, m

(* What lies between the first and the last of the latest is the sum of    *)
(* the gaps.                                                               *)
LEMMA GapsAddUp ==
  ASSUME NEW S, IsFiniteSet(S), DatesAreInt(S), NEW n \in Nat,
         Cardinality(Latest(S)) = n + 1, Cardinality(S) >= 2
  PROVE  SumFunction([k \in 1 .. n |-> NthDate(S, k) - NthDate(S, k + 1)])
           = Max(Dates(Latest(S))) - Min(Dates(Latest(S)))
<1> DEFINE T == Latest(S)
           h == [k \in 1 .. n + 1 |-> NthDate(S, k)]
<1>1. T \in SUBSET S /\ \A e \in T, d \in S \ T : e.date >= d.date
  BY LatestExists DEF IsLatest
<1>2. IsFiniteSet(T) /\ T # {} /\ DatesAreInt(T)
  <2>1. IsFiniteSet(T)
    BY <1>1, FS_Subset
  <2> QED
    BY <1>1, <2>1, FS_EmptySet DEF DatesAreInt
<1>3. Cardinality(S) \in Nat /\ n + 1 <= Cardinality(S)
  <2>1. Cardinality(T) <= Cardinality(S)
    BY <1>1, FS_Subset
  <2> QED
    BY <2>1, FS_CardinalityType
<1> HIDE DEF T
<1>4. h \in [1 .. n + 1 -> Int]
  <2>1. ASSUME NEW k \in 1 .. n + 1 PROVE NthDate(S, k) \in Int
    <3>1. PICK t \in Int : IsNth(t, S, k)
      BY <1>3, NthExists
    <3> QED
      BY <3>1, NthDateIs
  <2> QED
    BY <2>1
<1>5. NthDate(S, 1) = Max(Dates(T))
  <2>1. PICK e \in T : \A d \in T : e.date >= d.date
    BY <1>2, NewestExists
  <2>2. \A d \in S : e.date >= d.date
    BY <1>1, <2>1
  <2>3. NthDate(S, 1) = e.date
    BY <1>1, <2>2, FirstIsNewest, NthDateIs
  <2>4. Max(Dates(T)) \in Dates(T) /\ \A x \in Dates(T) : x <= Max(Dates(T))
    BY <1>2, DatesFinite, MaxIsLast
  <2>5. Max(Dates(T)) = e.date
    <3>1. e.date \in Dates(T) /\ \A x \in Dates(T) : e.date >= x
      BY <2>1 DEF Dates
    <3>2. Dates(T) \in SUBSET Int
      BY <1>2, DatesFinite
    <3> QED
      BY <2>4, <3>1, <3>2
  <2> QED
    BY <2>3, <2>5
<1>6. NthDate(S, n + 1) = Min(Dates(T))
  <2>1. IsNth(Min(Dates(T)), S, n + 1)
    BY <1>1, <1>2, LastOfLatest DEF T
  <2> QED
    BY <2>1, NthDateIs
<1>7. SumFunction([k \in 1 .. n |-> h[k] - h[k + 1]]) = h[1] - h[n + 1]
  <2> HIDE DEF h
  <2> QED
    BY <1>4, SumOfGaps
<1>8. \A k \in 1 .. n : h[k] = NthDate(S, k) /\ h[k + 1] = NthDate(S, k + 1)
  OBVIOUS
<1>9. [k \in 1 .. n |-> h[k] - h[k + 1]]
        = [k \in 1 .. n |-> NthDate(S, k) - NthDate(S, k + 1)]
  <2> HIDE DEF h
  <2> QED
    BY <1>8
<1>10. h[1] = NthDate(S, 1) /\ h[n + 1] = NthDate(S, n + 1)
  OBVIOUS
<1> QED
  BY <1>5, <1>6, <1>7, <1>9, <1>10 DEF T

(* There are finitely many entries in all.                                 *)
LEMMA EntryFinite == IsFiniteSet(Entry)
<1> DEFINE P == Item \X (Time \X {"stored", "document"})
           f == [e \in Entry |-> <<e.item, <<e.date, e.from>>>>]
<1>1. IsFiniteSet({"stored", "document"})
  <2>1. IsFiniteSet({"stored"} \cup {"document"})
    BY FS_Singleton, FS_AddElement
  <2>2. {"stored", "document"} = {"stored"} \cup {"document"}
    OBVIOUS
  <2> QED
    BY <2>1, <2>2
<1>2. IsFiniteSet(Item) /\ IsFiniteSet(Time)
  BY AdaptiveAssumption, FS_Interval DEF Time
<1>3. IsFiniteSet(P)
  BY <1>1, <1>2, FS_Product
<1>4. f \in Injection(Entry, P)
  <2>1. f \in [Entry -> P]
    BY DEF Entry
  <2>2. \A e \in Entry : e = [item |-> e.item, date |-> e.date, from |-> e.from]
    BY DEF Entry
  <2>3. ASSUME NEW d \in Entry, NEW e \in Entry, f[d] = f[e]
        PROVE  d = e
    <3>1. d.item = e.item /\ d.date = e.date /\ d.from = e.from
      BY <2>3
    <3> QED
      BY <2>2, <3>1, Zenon
  <2> HIDE DEF f, P
  <2> QED
    BY <2>1, <2>3 DEF Injection, IsInjective
<1> HIDE DEF f, P
<1> QED
  BY <1>3, <1>4, FS_Injection

(* MeanOfGaps: the code's short cut, the time from the first to the last   *)
(* of the latest dates over their number less one, is the mean of the gaps *)
(* between them, whatever dates are equal (scheduler.go:59-83).            *)
THEOREM IntervalIsMean == IntervalSpec => []MeanOfGaps
<1>1. ASSUME IntervalTypeOK PROVE MeanOfGaps
  <2> DEFINE count == Min({Cardinality(basis), LastItems})
             n == count - 1
             sum == SumFunction([k \in 1 .. count - 1 |->
                                   NthDate(basis, k) - NthDate(basis, k + 1)])
  <2> SUFFICES ASSUME count >= 2
               PROVE  CalculateAdaptiveInterval(basis) = Clamp(sum \div (count - 1))
    BY DEF MeanOfGaps
  <2>1. basis \in SUBSET Entry /\ IsFiniteSet(basis) /\ DatesAreInt(basis)
    BY <1>1, EntryFinite, EntriesDated, FS_Subset DEF IntervalTypeOK
  <2>2. Cardinality(basis) \in Nat /\ LastItems \in Nat
    BY <2>1, AdaptiveAssumption, FS_CardinalityType
  <2>3. count = (IF Cardinality(basis) <= LastItems THEN Cardinality(basis) ELSE LastItems)
    BY <2>2, MinOfTwo
  <2>4. Cardinality(Latest(basis)) = count
    BY <2>1, LatestExists DEF IsLatest
  <2> HIDE DEF count
  <2>5. n \in Nat /\ count = n + 1 /\ Cardinality(basis) >= 2
    BY <2>2, <2>3
  <2>6. sum = Max(Dates(Latest(basis))) - Min(Dates(Latest(basis)))
    BY <2>1, <2>4, <2>5, GapsAddUp
  <2> HIDE DEF sum
  <2>7. ~(Cardinality(basis) < 2)
    BY <2>2, <2>5
  <2> QED
    BY <2>4, <2>6, <2>7 DEF CalculateAdaptiveInterval
<1> QED
  BY <1>1, IntervalTypeCorrect, PTL

-----------------------------------------------------------------------------
(* Days and windows.                                                       *)

(* A day and a minute of that day stand for an instant, uniquely.          *)
LEMMA DayAndMinute ==
  ASSUME NEW x \in Int
  PROVE  /\ x \div Day \in Int
         /\ x % Day \in 0 .. Day - 1
         /\ x = (x \div Day) * Day + (x % Day)
  BY DEF Day

(* An instant of the two days that begin with day c.                       *)
LEMMA OneOfTwoDays ==
  ASSUME NEW c \in Int, NEW y \in Int, c * Day <= y, y < c * Day + 2 * Day
  PROVE  c \in {y \div Day, y \div Day - 1}
  BY DayAndMinute DEF Day

(* The weekday before, computed without a negative number.                 *)
LEMMA DayBefore ==
  ASSUME NEW d \in Int
  PROVE  ((d % 7) + 6) % 7 = (d - 1) % 7
  OBVIOUS

Valid(w) == w \in WindowRecord /\ (w.start = w.end => w.start = 0)

(* The three kinds of windows: all day, within a day, overnight.           *)
LEMMA Kinds ==
  ASSUME NEW w, Valid(w)
  PROVE  /\ w.start \in 0 .. Day - 1 /\ w.end \in 0 .. Day /\ w.ahead \in Int
         /\ Length(w) \in 1 .. Day
         /\ \/ AllDay(w) /\ ~Overnight(w) /\ w.start = 0 /\ Length(w) = Day
            \/ /\ ~AllDay(w) /\ ~Overnight(w) /\ w.start < w.end
               /\ Length(w) = w.end - w.start
            \/ /\ ~AllDay(w) /\ Overnight(w) /\ w.start > w.end
               /\ Length(w) = Day - w.start + w.end
<1> DEFINE s == w.start
           e == w.end
           n == Length(w)
<1>1. s \in 0 .. Day - 1 /\ e \in 0 .. Day /\ w.ahead \in Int
  BY DEF Valid, WindowRecord
<1>2. AllDay(w) => s = 0 /\ n = Day
  BY DEF AllDay, Length
<1>3. ~AllDay(w) => /\ s < e => n = e - s
                    /\ ~(s < e) => n = Day - s + e
  BY DEF Length
<1>4. Overnight(w) <=> ~AllDay(w) /\ s > e
  BY DEF Overnight
<1>5. s = e => AllDay(w)
  BY DEF Valid, AllDay
<1> HIDE DEF s, e, n
<1>6. \/ AllDay(w) /\ ~Overnight(w) /\ s = 0 /\ n = Day
      \/ ~AllDay(w) /\ ~Overnight(w) /\ s < e /\ n = e - s
      \/ ~AllDay(w) /\ Overnight(w) /\ s > e /\ n = Day - s + e
  BY <1>1, <1>2, <1>3, <1>4, <1>5 DEF Day
<1>7. n \in 1 .. Day
  <2>1. CASE n = Day
    BY <2>1 DEF Day
  <2>2. CASE s < e /\ n = e - s
    BY <1>1, <2>2 DEF Day
  <2>3. CASE s > e /\ n = Day - s + e
    BY <1>1, <2>3 DEF Day
  <2> QED
    BY <1>6, <2>1, <2>2, <2>3
<1> QED
  BY <1>1, <1>6, <1>7 DEF s, e, n

(* IsTimeInIgnoreWindow is right: its cases say that the day of t, or the  *)
(* one before it, has a window that covers t.                              *)
LEMMA IgnoredIsCovered ==
  ASSUME NEW t \in Int, NEW w, Valid(w)
  PROVE  /\ BeganToday(t, w) <=> Covers(t, w, (t + w.ahead) \div Day)
         /\ BeganYesterday(t, w) <=> Covers(t, w, (t + w.ahead) \div Day - 1)
<1> DEFINE x == t + w.ahead
           d == x \div Day
           m == x % Day
           s == w.start
           e == w.end
           n == Length(w)
<1>1. s \in 0 .. Day - 1 /\ e \in 0 .. Day /\ x \in Int
  BY Kinds
<1>2. d \in Int /\ m \in 0 .. Day - 1 /\ x = d * Day + m
  BY <1>1, DayAndMinute
<1>3. /\ BeganToday(t, w) <=> /\ d % 7 \in w.days
                              /\ \/ AllDay(w)
                                 \/ s <= m /\ m < e
                                 \/ Overnight(w) /\ s <= m
      /\ BeganYesterday(t, w) <=> /\ Overnight(w)
                                  /\ ((d % 7) + 6) % 7 \in w.days
                                  /\ m < e
  BY DEF BeganToday, BeganYesterday, Weekday, MinuteOfDay
<1>4. \A c : Covers(t, w, c) <=> /\ c % 7 \in w.days
                                 /\ c * Day + s <= x
                                 /\ x < c * Day + s + n
  BY DEF Covers
<1>5. \/ AllDay(w) /\ ~Overnight(w) /\ s = 0 /\ n = Day
      \/ ~AllDay(w) /\ ~Overnight(w) /\ s < e /\ n = e - s
      \/ ~AllDay(w) /\ Overnight(w) /\ s > e /\ n = Day - s + e
  BY Kinds
<1> HIDE DEF x, d, m, s, e, n
<1>6. ((d % 7) + 6) % 7 = (d - 1) % 7
  BY <1>2, DayBefore
<1>7. n \in Int
  BY <1>1, <1>5 DEF Day
<1>8. BeganToday(t, w) <=> Covers(t, w, d)
  <2>1. d * Day + s <= x <=> s <= m
    BY <1>1, <1>2 DEF Day
  <2>2. x < d * Day + s + n <=> m < s + n
    BY <1>1, <1>2, <1>7 DEF Day
  <2>3. (s <= m /\ m < s + n) <=> \/ AllDay(w)
                                  \/ s <= m /\ m < e
                                  \/ Overnight(w) /\ s <= m
    <3>1. CASE AllDay(w) /\ ~Overnight(w) /\ s = 0 /\ n = Day
      <4>1. s <= m /\ m < s + n
        BY <1>2, <3>1 DEF Day
      <4> QED
        BY <3>1, <4>1
    <3>2. CASE ~AllDay(w) /\ ~Overnight(w) /\ s < e /\ n = e - s
      <4>1. m < s + n <=> m < e
        BY <1>1, <1>2, <3>2 DEF Day
      <4> QED
        BY <3>2, <4>1
    <3>3. CASE ~AllDay(w) /\ Overnight(w) /\ s > e /\ n = Day - s + e
      <4>1. m < s + n /\ ~(s <= m /\ m < e)
        BY <1>1, <1>2, <3>3 DEF Day
      <4> QED
        BY <3>3, <4>1
    <3> QED
      BY <1>5, <3>1, <3>2, <3>3
  <2> QED
    BY <1>3, <1>4, <2>1, <2>2, <2>3
<1>9. BeganYesterday(t, w) <=> Covers(t, w, d - 1)
  <2>1. (d - 1) * Day + s <= x
    BY <1>1, <1>2 DEF Day
  <2>2. x < (d - 1) * Day + s + n <=> m + Day < s + n
    BY <1>1, <1>2, <1>7 DEF Day
  <2>3. m + Day < s + n <=> Overnight(w) /\ m < e
    <3>1. CASE AllDay(w) /\ ~Overnight(w) /\ s = 0 /\ n = Day
      <4>1. ~(m + Day < s + n)
        BY <1>2, <3>1 DEF Day
      <4> QED
        BY <3>1, <4>1
    <3>2. CASE ~AllDay(w) /\ ~Overnight(w) /\ s < e /\ n = e - s
      <4>1. ~(m + Day < s + n)
        BY <1>1, <1>2, <3>2 DEF Day
      <4> QED
        BY <3>2, <4>1
    <3>3. CASE ~AllDay(w) /\ Overnight(w) /\ s > e /\ n = Day - s + e
      <4>1. m + Day < s + n <=> m < e
        BY <1>1, <1>2, <3>3 DEF Day
      <4> QED
        BY <3>3, <4>1
    <3> QED
      BY <1>5, <3>1, <3>2, <3>3
  <2> QED
    BY <1>3, <1>4, <1>6, <2>1, <2>2, <2>3
<1> QED
  BY <1>8, <1>9 DEF d, x

(* An instant within the span of any day is Covered: the two days that     *)
(* IsTimeInIgnoreWindow looks at are enough.                               *)
LEMMA CoversIsCovered ==
  ASSUME NEW t \in Int, NEW w, Valid(w), NEW c \in Int, Covers(t, w, c)
  PROVE  Covered(t, w)
<1> DEFINE x == t + w.ahead
           s == w.start
           n == Length(w)
<1>1. s \in 0 .. Day - 1 /\ n \in 1 .. Day /\ x \in Int
  BY Kinds
<1>2. c * Day + s <= x /\ x < c * Day + s + n
  BY DEF Covers
<1>3. c \in {x \div Day, x \div Day - 1}
  <2> HIDE DEF x, s, n
  <2>1. c * Day <= x
    BY <1>1, <1>2 DEF Day
  <2>2. s + n < 2 * Day /\ s + n \in Int
    BY <1>1 DEF Day
  <2>3. x < c * Day + 2 * Day
    BY <1>1, <1>2, <2>2 DEF Day
  <2> QED
    BY <1>1, <2>1, <2>3, OneOfTwoDays
<1> QED
  BY <1>3 DEF Covered

(* WindowEnd is the end of the span that covers t, whatever its kind.      *)
LEMMA EndOfSpan ==
  ASSUME NEW t \in Int, NEW w, Valid(w), Ignored(t, w)
  PROVE  \E c \in Int : /\ Covers(t, w, c)
                        /\ WindowEnd(t, w) + w.ahead = c * Day + w.start + Length(w)
                        /\ WindowEnd(t, w) \in Int
<1> DEFINE a == w.ahead
           x == t + a
           d == x \div Day
           m == x % Day
           s == w.start
           e == w.end
           n == Length(w)
           f == WindowEnd(t, w)
<1>1. s \in 0 .. Day - 1 /\ e \in 0 .. Day /\ x \in Int /\ a \in Int
  BY Kinds
<1>2. d \in Int /\ m \in 0 .. Day - 1 /\ x = d * Day + m
  BY <1>1, DayAndMinute
<1>3. Midnight(t, w) = t - m
  BY DEF Midnight, MinuteOfDay
<1>4. CASE BeganToday(t, w)
  <2>1. Covers(t, w, d)
    BY <1>4, IgnoredIsCovered
  <2>2. CASE AllDay(w)
    <3>1. f = t - m + Day /\ s = 0 /\ n = Day
      BY <1>3, <1>4, <2>2, Kinds DEF WindowEnd
    <3> HIDE DEF a, x, d, m, s, e, n, f
    <3>2. f + a = d * Day + s + n /\ f \in Int
      BY <1>1, <1>2, <3>1 DEF x, Day
    <3> QED
      BY <1>2, <2>1, <3>2 DEF a, s, n, f
  <2>3. CASE ~AllDay(w) /\ ~Overnight(w)
    <3>1. f = t - m + e /\ n = e - s
      BY <1>3, <2>3, Kinds DEF WindowEnd
    <3> HIDE DEF a, x, d, m, s, e, n, f
    <3>2. f + a = d * Day + s + n /\ f \in Int
      BY <1>1, <1>2, <3>1 DEF x, Day
    <3> QED
      BY <1>2, <2>1, <3>2 DEF a, s, n, f
  <2>4. CASE ~AllDay(w) /\ Overnight(w)
    <3>1. f = t - m + Day + e /\ n = Day - s + e
      BY <1>3, <1>4, <2>4, Kinds DEF WindowEnd
    <3> HIDE DEF a, x, d, m, s, e, n, f
    <3>2. f + a = d * Day + s + n /\ f \in Int
      BY <1>1, <1>2, <3>1 DEF x, Day
    <3> QED
      BY <1>2, <2>1, <3>2 DEF a, s, n, f
  <2> QED
    BY <2>2, <2>3, <2>4
<1>5. CASE ~BeganToday(t, w)
  <2>1. BeganYesterday(t, w) /\ Overnight(w)
    BY <1>5 DEF Ignored, BeganYesterday
  <2>2. Covers(t, w, d - 1)
    BY <2>1, IgnoredIsCovered
  <2>3. f = t - m + e /\ n = Day - s + e
    BY <1>3, <1>5, <2>1, Kinds DEF WindowEnd
  <2> HIDE DEF a, x, d, m, s, e, n, f
  <2>4. f + a = (d - 1) * Day + s + n /\ f \in Int /\ d - 1 \in Int
    BY <1>1, <1>2, <2>3 DEF x, Day
  <2> QED
    BY <2>2, <2>4 DEF a, s, n, f
<1> QED
  BY <1>4, <1>5
(* An ignored instant and all that follow it up to WindowEnd are Covered.  *)
LEMMA EndCovers ==
  ASSUME NEW t \in Int, NEW w, Valid(w), Ignored(t, w)
  PROVE  /\ WindowEnd(t, w) \in Int /\ WindowEnd(t, w) > t
         /\ \A u \in t .. WindowEnd(t, w) - 1 : Covered(u, w)
<1>1. PICK c \in Int :
         /\ Covers(t, w, c)
         /\ WindowEnd(t, w) + w.ahead = c * Day + w.start + Length(w)
         /\ WindowEnd(t, w) \in Int
  BY EndOfSpan
<1> DEFINE a == w.ahead
           s == w.start
           b == c * Day + s
           n == Length(w)
           f == WindowEnd(t, w)
<1>2. a \in Int /\ b \in Int /\ n \in Int /\ f \in Int
  <2>1. s \in 0 .. Day - 1 /\ a \in Int /\ n \in 1 .. Day
    BY Kinds
  <2>2. n \in Int
    BY <2>1 DEF Day
  <2>3. b \in Int
    <3> HIDE DEF s
    <3> QED
      BY <2>1 DEF Day
  <2> QED
    BY <1>1, <2>1, <2>2, <2>3
<1>3. c % 7 \in w.days /\ b <= t + a /\ t + a < b + n /\ f + a = b + n
  BY <1>1 DEF Covers
<1>4. f > t
  <2> HIDE DEF a, b, n, f
  <2> QED
    BY <1>2, <1>3
<1>5. ASSUME NEW u \in t .. f - 1
      PROVE  Covered(u, w)
  <2>1. u \in Int /\ b <= u + a /\ u + a < b + n
    <3> HIDE DEF a, b, n, f
    <3> QED
      BY <1>2, <1>3
  <2>2. Covers(u, w, c)
    BY <1>3, <2>1 DEF Covers
  <2> QED
    BY <2>1, <2>2, CoversIsCovered
<1> QED
  BY <1>2, <1>4, <1>5

-----------------------------------------------------------------------------

(* The variables keep their types: current stays an instant, the passes    *)
(* stay below the limit.                                                   *)
THEOREM TypeCorrect == Spec => []TypeOK
<1>1. Init => TypeOK
  <2> SUFFICES ASSUME Init
               PROVE  TypeOK
    OBVIOUS
  <2>1. asked \in Instant /\ current \in Int /\ windows \subseteq Window
    BY LoopAssumption DEF Init
  <2>2. passes \in 0 .. MaxIterations
    <3>1. passes = 0
      BY DEF Init
    <3> QED
      BY <3>1, LoopAssumption
  <2>3. done \in BOOLEAN
    BY DEF Init
  <2> QED
    BY <2>1, <2>2, <2>3 DEF TypeOK
<1>2. TypeOK /\ [Next]_vars => TypeOK'
  <2> SUFFICES ASSUME TypeOK, [Next]_vars
               PROVE  TypeOK'
    OBVIOUS
  <2> USE LoopAssumption
  <2>1. CASE Advance
    <3>1. PICK w \in Active(current) : current' = WindowEnd(current, w)
      BY <2>1 DEF Advance
    <3>2. Valid(w) /\ Ignored(current, w)
      BY WindowAssumption DEF Active, TypeOK, Valid
    <3>3. current' \in Int
      BY <3>1, <3>2, EndCovers DEF TypeOK
    <3>4. passes' \in 0 .. MaxIterations
      BY <2>1 DEF Advance, TypeOK
    <3> QED
      BY <2>1, <3>3, <3>4 DEF Advance, TypeOK
  <2>2. CASE Leave
    BY <2>2 DEF Leave, TypeOK
  <2>3. CASE Exhausted
    BY <2>3 DEF Exhausted, TypeOK
  <2>4. CASE UNCHANGED vars
    BY <2>4 DEF vars, TypeOK
  <2> QED
    BY <2>1, <2>2, <2>3, <2>4 DEF Next
<1> QED
  BY <1>1, <1>2, PTL DEF Spec

(* The end of every active window is later than current, so that the check *)
(* at ignore_window.go:188 never stops the loop.                           *)
THEOREM EndsAreLater == Spec => []EndIsLater
<1>1. TypeOK => EndIsLater
  <2> SUFFICES ASSUME TypeOK, NEW w \in Active(current)
               PROVE  WindowEnd(current, w) > current
    BY DEF EndIsLater
  <2>1. Valid(w) /\ Ignored(current, w)
    BY WindowAssumption DEF Active, TypeOK, Valid
  <2> QED
    BY <2>1, EndCovers DEF TypeOK
<1> QED
  BY <1>1, TypeCorrect, PTL

(* A fetch is only put off through instants that some window covers.       *)
THEOREM SkipsCoveredOnly == Spec => []OnlyCoveredSkipped
<1>1. Init => OnlyCoveredSkipped
  BY LoopAssumption DEF Init, OnlyCoveredSkipped
<1>2. TypeOK /\ OnlyCoveredSkipped /\ [Next]_vars => OnlyCoveredSkipped'
  <2> SUFFICES ASSUME TypeOK, OnlyCoveredSkipped, [Next]_vars
               PROVE  OnlyCoveredSkipped'
    OBVIOUS
  <2>1. CASE Advance
    <3>1. PICK w \in Active(current) : current' = WindowEnd(current, w)
      BY <2>1 DEF Advance
    <3>2. Valid(w) /\ Ignored(current, w) /\ w \in windows
      BY WindowAssumption DEF Active, TypeOK, Valid
    <3>3. current' \in Int /\ current' > current
      BY <3>1, <3>2, EndCovers DEF TypeOK
    <3>4. \A t \in current .. current' - 1 : Covered(t, w)
      BY <3>1, <3>2, EndCovers DEF TypeOK
    <3>5. asked \in Int /\ current \in Int /\ asked <= current
      BY LoopAssumption DEF TypeOK, OnlyCoveredSkipped
    <3>6. asked' = asked /\ windows' = windows
      BY <2>1 DEF Advance
    <3> DEFINE next == current'
    <3> HIDE DEF next
    <3>7. ASSUME NEW t \in asked .. next - 1
          PROVE  \E v \in windows : Covered(t, v)
      <4>1. CASE t < current
        <5>1. next \in Int
          BY <3>3 DEF next
        <5>2. t \in asked .. current - 1
          BY <3>5, <4>1, <5>1
        <5> QED
          BY <5>2 DEF OnlyCoveredSkipped, CoveredNow
      <4>2. CASE ~(t < current)
        <5>1. next \in Int /\ next > current
          BY <3>3 DEF next
        <5>2. t \in current .. next - 1
          BY <3>5, <4>2, <5>1
        <5> QED
          BY <3>2, <3>4, <5>2 DEF next
      <4> QED
        BY <4>1, <4>2
    <3>8. asked <= current'
      BY <3>3, <3>5
    <3> QED
      BY <3>6, <3>7, <3>8 DEF OnlyCoveredSkipped, CoveredNow, next
  <2>2. CASE UNCHANGED <<asked, windows, current>>
    BY <2>2 DEF OnlyCoveredSkipped, CoveredNow
  <2> QED
    BY <2>1, <2>2 DEF Next, Leave, Exhausted, vars
<1> QED
  BY <1>1, <1>2, TypeCorrect, PTL DEF Spec

(* Where the loop leaves before its limit no window covers the instant:    *)
(* with SkipsCoveredOnly, it is the first free one.                        *)
THEOREM LeavesFree == Spec => []LeavesAtFreeInstant
<1>1. Init => LeavesAtFreeInstant
  BY DEF Init, LeavesAtFreeInstant
<1>2. TypeOK /\ LeavesAtFreeInstant /\ [Next]_vars => LeavesAtFreeInstant'
  <2> SUFFICES ASSUME TypeOK, LeavesAtFreeInstant, [Next]_vars
               PROVE  LeavesAtFreeInstant'
    OBVIOUS
  <2>1. CASE Advance
    BY <2>1 DEF Advance, LeavesAtFreeInstant
  <2>2. CASE Leave
    <3>1. ASSUME NEW w \in windows
          PROVE  ~Covered(current, w)
      <4>1. Valid(w) /\ ~Ignored(current, w)
        BY <2>2, WindowAssumption DEF Leave, Active, TypeOK, Valid
      <4> QED
        BY <4>1, IgnoredIsCovered DEF Ignored, Covered, TypeOK
    <3> QED
      BY <2>2, <3>1 DEF Leave, LeavesAtFreeInstant, CoveredNow
  <2>3. CASE Exhausted
    BY <2>3, LoopAssumption DEF Exhausted, LeavesAtFreeInstant
  <2>4. CASE UNCHANGED vars
    BY <2>4 DEF vars, LeavesAtFreeInstant, CoveredNow
  <2> QED
    BY <2>1, <2>2, <2>3, <2>4 DEF Next
<1> QED
  BY <1>1, <1>2, TypeCorrect, PTL DEF Spec

-----------------------------------------------------------------------------
(* The limit of the loop: each pass ends where a span of a window ends,    *)
(* later than the passes before, and a window has one end a day.           *)

\* Few enough for the loop to pass all their ends of one week: 71, for 500.
FewWindows == IsFiniteSet(windows) /\ 7 * Cardinality(windows) <= MaxIterations

\* A span of w, of any day, ends at e.
IsEnd(e, w) == \E c \in Int : e + w.ahead = c * Day + w.start + Length(w)

\* The ends after the instant asked for, up to b.
Ends(b) == {e \in asked + 1 .. b : \E w \in windows : IsEnd(e, w)}

(* Two ends of a window that are on the same day, counted from any         *)
(* instant, are the same.                                                  *)
LEMMA OneEndADay ==
  ASSUME NEW w, Valid(w), NEW a \in Int, NEW e \in Int, NEW f \in Int,
         IsEnd(e, w), IsEnd(f, w), (e - a) \div Day = (f - a) \div Day
  PROVE  e = f
<1>1. w.ahead \in Int /\ w.start \in Int /\ Length(w) \in Int
  <2>1. w.start \in 0 .. Day - 1 /\ w.ahead \in Int /\ Length(w) \in 1 .. Day
    BY Kinds
  <2> DEFINE s == w.start
             n == Length(w)
  <2> HIDE DEF s, n
  <2>2. s \in 0 .. Day - 1 /\ n \in 1 .. Day => s \in Int /\ n \in Int
    BY DEF Day
  <2>3. QED
    BY <2>1, <2>2 DEF s, n
<1>2. PICK c \in Int : e + w.ahead = c * Day + w.start + Length(w)
  BY DEF IsEnd
<1>3. PICK d \in Int : f + w.ahead = d * Day + w.start + Length(w)
  BY DEF IsEnd
<1> DEFINE z == w.ahead
           s == w.start
           n == Length(w)
           k == (e - a) \div Day
           r == (e - a) % Day
           q == (f - a) % Day
<1>4. /\ k \in Int /\ r \in 0 .. Day - 1 /\ q \in 0 .. Day - 1
      /\ e - a = k * Day + r /\ f - a = k * Day + q
  BY DayAndMinute
<1>5. z \in Int /\ s \in Int /\ n \in Int /\ e + z = c * Day + s + n /\ f + z = d * Day + s + n
  BY <1>1, <1>2, <1>3
<1> HIDE DEF z, s, n, k, r, q
<1>6. e - f = r - q /\ e - f = c * Day - d * Day
  BY <1>4, <1>5 DEF Day
<1>7. c = d
  BY <1>4, <1>6 DEF Day
<1>8. QED
  BY <1>6, <1>7 DEF Day

(* In a week a window has at most seven.                                   *)
LEMMA EndsOfAWeek ==
  ASSUME TypeOK, FewWindows, NEW b \in Int, b <= asked + 7 * Day
  PROVE  IsFiniteSet(Ends(b)) /\ Cardinality(Ends(b)) <= MaxIterations
<1>1. asked \in Int /\ MaxIterations \in Nat
  BY LoopAssumption DEF TypeOK
<1>2. \A w \in windows : Valid(w)
  BY WindowAssumption DEF TypeOK, Valid
<1> DEFINE Of(e) == CHOOSE w \in windows : IsEnd(e, w)
           On(e) == (e - (asked + 1)) \div Day
           f == [e \in Ends(b) |-> <<Of(e), On(e)>>]
<1>3. ASSUME NEW e \in Ends(b)
      PROVE  e \in Int /\ Of(e) \in windows /\ IsEnd(e, Of(e)) /\ On(e) \in 0 .. 6
  <2>1. e \in asked + 1 .. b /\ \E w \in windows : IsEnd(e, w)
    BY DEF Ends
  <2>2. Of(e) \in windows /\ IsEnd(e, Of(e))
    BY <2>1
  <2> HIDE DEF Of
  <2>3. e \in Int /\ 0 <= e - (asked + 1) /\ e - (asked + 1) < 7 * Day
    BY <1>1, <2>1 DEF Day
  <2>4. On(e) \in 0 .. 6
    BY <1>1, <2>3 DEF Day
  <2>5. QED
    BY <2>2, <2>3, <2>4
<1>4. ASSUME NEW e \in Ends(b), NEW g \in Ends(b), Of(e) = Of(g), On(e) = On(g)
      PROVE  e = g
  <2>1. /\ Valid(Of(e)) /\ IsEnd(e, Of(e)) /\ IsEnd(g, Of(e))
        /\ e \in Int /\ g \in Int /\ asked + 1 \in Int
    BY <1>1, <1>2, <1>3, <1>4
  <2> HIDE DEF Of
  <2>2. QED
    BY <1>4, <2>1, OneEndADay
<1> HIDE DEF Of, On
<1>5. f \in Injection(Ends(b), windows \X (0 .. 6))
  BY <1>3, <1>4 DEF Injection, IsInjective
<1>6. /\ IsFiniteSet(windows \X (0 .. 6))
      /\ Cardinality(windows \X (0 .. 6)) = Cardinality(windows) * 7
  <2>1. \A n \in Nat : IsFiniteSet(0 .. n) /\ Cardinality(0 .. n) = n + 1
    BY FS_Interval
  <2>2. IsFiniteSet(0 .. 6) /\ Cardinality(0 .. 6) = 6 + 1
    <3>1. 6 \in Nat
      OBVIOUS
    <3>2. QED
      BY <2>1, <3>1, Zenon
  <2>3. QED
    BY <2>2, FS_Product DEF FewWindows
<1> HIDE DEF f
<1>7. IsFiniteSet(Ends(b)) /\ Cardinality(Ends(b)) <= Cardinality(windows) * 7
  BY <1>5, <1>6, FS_Injection
<1>8. Cardinality(windows) \in Nat /\ Cardinality(Ends(b)) \in Nat
  BY <1>7, FS_CardinalityType DEF FewWindows
<1>9. QED
  BY <1>1, <1>7, <1>8 DEF FewWindows

(* The end of an active window is one more.                                *)
LEMMA OneMoreEnd ==
  ASSUME TypeOK, OnlyCoveredSkipped, NEW w \in Active(current)
  PROVE  /\ IsFiniteSet(Ends(current)) /\ IsFiniteSet(Ends(WindowEnd(current, w)))
         /\ Cardinality(Ends(current)) + 1 <= Cardinality(Ends(WindowEnd(current, w)))
<1> DEFINE e == WindowEnd(current, w)
<1>1. asked \in Int /\ current \in Int /\ asked <= current
  BY LoopAssumption DEF TypeOK, OnlyCoveredSkipped
<1>2. Valid(w) /\ Ignored(current, w) /\ w \in windows
  BY WindowAssumption DEF Active, TypeOK, Valid
<1>3. e \in Int /\ e > current
  BY <1>1, <1>2, EndCovers
<1>4. IsEnd(e, w)
  BY <1>1, <1>2, EndOfSpan DEF IsEnd
<1> HIDE DEF e
<1>5. IsFiniteSet(Ends(current)) /\ IsFiniteSet(Ends(e))
  <2>1. IsFiniteSet(asked + 1 .. current) /\ IsFiniteSet(asked + 1 .. e)
    BY <1>1, <1>3, FS_Interval
  <2>2. Ends(current) \subseteq asked + 1 .. current /\ Ends(e) \subseteq asked + 1 .. e
    BY DEF Ends
  <2>3. QED
    BY <2>1, <2>2, FS_Subset
<1>6. Ends(current) \cup {e} \subseteq Ends(e) /\ e \notin Ends(current)
  BY <1>1, <1>2, <1>3, <1>4 DEF Ends
<1>7. Cardinality(Ends(current) \cup {e}) = Cardinality(Ends(current)) + 1
  BY <1>5, <1>6, FS_AddElement
<1>8. Cardinality(Ends(current) \cup {e}) <= Cardinality(Ends(e))
  BY <1>5, <1>6, FS_Subset
<1>9. QED
  BY <1>5, <1>7, <1>8 DEF e

PassInv ==
  /\ TypeOK /\ OnlyCoveredSkipped /\ FewWindows
  /\ passes <= Cardinality(Ends(current))

(* No more passes than ends.                                               *)
LEMMA PassesAreEnds == Spec /\ FewWindows => []PassInv
<1>1. Init /\ FewWindows /\ TypeOK /\ OnlyCoveredSkipped => PassInv
  <2> SUFFICES ASSUME Init, FewWindows, TypeOK, OnlyCoveredSkipped
               PROVE  passes <= Cardinality(Ends(current))
    BY DEF PassInv
  <2>1. passes = 0 /\ current = asked /\ asked \in Int
    BY LoopAssumption DEF Init
  <2>2. Ends(current) = {}
    BY <2>1 DEF Ends
  <2>3. QED
    BY <2>1, <2>2, FS_EmptySet
<1>2. PassInv /\ [Next]_vars /\ TypeOK' /\ OnlyCoveredSkipped' => PassInv'
  <2> SUFFICES ASSUME PassInv, [Next]_vars, TypeOK', OnlyCoveredSkipped'
               PROVE  FewWindows' /\ passes' <= Cardinality(Ends(current))'
    BY DEF PassInv
  <2>1. windows' = windows /\ asked' = asked
    BY DEF Next, Advance, Leave, Exhausted, vars
  <2>2. FewWindows'
    BY <2>1 DEF FewWindows, PassInv
  <2>3. CASE Advance
    <3>1. PICK w \in Active(current) : current' = WindowEnd(current, w)
      BY <2>3 DEF Advance
    <3>2. passes' = passes + 1
      BY <2>3 DEF Advance
    <3>3. Ends(current)' = Ends(WindowEnd(current, w))
      BY <2>1, <3>1 DEF Ends
    <3>4. /\ IsFiniteSet(Ends(current)) /\ IsFiniteSet(Ends(WindowEnd(current, w)))
          /\ Cardinality(Ends(current)) + 1 <= Cardinality(Ends(WindowEnd(current, w)))
      BY OneMoreEnd DEF PassInv
    <3>5. Cardinality(Ends(current)) \in Nat /\ Cardinality(Ends(WindowEnd(current, w))) \in Nat
      BY <3>4, FS_CardinalityType
    <3>6. passes \in Int /\ passes <= Cardinality(Ends(current))
      BY LoopAssumption DEF PassInv, TypeOK
    <3>7. passes + 1 <= Cardinality(Ends(WindowEnd(current, w)))
      BY <3>4, <3>5, <3>6
    <3>8. QED
      BY <2>2, <3>2, <3>3, <3>7
  <2>4. CASE UNCHANGED <<current, passes>>
    <3>1. Ends(current)' = Ends(current)
      BY <2>1, <2>4 DEF Ends
    <3>2. QED
      BY <2>2, <2>4, <3>1 DEF PassInv
  <2>5. QED
    BY <2>3, <2>4 DEF Next, Leave, Exhausted, vars
<1>3. QED
  BY <1>1, <1>2, TypeCorrect, SkipsCoveredOnly, PTL DEF Spec

(* FreeWhenWeekHasFree: with few enough windows, at most 71 of a feed and  *)
(* its tags, the limit is not what stops the loop before the free instant. *)
THEOREM LimitSuffices == Spec /\ FewWindows => []FreeWhenWeekHasFree
<1>1. PassInv /\ LeavesAtFreeInstant => FreeWhenWeekHasFree
  <2> SUFFICES ASSUME PassInv, LeavesAtFreeInstant, done,
                      NEW t \in asked .. asked + 7 * Day - 1, ~CoveredNow(t),
                      CoveredNow(current)
               PROVE  FALSE
    BY DEF FreeWhenWeekHasFree
  <2>1. asked \in Int /\ current \in Int /\ MaxIterations \in Nat /\ passes \in 0 .. MaxIterations
    BY LoopAssumption DEF PassInv, TypeOK
  <2>2. passes = MaxIterations
    BY <2>1 DEF LeavesAtFreeInstant
  <2>3. PICK w \in windows : Covered(current, w)
    BY DEF CoveredNow
  <2>4. Valid(w)
    BY WindowAssumption DEF PassInv, TypeOK, Valid
  <2>5. Ignored(current, w)
    BY <2>1, <2>3, <2>4, IgnoredIsCovered DEF Ignored, Covered
  <2> DEFINE e == WindowEnd(current, w)
  <2>6. e \in Int /\ \A u \in current .. e - 1 : Covered(u, w)
    BY <2>1, <2>4, <2>5, EndCovers
  <2> HIDE DEF e
  <2>7. t \notin asked .. current - 1 /\ t \notin current .. e - 1
    BY <2>3, <2>6 DEF PassInv, OnlyCoveredSkipped, CoveredNow
  <2>8. e <= asked + 7 * Day
    BY <2>1, <2>6, <2>7 DEF Day
  <2>9. Cardinality(Ends(e)) <= MaxIterations
    BY <2>6, <2>8, EndsOfAWeek DEF PassInv
  <2>10. w \in Active(current)
    BY <2>3, <2>5 DEF Active
  <2>11. /\ IsFiniteSet(Ends(current)) /\ IsFiniteSet(Ends(e))
         /\ Cardinality(Ends(current)) + 1 <= Cardinality(Ends(e))
    BY <2>10, OneMoreEnd DEF PassInv, e
  <2>12. Cardinality(Ends(current)) \in Nat /\ Cardinality(Ends(e)) \in Nat
    BY <2>11, FS_CardinalityType
  <2>13. QED
    BY <2>1, <2>2, <2>9, <2>11, <2>12 DEF PassInv
<1>2. QED
  BY <1>1, PassesAreEnds, LeavesFree, PTL

-----------------------------------------------------------------------------
(* The pages that manage the windows.  The argument has three parts: the   *)
(* two activity tests are equal for whole numbers; what users enter are    *)
(* whole numbers; and a query that differs from its table is told of it,   *)
(* or will be.                                                             *)

(* The inductive invariant.                                                *)

Timed(w) == w.start \in Int /\ w.end \in Int /\ w.ahead \in Int

FormField == {"open", "named", "allDay", "start", "end", "before", "days", "zone", "error"}
RequestField == {"phase", "id", "window", "add", "remove"}

FormTimed(form) ==
  /\ DOMAIN form = FormField
  /\ form.start \in Int /\ form.end \in Int /\ form.zone \in Int
  /\ form.before[1] \in Int /\ form.before[2] \in Int

TablesTimed ==
  /\ DOMAIN table = Id
  /\ \A id \in Id : Timed(table[id]) /\ Timed(cached.windows[id])

RequestsTimed ==
  /\ DOMAIN requests = Source
  /\ \A m \in Source : DOMAIN requests[m] = RequestField /\ Timed(requests[m].window)

\* The foreign keys.
LinksExist ==
  \A g \in Target, id \in Id : <<g, id>> \in attached => Exists(id, table)

\* A query that is to run again, or will be told to.
Untold(q) ==
  \/ q \in stale \/ q \in behind
  \/ \E m \in Source : requests[m].phase = "done" /\ q \in Told(m)

WindowsCopied == \A id \in Id : cached.windows[id] = table[id]
LinksCopied(g) == \A id \in Id : <<g, id>> \in cached.links <=> <<g, id>> \in attached

Copied ==
  /\ WindowsCopied \/ Untold("ignore-windows")
  /\ \A g \in Target : LinksCopied(g) \/ Untold(g)

PageInv ==
  /\ FormTimed(editor) /\ TablesTimed /\ RequestsTimed
  /\ LinksExist /\ Copied

-----------------------------------------------------------------------------
(* The two activity tests.                                                 *)

(* For whole numbers the browser's test is the scheduler's, whatever the   *)
(* kind of window (ignore-window-db.ts:200, ignore_window.go:21).          *)
THEOREM TestsAgree ==
  ASSUME NEW w, Timed(w), NEW t \in Int
  PROVE  IsIgnoreWindowActive(w, t) <=> Ignored(t, w)
<1> DEFINE n == t + w.ahead
           m == n % 1440
           d == n \div 1440
           s == w.start
           e == w.end
<1>1. m \in 0 .. 1439 /\ s \in Int /\ e \in Int /\ d \in Int
  <2>1. s \in Int /\ e \in Int /\ n \in Int
    BY DEF Timed
  <2> HIDE DEF n, s, e
  <2> QED
    BY <2>1
<1>2. MinuteOfDay(t, w) = m /\ LocalMinute(t, w) = m /\ Weekday(t, w) = d % 7
      /\ LocalWeekday(t, w) = d % 7
  BY DEF MinuteOfDay, LocalMinute, Weekday, LocalWeekday, Day
<1> DEFINE today == d % 7 \in w.days
           yesterday == ((d % 7) + 6) % 7 \in w.days
           whole == s = 0 /\ e \in {0, 1440}
<1>3. AllDay(w) <=> whole
  BY DEF AllDay, Day
<1>4. FormIsAllDay(w.start, w.end) <=> whole
  BY DEF FormIsAllDay, Day
<1>5. Overnight(w) <=> ~whole /\ s > e
  BY <1>3 DEF Overnight
<1>6. IsIgnoreWindowActive(w, t) <=>
        \/ today /\ whole
        \/ today /\ s < e /\ s <= m /\ m < e
        \/ s > e /\ ~whole /\ ((today /\ m >= s) \/ (yesterday /\ m < e))
  <2> HIDE DEF m, s, e, d, whole
  <2>1. m \in s .. e - 1 <=> s <= m /\ m < e
    BY <1>1
  <2> QED
    BY <1>2, <1>4, <2>1, Zenon DEF IsIgnoreWindowActive, s, e
<1>7. Ignored(t, w) <=>
        \/ today /\ (whole \/ (s <= m /\ m < e) \/ (~whole /\ s > e /\ s <= m))
        \/ ~whole /\ s > e /\ yesterday /\ m < e
  <2> HIDE DEF m, d, whole
  <2> QED
    BY <1>2, <1>3, <1>5, Zenon DEF Ignored, BeganToday, BeganYesterday
<1> HIDE DEF m, s, e, d, today, yesterday, whole
<1>8. (s <= m /\ m < e => s < e) /\ (m >= s <=> s <= m)
  BY <1>1
<1> QED
  BY <1>6, <1>7, <1>8, Zenon

-----------------------------------------------------------------------------
(* Initially.                                                              *)

(* A window that the handlers accept, and that of none, are timed.         *)
LEMMA WindowsTimed == Timed(None) /\ \A w \in Window : Timed(w)
<1>1. ASSUME NEW w \in WindowRecord PROVE Timed(w)
  <2>1. w.start \in 0 .. Day - 1 /\ w.end \in 0 .. Day /\ w.ahead \in Int
    BY DEF WindowRecord
  <2> QED
    BY <2>1 DEF Timed
<1> QED
  BY <1>1, WindowAssumption DEF None, Timed

(* What the form begins with: a new window, and a window of the table.     *)
LEMMA FilledTimed ==
  ASSUME TablesTimed, NEW id \in Windows \cup {Adding}
  PROVE  FormTimed(Filled(id)) /\ FormTimed(NewForm)
<1>1. Here \in Int
  BY PageAssumption DEF Here
<1>2. /\ FormTimed(NewForm)
      /\ FormTimed([NewForm EXCEPT !.open = id])
  BY <1>1 DEF FormTimed, NewForm, FormField
<1>3. ASSUME id # Adding PROVE FormTimed(Filled(id))
  <2>1. Timed(cached.windows[id])
    BY <1>3 DEF Windows, TablesTimed
  <2> DEFINE w == cached.windows[id]
             allDay == FormIsAllDay(w.start, w.end)
             before == IF allDay THEN <<1380, 420>> ELSE <<w.start, w.end>>
             form == [open |-> id, named |-> TRUE, allDay |-> allDay, start |-> w.start,
                      end |-> w.end, before |-> before, days |-> w.days,
                      zone |-> w.ahead, error |-> FALSE]
  <2>2. Filled(id) = form
    BY <1>3, Zenon DEF Filled
  <2>3. before[1] \in Int /\ before[2] \in Int
    BY <2>1 DEF Timed
  <2> HIDE DEF allDay, before
  <2>4. FormTimed(form)
    BY <2>1, <2>3 DEF FormTimed, FormField, Timed
  <2> QED
    BY <2>2, <2>4
<1>4. id = Adding => Filled(id) = [NewForm EXCEPT !.open = id]
  BY Zenon DEF Filled
<1> QED
  BY <1>2, <1>3, <1>4

(* The first window is there, what is attached is it, and the queries have *)
(* loaded.                                                                 *)
LEMMA PageInvInit == PageInit => PageInv
<1> SUFFICES ASSUME PageInit PROVE PageInv
  OBVIOUS
<1>1. PICK w \in Window : table = [id \in Id |-> IF id = 1 THEN w ELSE None]
  BY Zenon DEF PageInit
<1>2. cached.windows = table /\ cached.links = attached
  BY DEF PageInit
<1>3. TablesTimed
  BY <1>1, <1>2, WindowsTimed DEF TablesTimed
<1>4. FormTimed(editor)
  <2>1. editor = NewForm
    BY Zenon DEF PageInit
  <2> QED
    BY <1>3, <2>1, FilledTimed, Zenon
<1>5. RequestsTimed
  <2>1. requests = [m \in Source |-> Unasked]
    BY Zenon DEF PageInit
  <2>2. DOMAIN Unasked = RequestField /\ Unasked.window = None
    BY DEF Unasked, RequestField
  <2> QED
    BY <2>1, <2>2, WindowsTimed DEF RequestsTimed
<1>6. LinksExist
  <2>1. attached = {} \/ attached = {<<"tag", 1>>}
    BY Zenon DEF PageInit
  <2>2. 1 \in Id /\ None # w
    BY PageAssumption DEF Id
  <2> QED
    BY <1>1, <2>1, <2>2 DEF LinksExist, Exists
<1>7. Copied
  BY <1>2, Zenon DEF Copied, WindowsCopied, LinksCopied
<1> QED
  BY <1>3, <1>4, <1>5, <1>6, <1>7 DEF PageInv

-----------------------------------------------------------------------------
(* Steps on the pages.                                                     *)

data == <<table, attached, cached, stale, requests, behind>>

\* All of the invariant but the form.
DataInv == TablesTimed /\ RequestsTimed /\ LinksExist /\ Copied

(* What the invariant says of tables, queries and requests stays as long   *)
(* as those do.                                                            *)
LEMMA DataStays == DataInv /\ UNCHANGED data => DataInv'
<1> SUFFICES ASSUME DataInv, UNCHANGED data PROVE DataInv'
  OBVIOUS
<1>1. /\ table' = table /\ attached' = attached /\ cached' = cached
      /\ stale' = stale /\ requests' = requests /\ behind' = behind
  BY DEF data
<1>2. TablesTimed' /\ RequestsTimed' /\ LinksExist'
  BY <1>1 DEF DataInv, TablesTimed, RequestsTimed, LinksExist, Exists
<1>3. Copied'
  BY <1>1, Zenon DEF DataInv, Copied, WindowsCopied, LinksCopied, Untold, Told
<1> QED
  BY <1>2, <1>3 DEF DataInv

(* Whatever users do to the form, its times and zone are numbers.          *)
LEMMA FormStays ==
  ASSUME PageInv,
         \/ \E id \in Id \cup {Adding} : OpenEditor(id)
         \/ CloseEditor \/ EnterName \/ ClearName \/ PickDays \/ ToggleDay
         \/ ToggleAllDay \/ EnterTime \/ PickZone
  PROVE  PageInv'
<1>1. UNCHANGED data
  <2>1. ASSUME NEW form, Edit(form) PROVE UNCHANGED data
    BY <2>1, Zenon DEF Edit, data, database, queries
  <2>2. ClearName \/ ToggleAllDay => UNCHANGED data
    <3>1. ToggleAllDay => UNCHANGED data
      BY Zenon DEF ToggleAllDay, Edit, data, database, queries
    <3> QED
      BY <2>1, <3>1, Zenon DEF ClearName
  <2>3. PickDays \/ ToggleDay => UNCHANGED data
    BY <2>1, Zenon DEF PickDays, ToggleDay
  <2>4. EnterTime \/ PickZone => UNCHANGED data
    BY <2>1, Zenon DEF EnterTime, PickZone
  <2>5. \/ \E id \in Id \cup {Adding} : OpenEditor(id)
        \/ CloseEditor \/ EnterName
        => UNCHANGED data
    BY Zenon DEF OpenEditor, CloseEditor, EnterName, data, database, queries
  <2> QED
    BY <2>2, <2>3, <2>4, <2>5, Zenon
<1>2. FormTimed(editor)
  BY DEF PageInv
<1>3. FormTimed(editor')
  <2>1. ASSUME NEW id \in Id \cup {Adding}, OpenEditor(id) PROVE FormTimed(editor')
    <3>1. id \in Windows \cup {Adding} /\ editor' = Filled(id)
      BY <2>1, Zenon DEF OpenEditor
    <3> QED
      BY <3>1, FilledTimed, Zenon DEF PageInv
  <2>2. ASSUME NEW field \in {"open", "named", "allDay", "days", "error"}, NEW v,
               editor' = [editor EXCEPT ![field] = v]
        PROVE  FormTimed(editor')
    BY <1>2, <2>2 DEF FormTimed, FormField
  <2>3. CASE CloseEditor
    BY <2>2, <2>3 DEF CloseEditor
  <2>4. CASE EnterName
    BY <2>2, <2>4 DEF EnterName
  <2>5. CASE ClearName
    BY <2>2, <2>5 DEF ClearName, Edit
  <2>6. CASE PickDays
    BY <2>2, <2>6 DEF PickDays, Edit
  <2>7. CASE ToggleDay
    BY <2>2, <2>7 DEF ToggleDay, Edit
  <2>8. CASE ToggleAllDay
    BY <1>2, <2>8 DEF ToggleAllDay, Edit, FormTimed, FormField, Blank, Day
  <2>9. CASE EnterTime
    <3>1. PICK at \in Clock \cup {Blank} :
            \/ editor' = [editor EXCEPT !.start = at] \/ editor' = [editor EXCEPT !.end = at]
      BY <2>9, Zenon DEF EnterTime, Edit
    <3>2. at \in Int
      BY PageAssumption DEF PageInv, Blank
    <3> QED
      BY <1>2, <3>1, <3>2 DEF FormTimed, FormField
  <2>10. CASE PickZone
    <3>1. PICK z \in AvailableTimezones : editor' = [editor EXCEPT !.zone = z]
      BY <2>10, Zenon DEF PickZone, Edit
    <3>2. z \in Int
      BY <1>2, PageAssumption DEF PageInv, AvailableTimezones, FormTimed
    <3> QED
      BY <1>2, <3>1, <3>2 DEF FormTimed, FormField
  <2> QED
    BY <2>1, <2>3, <2>4, <2>5, <2>6, <2>7, <2>8, <2>9, <2>10
<1> QED
  BY <1>1, <1>3, DataStays DEF PageInv, DataInv

(* The other dialog touches neither the form nor the data.                 *)
LEMMA DialogStays ==
  ASSUME PageInv,
         \/ CloseManage \/ \E target \in Target : OpenManage(target)
         \/ \E id \in Id : ToggleAddWindow(id) \/ ToggleRemoveWindow(id)
  PROVE  PageInv'
<1>1. UNCHANGED data /\ editor' = editor
  BY Zenon DEF CloseManage, OpenManage, ToggleAddWindow, ToggleRemoveWindow, data,
       database, queries
<1> QED
  BY <1>1, DataStays DEF PageInv, DataInv

-----------------------------------------------------------------------------
(* Requests, the server, answers.                                          *)

(* What each request changes.                                              *)
LEMMA Tells ==
  /\ Told("save") = {"ignore-windows"} /\ Told("delete") = Query
  /\ \A g \in Target : Told(g) = {g}
<1>1. "save" \notin Target /\ "delete" \notin Target /\ "delete" # "save"
  BY DEF Target
<1> QED
  BY <1>1 DEF Told

(* A request is sent: its window is what the form stands for.              *)
LEMMA SendStays ==
  ASSUME PageInv,
         HandleSubmit \/ HandleManage \/ \E id \in Id : HandleDelete(id)
  PROVE  PageInv'
<1> DEFINE Sent(m, request) ==
             Send(m, request) /\ DOMAIN request = RequestField /\ Timed(request.window)
             /\ Idle(m)
<1>1. PICK m, request : Sent(m, request)
  <2>1. DOMAIN Unasked = RequestField /\ Timed(Unasked.window)
    BY WindowsTimed DEF Unasked, RequestField
  <2>2. CASE HandleSubmit
    <3> DEFINE request == [Unasked EXCEPT !.id = editor.open, !.window = Entered]
    <3>1. Timed(Entered)
      BY DEF PageInv, FormTimed, Entered, Timed, Day
    <3>2. DOMAIN request = RequestField /\ Timed(request.window)
      BY <2>1, <3>1 DEF RequestField
    <3>3. Send("save", request) /\ "Save" \in EditorButtons
      BY <2>2, Zenon DEF HandleSubmit
    <3>4. Idle("save")
      BY <3>3 DEF EditorButtons
    <3> QED
      BY <3>2, <3>3, <3>4
  <2>3. CASE \E id \in Id : HandleDelete(id)
    <3>1. PICK id \in Id : HandleDelete(id)
      BY <2>3
    <3> DEFINE request == [Unasked EXCEPT !.id = id]
    <3>2. DOMAIN request = RequestField /\ Timed(request.window)
      BY <2>1 DEF RequestField
    <3>3. Send("delete", request) /\ "Delete" \in Row(id).buttons
      BY <3>1, Zenon DEF HandleDelete
    <3>4. Idle("delete")
      BY <3>3 DEF Row
    <3> QED
      BY <3>2, <3>3, <3>4
  <2>4. CASE HandleManage
    <3> DEFINE request == [Unasked EXCEPT !.add = managing.add, !.remove = managing.remove]
    <3>1. DOMAIN request = RequestField /\ Timed(request.window)
      BY <2>1 DEF RequestField
    <3>2. Send(managing.target, request) /\ "Save" \in ManageButtons
      BY <2>4, Zenon DEF HandleManage
    <3>3. Idle(managing.target)
      BY <3>2 DEF ManageButtons
    <3> QED
      BY <3>1, <3>2, <3>3
  <2> QED
    BY <2>2, <2>3, <2>4
<1>2. UNCHANGED <<table, attached, cached, stale, behind, editor>>
  BY Zenon DEF HandleSubmit, HandleManage, HandleDelete, database, queries
<1> DEFINE r == [request EXCEPT !.phase = "sent"]
<1>3. requests' = [requests EXCEPT ![m] = r]
  BY <1>1 DEF Send
<1>4. DOMAIN r = RequestField /\ Timed(r.window) /\ r.phase = "sent"
  BY <1>1 DEF RequestField, Timed
<1> HIDE DEF r
<1>5. RequestsTimed'
  BY <1>3, <1>4 DEF PageInv, RequestsTimed
<1>6. \A k \in Source : requests[k].phase = "done" => requests'[k].phase = "done"
  BY <1>1, <1>3 DEF PageInv, RequestsTimed, Idle
<1>7. \A q : Untold(q) => Untold(q)'
  BY <1>2, <1>6, Zenon DEF Untold, Told
<1>8. Copied'
  BY <1>2, <1>7, Zenon DEF PageInv, Copied, WindowsCopied, LinksCopied
<1>9. FormTimed(editor)' /\ TablesTimed' /\ LinksExist'
  BY <1>2 DEF PageInv, FormTimed, TablesTimed, LinksExist, Exists
<1> QED
  BY <1>5, <1>8, <1>9 DEF PageInv

(* The phase of one request changes.                                       *)
LEMMA PhaseStays ==
  ASSUME RequestsTimed, NEW m \in Source, NEW phase,
         requests' = [requests EXCEPT ![m].phase = phase]
  PROVE  /\ RequestsTimed' /\ requests'[m].phase = phase
         /\ \A k \in Source \ {m} : requests'[k] = requests[k]
<1>1. requests' = [requests EXCEPT ![m] = [requests[m] EXCEPT !.phase = phase]]
  OBVIOUS
<1> DEFINE r == [requests[m] EXCEPT !.phase = phase]
<1>2. DOMAIN r = RequestField /\ r.phase = phase /\ Timed(r.window)
  BY DEF RequestsTimed, RequestField, Timed
<1> HIDE DEF r
<1> QED
  BY <1>1, <1>2 DEF RequestsTimed, r

(* A request that is done leaves every query it changes untold.            *)
LEMMA DoneTells ==
  ASSUME RequestsTimed, NEW m \in Source, Done(m), requests[m].phase = "sent",
         UNCHANGED <<stale, behind>>
  PROVE  /\ RequestsTimed'
         /\ \A q : Untold(q) \/ q \in Told(m) => Untold(q)'
<1>1. /\ RequestsTimed' /\ requests'[m].phase = "done"
      /\ \A k \in Source \ {m} : requests'[k] = requests[k]
  BY PhaseStays DEF Done
<1>2. ASSUME NEW q, Untold(q) \/ q \in Told(m) PROVE Untold(q)'
  <2>1. \A k \in Source : requests[k].phase = "done" => requests'[k].phase = "done"
    BY <1>1
  <2> QED
    BY <1>1, <1>2, <2>1, Zenon DEF Untold, Told
<1> QED
  BY <1>1, <1>2

(* A window that the handler accepts is stored.                            *)
LEMMA SaveStays == PageInv /\ SaveWindow => PageInv'
<1> SUFFICES ASSUME PageInv, SaveWindow PROVE PageInv'
  OBVIOUS
<1> DEFINE w == requests["save"].window
           id == IF requests["save"].id = Adding THEN given + 1 ELSE requests["save"].id
<1>1. /\ requests["save"].phase = "sent" /\ Acceptable(w) /\ Done("save")
      /\ table' = [table EXCEPT ![id] = w]
      /\ UNCHANGED <<attached, cached, stale, behind, editor>>
  BY Zenon DEF SaveWindow, queries
<1>2. "save" \in Source
  BY DEF Source
<1>3. RequestsTimed' /\ \A q : Untold(q) \/ q \in Told("save") => Untold(q)'
  BY <1>1, <1>2, DoneTells DEF PageInv
<1>4. Timed(w) /\ w # None
  BY <1>1, <1>2 DEF PageInv, RequestsTimed, Acceptable, None
<1> HIDE DEF w, id
<1>5. TablesTimed'
  BY <1>1, <1>4 DEF PageInv, TablesTimed
<1>6. LinksExist'
  BY <1>1, <1>4 DEF PageInv, TablesTimed, LinksExist, Exists
<1>7. Copied'
  <2>1. Untold("ignore-windows")'
    BY <1>3, Tells
  <2> QED
    BY <1>1, <1>3, <2>1, Zenon DEF PageInv, Copied, LinksCopied
<1>8. FormTimed(editor)'
  BY <1>1 DEF PageInv, FormTimed
<1> QED
  BY <1>3, <1>5, <1>6, <1>7, <1>8 DEF PageInv

(* A window goes, and its links with it.                                   *)
LEMMA DeleteStays == PageInv /\ DeleteWindow => PageInv'
<1> SUFFICES ASSUME PageInv, DeleteWindow PROVE PageInv'
  OBVIOUS
<1> DEFINE id == requests["delete"].id
<1>1. /\ requests["delete"].phase = "sent" /\ Done("delete")
      /\ table' = [table EXCEPT ![id] = None]
      /\ attached' = {l \in attached : l[2] # id}
      /\ UNCHANGED <<cached, stale, behind, editor>>
  BY Zenon DEF DeleteWindow, queries
<1>2. "delete" \in Source
  BY DEF Source
<1>3. RequestsTimed' /\ \A q : Untold(q) \/ q \in Told("delete") => Untold(q)'
  BY <1>1, <1>2, DoneTells DEF PageInv
<1> HIDE DEF id
<1>4. TablesTimed'
  BY <1>1, WindowsTimed DEF PageInv, TablesTimed
<1>5. LinksExist'
  BY <1>1 DEF PageInv, TablesTimed, LinksExist, Exists
<1>6. Copied'
  <2>1. \A q \in Query : Untold(q)'
    BY <1>3, Tells
  <2>2. "ignore-windows" \in Query /\ Target \subseteq Query
    BY DEF Query
  <2> QED
    BY <2>1, <2>2, Zenon DEF Copied
<1>7. FormTimed(editor)'
  BY <1>1 DEF PageInv, FormTimed
<1> QED
  BY <1>3, <1>4, <1>5, <1>6, <1>7 DEF PageInv

(* Windows are attached to a feed or a tag, and detached.                  *)
LEMMA ManageStays ==
  ASSUME PageInv, NEW m \in Source, ManageWindows(m)
  PROVE  PageInv'
<1> DEFINE add == requests[m].add
           remove == requests[m].remove
<1>1. /\ m \in Target /\ requests[m].phase = "sent" /\ Done(m)
      /\ \A id \in add : Exists(id, table)
      /\ attached' = (attached \ ({m} \X remove)) \cup ({m} \X add)
      /\ UNCHANGED <<table, cached, stale, behind, editor>>
  BY Zenon DEF ManageWindows, queries
<1>2. RequestsTimed' /\ \A q : Untold(q) \/ q \in Told(m) => Untold(q)'
  BY <1>1, DoneTells DEF PageInv
<1> HIDE DEF add, remove
<1>3. FormTimed(editor)' /\ TablesTimed'
  BY <1>1 DEF PageInv, FormTimed, TablesTimed
<1>4. LinksExist'
  BY <1>1 DEF PageInv, LinksExist, Exists
<1>5. Copied'
  <2>1. Untold(m)'
    BY <1>1, <1>2, Tells
  <2>2. ASSUME NEW g \in Target \ {m}, LinksCopied(g) PROVE LinksCopied(g)'
    BY <1>1, <2>2 DEF LinksCopied
  <2>3. WindowsCopied => WindowsCopied'
    BY <1>1, Zenon DEF WindowsCopied
  <2> QED
    BY <1>2, <2>1, <2>2, <2>3, Zenon DEF PageInv, Copied
<1> QED
  BY <1>2, <1>3, <1>4, <1>5 DEF PageInv

(* A refusal changes nothing else.                                         *)
LEMMA RefuseStays ==
  ASSUME PageInv, NEW m \in Source, Refuse(m)
  PROVE  PageInv'
<1>1. /\ requests[m].phase = "sent"
      /\ requests' = [requests EXCEPT ![m].phase = "refused"]
      /\ UNCHANGED <<table, attached, cached, stale, behind, editor>>
  BY Zenon DEF Refuse, database, queries
<1>2. RequestsTimed' /\ \A k \in Source \ {m} : requests'[k] = requests[k]
  BY <1>1, PhaseStays DEF PageInv
<1>3. \A k \in Source : requests[k].phase = "done" => requests'[k].phase = "done"
  BY <1>1, <1>2
<1>4. \A q : Untold(q) => Untold(q)'
  BY <1>1, <1>3, Zenon DEF Untold, Told
<1>5. Copied'
  BY <1>1, <1>4, Zenon DEF PageInv, Copied, WindowsCopied, LinksCopied
<1>6. FormTimed(editor)' /\ TablesTimed' /\ LinksExist'
  BY <1>1 DEF PageInv, FormTimed, TablesTimed, LinksExist, Exists
<1> QED
  BY <1>2, <1>5, <1>6 DEF PageInv

(* An answer, or an error, which may come from a lost answer: what the     *)
(* request changed is to be loaded, or is behind for good.                 *)
LEMMA AnswerStays ==
  ASSUME PageInv, NEW m \in Source, Answered(m) \/ Failed(m)
  PROVE  PageInv'
<1>1. /\ requests' = [requests EXCEPT ![m] = Unasked]
      /\ UNCHANGED <<table, attached, cached>>
  BY Zenon DEF Answered, Failed, database, queries
<1>2. RequestsTimed' /\ \A k \in Source \ {m} : requests'[k] = requests[k]
  <2>1. DOMAIN Unasked = RequestField /\ Timed(Unasked.window)
    BY WindowsTimed DEF Unasked, RequestField
  <2> QED
    BY <1>1, <2>1 DEF PageInv, RequestsTimed
<1>3. FormTimed(editor)'
  <2>1. \/ editor' = editor \/ editor' = [editor EXCEPT !.open = Closed]
        \/ editor' = [editor EXCEPT !.error = TRUE]
    BY Zenon DEF Answered, Failed
  <2> QED
    BY <2>1 DEF PageInv, FormTimed, FormField
<1>4. ASSUME NEW q, Untold(q) PROVE Untold(q)'
  <2>1. \A k \in Source : k # m /\ requests[k].phase = "done" => requests'[k].phase = "done"
    BY <1>2
  <2>2. requests[m].phase = "done" /\ q \in Told(m) => q \in stale' \cup behind'
    BY Zenon DEF Answered, Failed, queries
  <2>3. q \in stale \cup behind => q \in stale' \cup behind'
    BY DEF Answered, Failed, queries
  <2>4. q \in stale' \cup behind' => Untold(q)'
    BY Zenon DEF Untold
  <2> QED
    BY <1>4, <2>1, <2>2, <2>3, <2>4, Zenon DEF Untold, Told
<1>5. Copied'
  BY <1>1, <1>4, Zenon DEF PageInv, Copied, WindowsCopied, LinksCopied
<1>6. TablesTimed' /\ LinksExist'
  BY <1>1 DEF PageInv, TablesTimed, LinksExist, Exists
<1> QED
  BY <1>2, <1>3, <1>5, <1>6 DEF PageInv

(* A query loads what the table has.                                       *)
LEMMA LoadStays ==
  ASSUME PageInv, NEW q \in Query, Load(q)
  PROVE  PageInv'
<1> DEFINE shown == IF q = "ignore-windows" THEN table ELSE cached.windows
           links == {l \in cached.links : l[1] # q} \cup {l \in attached : l[1] = q}
<1>1. /\ cached' = [windows |-> shown, links |-> links] /\ stale' = stale \ {q}
      /\ UNCHANGED <<table, attached, requests, behind, editor>>
  BY Zenon DEF Load, database
<1>2. cached'.windows = shown /\ cached'.links = links
  BY <1>1
<1>3. TablesTimed'
  BY <1>1, <1>2 DEF PageInv, TablesTimed
<1>4. ASSUME NEW r, r # q, Untold(r) PROVE Untold(r)'
  <2>1. r \in stale => r \in stale'
    BY <1>1, <1>4
  <2> QED
    BY <1>1, <1>4, <2>1, Zenon DEF Untold, Told
<1>5. WindowsCopied' \/ Untold("ignore-windows")'
  <2>1. CASE q = "ignore-windows"
    BY <1>1, <1>2, <2>1 DEF WindowsCopied
  <2>2. CASE q # "ignore-windows"
    <3>1. WindowsCopied => WindowsCopied'
      BY <1>1, <1>2, <2>2 DEF WindowsCopied
    <3> QED
      BY <1>4, <2>2, <3>1, Zenon DEF PageInv, Copied
  <2> QED
    BY <2>1, <2>2
<1>6. ASSUME NEW g \in Target PROVE LinksCopied(g)' \/ Untold(g)'
  <2>1. CASE g = q
    BY <1>1, <1>2, <2>1 DEF LinksCopied
  <2>2. CASE g # q
    <3>1. LinksCopied(g) => LinksCopied(g)'
      BY <1>1, <1>2, <2>2 DEF LinksCopied
    <3> QED
      BY <1>4, <2>2, <3>1, Zenon DEF PageInv, Copied
  <2> QED
    BY <2>1, <2>2
<1>7. Copied'
  BY <1>5, <1>6, Zenon DEF Copied
<1>8. RequestsTimed' /\ LinksExist' /\ FormTimed(editor)'
  BY <1>1 DEF PageInv, RequestsTimed, LinksExist, Exists, FormTimed
<1> QED
  BY <1>3, <1>7, <1>8 DEF PageInv

-----------------------------------------------------------------------------
(* The invariant, and what it says once nothing is under way.              *)

(* Every step keeps the invariant.                                         *)
LEMMA PageInvHolds == PageSpec => []PageInv
<1>1. PageInv /\ [PageNext]_pageVars => PageInv'
  <2>1. ASSUME PageInv, UNCHANGED pageVars PROVE PageInv'
    <3>1. UNCHANGED data /\ editor' = editor
      BY <2>1 DEF pageVars, database, queries, data
    <3> QED
      BY <2>1, <3>1, DataStays DEF PageInv, DataInv
  <2> QED
    BY <2>1, FormStays, DialogStays, SendStays, SaveStays, DeleteStays, ManageStays,
       RefuseStays, AnswerStays, LoadStays, Zenon DEF PageNext
<1> QED
  BY <1>1, PageInvInit, PTL DEF PageSpec

(* WindowShownAsEnforced: the badges are the windows the scheduler is      *)
(* given, and as active as it takes them.                                  *)
THEOREM BadgesAreEnforced == PageSpec => []WindowShownAsEnforced
<1>1. PageInv => WindowShownAsEnforced
  <2> SUFFICES ASSUME PageInv, stale = {}, behind = {}, \A m \in Source : Idle(m),
                      NEW t \in Instant
               PROVE  FeedBadges(t) = {[window |-> w,
                        variant |-> IF Ignored(t, w) THEN "warning" ELSE "neutral"] :
                        w \in Enforced}
    BY Zenon DEF WindowShownAsEnforced
  <2>1. \A q : ~Untold(q)
    BY DEF Untold, Idle
  <2>2. WindowsCopied /\ \A g \in Target : LinksCopied(g)
    BY <2>1, Zenon DEF PageInv, Copied
  <2> DEFINE Given == {i \in Id : \E g \in Target : <<g, i>> \in attached}
  <2>3. BadgesOf(Target) = Given
    BY <2>2 DEF PageInv, LinksExist, BadgesOf, Windows, Exists, WindowsCopied, LinksCopied
  <2>4. ASSUME NEW i \in Id
        PROVE  Badge(i, t) = [window |-> table[i],
                 variant |-> IF Ignored(t, table[i]) THEN "warning" ELSE "neutral"]
    <3>1. cached.windows[i] = table[i]
      BY <2>2 DEF WindowsCopied
    <3>2. t \in Int /\ Timed(table[i])
      BY LoopAssumption DEF PageInv, TablesTimed
    <3> QED
      BY <3>1, <3>2, TestsAgree, Zenon DEF Badge
  <2>5. FeedBadges(t) = {Badge(i, t) : i \in Given}
    BY <2>3, Zenon DEF FeedBadges
  <2>6. Enforced = {table[i] : i \in Given}
    BY Zenon DEF Enforced
  <2> HIDE DEF Given
  <2>7. Given \subseteq Id
    BY DEF Given
  <2> QED
    BY <2>4, <2>5, <2>6, <2>7
<1> QED
  BY <1>1, PageInvHolds, PTL
=============================================================================

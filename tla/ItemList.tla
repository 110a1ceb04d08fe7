------------------------------ MODULE ItemList ------------------------------
(***************************************************************************)
(* The list of items (frontend/src/components/ItemList.tsx, ItemRow.tsx)   *)
(* with what it rests on: the incremental query of the items               *)
(* (lib/item-db.ts), the copy of the read state (lib/item-read-db.ts, in   *)
(* detail in ReadSync), the filters, which are kept in a store and in the  *)
(* URL at once, and the server's rows.  ItemDetail opens items of it.      *)
(***************************************************************************)
EXTENDS Integers, FiniteSets, FiniteSetsExt

CONSTANTS Item,          \* ids, in the order of publication
          Old,           \* created before the thirty days the list begins with
          Late,          \* created while the page is open
          ListTag,       \* tags
          Tagged,        \* items of the feeds with a tag
          Has,           \* the optional fields of an item
          Update,        \* updates of the read state under way at a time
          MaxItemActs    \* bound on what users and publishers do

ASSUME ItemAssumption ==
  /\ Item \subseteq Nat \ {0} /\ IsFiniteSet(Item)
  /\ Old \subseteq Item /\ Late \subseteq Item
  /\ "none" \notin ListTag /\ Tagged \in [ListTag -> SUBSET Item]
  /\ MaxItemActs \in Nat

VARIABLES here,          \* items the server has
          itemReads,     \* item_reads
          unsynced,      \* rows changed since the last poll
          rows,          \* query data of ["items", key], isRead included
          fetched,       \* lastFetchedMap
          reads,         \* query data of ["item-reads"]
          itemFilter,    \* itemStore: showRead, since
          search,        \* the URL's: tag, since
          removed,       \* itemStore.transientRemovedIds
          selectedItems, \* selectedItemIds
          updates,       \* each run of updateItemReadStatus
          itemActs,      \* how much they have done so far
          shown,         \* the item of the route, see ItemDetail
          gaps,          \* history: unread items a key's query may not have seen
          disturbed      \* history: items whose state the page has lost track of

backend == <<here, itemReads, unsynced>>
queries == <<rows, fetched, reads>>
settings == <<itemFilter, search>>
listPage == <<removed, selectedItems>>
history == <<gaps, disturbed>>

Closed == 0
EndOfList == -1
State == {"read", "unread"}
Entry == State \cup {"none"}
Empty == [i \in Item |-> "none"]
Since == {"30d", "all"}
Key == [showRead : BOOLEAN, since : Since]
Search == [tag : ListTag \cup {"none"}, since : Since \cup {"none"}]
FreeUpdate == [phase |-> "free", by |-> "row", ids |-> {}, to |-> "read",
               before |-> Empty, overlapped |-> FALSE]

UpdateRecord ==
  [phase : {"free", "yields", "sent", "committed"}, by : {"row", "bulk", "toggle", "leave"},
   ids : SUBSET Item, to : State, before : [Item -> Entry], overlapped : BOOLEAN]

ItemListTypeOK ==
  /\ here \in SUBSET Item /\ itemReads \in [Item -> State] /\ unsynced \in SUBSET Item
  /\ rows \in [Key -> [Item -> Entry]] /\ fetched \in [Key -> -1 .. 2]
  /\ reads \in [Item -> Entry]
  /\ itemFilter \in Key /\ search \in Search
  /\ removed \in SUBSET Item /\ selectedItems \in SUBSET Item
  /\ updates \in [Update -> UpdateRecord]
  /\ itemActs \in 0 .. MaxItemActs
  /\ gaps \in [Key -> SUBSET Item] /\ disturbed \in SUBSET Item

\* The list has just been opened: at "/", and nothing is loaded yet.
ItemListInit ==
  /\ here = Item \ Late
  /\ itemReads = [i \in Item |-> "unread"] /\ unsynced = {}
  /\ rows = [k \in Key |-> Empty] /\ fetched = [k \in Key |-> -1] /\ reads = Empty
  /\ itemFilter = [showRead |-> FALSE, since |-> "30d"]
  /\ search = [tag |-> "none", since |-> "30d"]
  /\ removed = {} /\ selectedItems = {}
  /\ updates = [o \in Update |-> FreeUpdate] /\ itemActs = 0
  /\ gaps = [k \in Key |-> {}] /\ disturbed = {}

ItemAct == itemActs < MaxItemActs /\ itemActs' = itemActs + 1

-----------------------------------------------------------------------------
(* The queries.                                                            *)

\* The generation of an item's created_at.
Created(i) == IF i \in Old THEN 0 ELSE IF i \in Late THEN 2 ELSE 1

\* What itemsList returns: everything in range the first time, and from the
\* newest one of the last answer on afterwards.
Asked(k) ==
  {i \in here : /\ IF fetched[k] = -1 THEN k.since = "all" \/ i \notin Old
                   ELSE Created(i) >= fetched[k]
                /\ k.showRead \/ itemReads[i] = "unread"}

\* Mutated Merged: the answer replaces what is there.
MergedFresh(k) == [i \in Item |-> IF i \in Asked(k) THEN itemReads[i] ELSE "none"]

\* The answer merged into the data, if there is any.
Merged(k) == [i \in Item |-> IF i \in Asked(k) THEN itemReads[i] ELSE rows[k][i]]

\* The anchor after an answer: the newest item of it.
Anchor(k) == Max({Created(i) : i \in Asked(k)} \cup {fetched[k]})

\* The query of the current key runs: on opening it, every minute, on 'r'
\* and on Refresh.
ListItems ==
  /\ rows' = [rows EXCEPT ![itemFilter] = Merged(itemFilter)]
  /\ fetched' = [fetched EXCEPT ![itemFilter] = Anchor(itemFilter)]
  /\ gaps' = [gaps EXCEPT ![itemFilter] = @ \ Asked(itemFilter)]
  /\ UNCHANGED <<backend, reads, settings, listPage, updates, itemActs, shown, disturbed>>

\* A run is cancelled, because feeds have been refreshed, but goes on: it moves
\* the anchor, and its answer is dropped.  The run in its place asks from the
\* anchor of before, which comes to the above, unless it fails.
ListItemsLost ==
  /\ fetched[itemFilter] # -1 /\ Asked(itemFilter) # {} /\ ItemAct
  /\ fetched' = [fetched EXCEPT ![itemFilter] = Anchor(itemFilter)]
  /\ gaps' = [gaps EXCEPT ![itemFilter] =
                @ \cup {i \in Asked(itemFilter) : rows[itemFilter][i] = "none"}]
  /\ UNCHANGED <<backend, rows, reads, settings, listPage, updates, shown, disturbed>>

\* The query cache drops a key that has not been shown for five minutes;
\* lastFetchedMap keeps its anchor.
Collect(k) ==
  /\ k # itemFilter /\ rows[k] # Empty /\ ItemAct
  /\ rows' = [rows EXCEPT ![k] = Empty]
  /\ gaps' = [gaps EXCEPT ![k] = Item]
  /\ UNCHANGED <<backend, fetched, reads, settings, listPage, updates, shown, disturbed>>

\* itemReadQueryOptions.queryFn, in one step; it asks for nothing before the
\* first answer of the items.
Poll ==
  /\ \E k \in Key : fetched[k] # -1
  /\ unsynced # {}
  /\ reads' = [i \in Item |-> IF i \in unsynced THEN itemReads[i] ELSE reads[i]]
  /\ unsynced' = {}
  /\ updates' = [o \in Update |->
                   [updates[o] EXCEPT !.overlapped = @ \/ updates[o].phase # "free"]]
  /\ UNCHANGED <<here, itemReads, rows, fetched, settings, listPage, itemActs, shown, history>>

-----------------------------------------------------------------------------
(* What the list shows.                                                    *)

ReadState(i) == IF reads[i] = "none" THEN rows[itemFilter][i] ELSE reads[i]

Listed == {i \in Item : rows[itemFilter][i] # "none"}

\* Mutated Visible: an item goes as soon as it is read.
VisibleUnread ==
  {i \in Listed \ removed : /\ search.tag = "none" \/ i \in Tagged[search.tag]
                            /\ itemFilter.showRead \/ ReadState(i) = "unread"}

Visible ==
  {i \in Listed \ removed : search.tag = "none" \/ i \in Tagged[search.tag]}

Unread == {i \in Listed : ReadState(i) = "unread"}

\* The count on a chip knows nothing of what was cleared.
TagUnreadCount(t) == Cardinality(Unread \cap (IF t = "none" THEN Item ELSE Tagged[t]))

\* No badge for zero.
ListTagChips ==
  [t \in ListTag \cup {"none"} |->
    [chosen |-> search.tag = t,
     badge |-> IF TagUnreadCount(t) = 0 THEN {} ELSE {TagUnreadCount(t)}]]

\* A row: underlined while unread, marked "Read" afterwards.
RowTitle(i) == IF ReadState(i) = "read" THEN "grey" ELSE "underlined"
RowBadge(i) == IF ReadState(i) = "read" THEN {"Read"} ELSE {}
RowDetails(i) == {"received"} \cup (Has[i] \cap {"url", "published"})
RowCheckbox(i) == i \in selectedItems

\* The rows, or the notice that there are none (yet).
ListBody == IF Visible = {} THEN "notice" ELSE "rows"

-----------------------------------------------------------------------------
(* Updates of the read state: updateItemReadStatus.                        *)

InFlight(o) == updates[o].phase \in {"sent", "committed"}

\* The optimistic part.
Send(o, by, ids, to) ==
  LET others == {q \in Update \ {o} : InFlight(q) /\ updates[q].ids \cap ids # {}}
  IN /\ updates' = [q \in Update |->
          IF q = o
          THEN [phase |-> "sent", by |-> by, ids |-> ids, to |-> to,
                before |-> [i \in Item |-> IF i \in ids THEN reads[i] ELSE "none"],
                overlapped |-> others # {}]
          ELSE [updates[q] EXCEPT !.overlapped = @ \/ q \in others]]
     /\ reads' = [i \in Item |-> IF i \in ids THEN to ELSE reads[i]]

Commit(o) ==
  /\ updates[o].phase = "sent"
  /\ itemReads' = [i \in Item |-> IF i \in updates[o].ids THEN updates[o].to ELSE itemReads[i]]
  /\ unsynced' = unsynced \cup updates[o].ids
  /\ updates' = [updates EXCEPT ![o].phase = "committed"]
  /\ gaps' = [k \in Key |-> IF updates[o].to = "unread" THEN gaps[k] \cup updates[o].ids
                             ELSE gaps[k]]
  /\ UNCHANGED <<here, queries, settings, listPage, itemActs, shown, disturbed>>

\* The entries of before the update; those that were not there go.
RolledBack(o) ==
  [i \in Item |-> IF i \in updates[o].ids THEN updates[o].before[i] ELSE reads[i]]

\* A bulk update clears the selection, what was selected meanwhile included.
Acknowledge(o) ==
  /\ updates[o].phase = "committed"
  /\ updates' = [updates EXCEPT ![o] = FreeUpdate]
  /\ selectedItems' = IF updates[o].by = "bulk" THEN {} ELSE selectedItems
  /\ UNCHANGED <<backend, queries, settings, removed, itemActs, shown, history>>

-----------------------------------------------------------------------------
(* The controls above the list.  The dialog of an open item is modal, so   *)
(* they can be reached only without one; on a narrow screen some are in a  *)
(* menu.                                                                   *)

ListReachable == shown = Closed

\* itemStore.setDateFilter as the effect on the prop since runs it, when the
\* URL changes from s to t.
Followed(s, t, f) == IF t.since # "none" /\ t.since # s.since
                     THEN [f EXCEPT !.since = t.since] ELSE f

\* validateSearch.
Validated(tag, since) ==
  [tag |-> tag, since |-> IF since = "none" /\ tag = "none" THEN "30d" ELSE since]

TagChip(t) ==
  /\ ListReachable /\ t \in DOMAIN ListTagChips /\ ItemAct
  /\ search' = Validated(t, "none")
  /\ itemFilter' = Followed(search, search', itemFilter)
  /\ UNCHANGED <<backend, queries, listPage, updates, shown, history>>

\* "all" is no value of the URL.
DateFilterSelect(v) ==
  LET stored == [itemFilter EXCEPT !.since = v]
  IN /\ ListReachable /\ ItemAct
     /\ search' = Validated(search.tag, IF v = "all" THEN "none" ELSE v)
     /\ itemFilter' = Followed(search, search', stored)
     /\ UNCHANGED <<backend, queries, listPage, updates, shown, history>>

ShowReadToggle ==
  /\ ListReachable /\ ItemAct
  /\ itemFilter' = [itemFilter EXCEPT !.showRead = ~@]
  /\ UNCHANGED <<backend, queries, search, listPage, updates, shown, history>>

\* The button is disabled when no visible item is read.
CanClear == \E i \in Visible : ReadState(i) = "read"

ClearReadItems ==
  LET read == {i \in Visible : ReadState(i) = "read"}
  IN /\ ListReachable /\ CanClear /\ ItemAct
     /\ removed' = removed \cup read
     /\ selectedItems' = selectedItems \ read
     /\ UNCHANGED <<backend, queries, settings, updates, shown, history>>

\* What the checkbox is set to: only sizes are compared.
AllSelected == Visible # {} /\ Cardinality(selectedItems) = Cardinality(Visible)

SelectedBy(checked) == IF checked THEN Visible ELSE {}

\* The box has a state of its own where AllSelected has not changed.
ToggleAll ==
  /\ ListReachable /\ ItemAct
  /\ \E checked \in {~AllSelected, Visible # {}} : selectedItems' = SelectedBy(checked)
  /\ UNCHANGED <<backend, queries, settings, removed, updates, shown, history>>

-----------------------------------------------------------------------------
(* Rows and the bar for what is selected.                                  *)

ToggleItem(i) ==
  /\ ListReachable /\ i \in Visible /\ ItemAct
  /\ selectedItems' = IF RowCheckbox(i) THEN selectedItems \ {i} ELSE selectedItems \cup {i}
  /\ UNCHANGED <<backend, queries, settings, removed, updates, shown, history>>

\* A click with the middle button opens the page of the item and marks it.
MiddleClick(o, i) ==
  /\ ListReachable /\ i \in Visible /\ "url" \in RowDetails(i) /\ RowTitle(i) = "underlined"
  /\ updates[o].phase = "free" /\ ItemAct
  /\ Send(o, "row", {i}, "read")
  /\ UNCHANGED <<backend, rows, fetched, settings, listPage, shown, history>>

BulkActionBar == IF selectedItems = {} THEN {} ELSE {"Clear", "Mark as Read"}

ClearSelected ==
  /\ ListReachable /\ "Clear" \in BulkActionBar /\ ItemAct
  /\ selectedItems' = {}
  /\ UNCHANGED <<backend, queries, settings, removed, updates, shown, history>>

\* The ids are taken at once, the update follows in another task.
BulkMarkAsRead(o) ==
  /\ ListReachable /\ "Mark as Read" \in BulkActionBar
  /\ \A q \in Update : updates[q].by = "bulk" => updates[q].phase = "free"
  /\ updates[o].phase = "free" /\ ItemAct
  /\ updates' = [updates EXCEPT ![o] = [FreeUpdate EXCEPT !.phase = "yields", !.by = "bulk",
                                                           !.ids = selectedItems]]
  /\ UNCHANGED <<backend, queries, settings, listPage, shown, history>>

BulkSend(o) ==
  /\ updates[o].phase = "yields"
  /\ Send(o, "bulk", updates[o].ids, "read")
  /\ UNCHANGED <<backend, rows, fetched, settings, listPage, itemActs, shown, history>>

-----------------------------------------------------------------------------
(* The outside.                                                            *)

\* Another browser.
OtherUpdate(i, v) ==
  /\ i \in here /\ itemReads[i] # v /\ ItemAct
  /\ itemReads' = [itemReads EXCEPT ![i] = v]
  /\ unsynced' = unsynced \cup {i}
  /\ gaps' = [k \in Key |-> IF v = "unread" THEN gaps[k] \cup {i} ELSE gaps[k]]
  /\ UNCHANGED <<here, queries, settings, listPage, updates, shown, disturbed>>

\* A fetch saves an item, perhaps in the second of one that is listed already.
Arrive(i) ==
  /\ i \in Late \ here /\ ItemAct
  /\ here' = here \cup {i}
  /\ gaps' = [k \in Key |-> IF fetched[k] >= Created(i) THEN gaps[k] \cup {i} ELSE gaps[k]]
  /\ UNCHANGED <<itemReads, unsynced, queries, settings, listPage, updates, shown, disturbed>>

ItemListStep ==
  \/ ListItems \/ ListItemsLost \/ Poll
  \/ \E k \in Key : Collect(k)
  \/ \E t \in ListTag \cup {"none"} : TagChip(t)
  \/ \E v \in Since : DateFilterSelect(v)
  \/ ShowReadToggle \/ ClearReadItems \/ ToggleAll \/ ClearSelected
  \/ \E i \in Item : ToggleItem(i) \/ Arrive(i) \/ \E v \in State : OtherUpdate(i, v)
  \/ \E o \in Update : \/ BulkMarkAsRead(o) \/ BulkSend(o) \/ Commit(o) \/ Acknowledge(o)
                   \/ \E i \in Item : MiddleClick(o, i)
=============================================================================

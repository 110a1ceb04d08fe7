----------------------------- MODULE ItemDetail -----------------------------
(***************************************************************************)
(* An item opened from the list (frontend/src/components/                  *)
(* ItemDetailRouteView.tsx, ItemDetailModal.tsx) in a modal dialog that    *)
(* leads from item to item by keys and swipes (lib/use-swipe.ts), marks    *)
(* what it leaves as read and fetches ahead (lib/item-prefetch.ts).        *)
(***************************************************************************)
EXTENDS ItemList

CONSTANT Window      \* items fetched ahead, 5 in the code

VARIABLES itemCache,     \* query data of ["item", id]: its isRead
          skip,      \* isSkipping, its two timers, and the item it began on
          seen,      \* history: the items shown since the dialog opened
          offered,   \* history: what was listed behind the first, itself included
          origin     \* history: "list" if the list still shows what it was opened from

detail == <<itemCache, skip>>
dialogStory == <<seen, offered, origin>>
itemVars == <<backend, queries, settings, listPage, updates, itemActs, shown, history,
              detail, dialogStory>>

NoSkip == [skipping |-> FALSE, timer |-> FALSE, recovery |-> FALSE, of |-> 0]

SkipRecord == [skipping : BOOLEAN, timer : BOOLEAN, recovery : BOOLEAN, of : Item \cup {0}]

ItemsTypeOK ==
  /\ ItemListTypeOK
  /\ shown \in Item \cup {Closed, EndOfList}
  /\ itemCache \in [Item -> Entry]
  /\ skip \in SkipRecord
  /\ seen \in SUBSET Item /\ offered \in SUBSET Item /\ origin \in {"list", "url"}

ItemsInit ==
  /\ ItemListInit /\ shown = Closed
  /\ itemCache = Empty /\ skip = NoSkip
  /\ seen = {} /\ offered = {} /\ origin = "list"

-----------------------------------------------------------------------------
(* Where the keys and swipes lead.  An item that is not in the list has    *)
(* no neighbours.                                                          *)

Open == shown # Closed
IsEndOfList == shown = EndOfList
InList == shown \in Item /\ shown \in Visible

\* Mutated After: an item is passed over.
AfterNext(i) == {j \in Visible : j > i + 1}

\* The items behind one, of which the first is the next.
After(i) == {j \in Visible : j > i}

NextItem == IF ~InList THEN Closed
            ELSE IF After(shown) = {} THEN EndOfList ELSE Min(After(shown))

PrevItem ==
  LET before == IF IsEndOfList THEN Visible
                ELSE IF InList THEN {j \in Visible : j < shown} ELSE {}
  IN IF before = {} THEN Closed ELSE Max(before)

CanNext == shown \in Item /\ NextItem # Closed
CanPrev == Open /\ PrevItem # Closed

\* The ways out of the item, as the hidden description of the dialog lists
\* them.
Ways == {w \in {"left", "up"} : CanNext} \cup {w \in {"right"} : CanPrev}

\* getPrefetchIds.
PrefetchIds ==
  IF ~InList THEN {}
  ELSE {j \in After(shown) : Cardinality({k \in After(shown) : k < j}) < Window}

\* The route changes: what the effect on itemId resets; the timer of a skip
\* under way is not.
Navigate(target) ==
  /\ shown' = target
  /\ skip' = IF target = shown THEN skip
             ELSE [skip EXCEPT !.skipping = FALSE, !.recovery = FALSE]
  /\ seen' = IF target \in Item THEN seen \cup {target} ELSE seen

\* markCurrentAsRead: nothing at the end of the list.
MarkCurrent(o) ==
  IF shown \in Item
  THEN updates[o].phase = "free" /\ Send(o, "leave", {shown}, "read")
  ELSE UNCHANGED <<updates, reads>>

-----------------------------------------------------------------------------
(* Opening and closing.                                                    *)

\* handleItemClick; the view's effect writes the URL's since into the store.
OpenItem(i) ==
  LET followed == IF search.since = "none" THEN itemFilter
                  ELSE [itemFilter EXCEPT !.since = search.since]
  IN /\ ListReachable /\ ListBody = "rows" /\ i \in Visible /\ ItemAct
     /\ shown' = i /\ itemFilter' = followed
     /\ skip' = NoSkip
     /\ seen' = {i} /\ offered' = {j \in Visible : j >= i}
     /\ origin' = IF followed = itemFilter THEN "list" ELSE "url"
     /\ UNCHANGED <<backend, queries, search, listPage, updates, history, itemCache>>

\* Escape, a click beside the dialog, Close in its menu or Back to List.
Close ==
  /\ Open /\ ItemAct
  /\ shown' = Closed /\ skip' = NoSkip
  /\ UNCHANGED <<backend, queries, settings, listPage, updates, history, itemCache,
                 dialogStory>>

\* The page is loaded again: only the URL stays.
Reload ==
  /\ ItemAct
  /\ rows' = [k \in Key |-> Empty] /\ fetched' = [k \in Key |-> -1] /\ reads' = Empty
  /\ unsynced' = {} /\ itemCache' = Empty
  /\ itemFilter' = Followed([search EXCEPT !.since = "none"], search,
                        [showRead |-> FALSE, since |-> "30d"])
  /\ removed' = {} /\ selectedItems' = {}
  /\ updates' = [o \in Update |-> FreeUpdate] /\ skip' = NoSkip
  /\ gaps' = [k \in Key |-> {}] /\ disturbed' = {}
  /\ seen' = {shown} \cap Item /\ offered' = {}
  /\ origin' = "url"
  /\ UNCHANGED <<here, itemReads, search, shown>>

-----------------------------------------------------------------------------
(* The queries of the dialog.                                              *)

\* The item itself, also when it has become stale, or one ahead that is not
\* cached.
FetchItem(i) ==
  /\ i \in here
  /\ i = shown \/ (i \in PrefetchIds /\ itemCache[i] = "none")
  /\ itemCache' = [itemCache EXCEPT ![i] = itemReads[i]]
  /\ UNCHANGED <<backend, queries, settings, listPage, updates, itemActs, shown, history,
                 skip, dialogStory>>

\* prioritizedItem: the copy of the read state first.
ItemReadState == IF reads[shown] = "none" THEN itemCache[shown] ELSE reads[shown]

\* What the dialog is about, and its title.
Panel == IF IsEndOfList THEN "end of list"
         ELSE IF itemCache[shown] = "none" THEN "loading" ELSE "item"

Title == IF Panel = "item" THEN <<"link", shown>> ELSE <<"text", Panel>>

Footer == IF IsEndOfList THEN {"Back to List"} ELSE {}

\* The round button; there is none before the item is there.
ToggleButton ==
  IF Panel = "item" THEN {[pressed |-> ItemReadState = "read",
                           title |-> IF ItemReadState = "read" THEN "Mark as Unread"
                                     ELSE "Mark as Read"]}
  ELSE {}

\* What else it shows of an item: the fields that it has, and the picture
\* unless the text has it, too.
Metadata ==
  IF Panel # "item" THEN {}
  ELSE {"received"} \cup (Has[shown] \cap {"url", "author", "feeds", "published", "categories"})

Picture == Panel = "item" /\ "picture" \in Has[shown] /\ "pictureInText" \notin Has[shown]

Text == IF Panel # "item" THEN "none"
        ELSE IF "content" \in Has[shown] THEN "content" ELSE "description"

-----------------------------------------------------------------------------
(* What keys and swipes do.                                                *)

HandleNext(o) ==
  /\ CanNext /\ ItemAct
  /\ MarkCurrent(o) /\ Navigate(NextItem)
  /\ UNCHANGED <<backend, rows, fetched, settings, listPage, history, itemCache, offered,
                 origin>>

HandlePrev(o) ==
  /\ CanPrev /\ ItemAct
  /\ MarkCurrent(o) /\ Navigate(PrevItem)
  /\ UNCHANGED <<backend, rows, fetched, settings, listPage, history, itemCache, offered,
                 origin>>

\* onSkipNext: the item stays unread.
SkipNext == IF CanNext THEN Navigate(NextItem) ELSE UNCHANGED <<shown, skip, seen>>

\* n.
KeySkip ==
  /\ CanNext /\ ~skip.skipping /\ ItemAct
  /\ SkipNext
  /\ UNCHANGED <<backend, queries, settings, listPage, updates, history, itemCache,
                 offered, origin>>

Other(s) == IF s = "read" THEN "unread" ELSE "read"

\* handleToggleRead: m or the button, once the item is there.
ToggleRead(o) ==
  /\ Open /\ ToggleButton # {} /\ updates[o].phase = "free" /\ ItemAct
  /\ itemCache' = [itemCache EXCEPT ![shown] = Other(ItemReadState)]
  /\ Send(o, "toggle", {shown}, Other(ItemReadState))
  /\ UNCHANGED <<backend, rows, fetched, settings, listPage, shown, history, skip,
                 dialogStory>>

\* handleSkip, with the animation.
SwipeUp ==
  /\ CanNext /\ ~skip.skipping /\ ItemAct
  /\ skip' = [skipping |-> TRUE, timer |-> TRUE, recovery |-> FALSE, of |-> shown]
  /\ UNCHANGED <<backend, queries, settings, listPage, updates, shown, history,
                 itemCache, dialogStory>>

\* 200 ms later.  A target resets the recovery timer just set.
SkipTimer ==
  LET fired == [skip EXCEPT !.timer = FALSE, !.recovery = TRUE, !.of = 0]
  IN /\ skip.timer
     /\ IF CanNext
        THEN /\ shown' = NextItem /\ seen' = seen \cup ({NextItem} \cap Item)
             /\ skip' = NoSkip
        ELSE skip' = fired /\ UNCHANGED <<shown, seen>>
     /\ UNCHANGED <<backend, queries, settings, listPage, updates, itemActs, history, itemCache,
                    offered, origin>>

RecoveryTimer ==
  /\ skip.recovery
  /\ skip' = [skip EXCEPT !.skipping = FALSE, !.recovery = FALSE]
  /\ UNCHANGED <<backend, queries, settings, listPage, updates, itemActs, shown, history,
                 itemCache, dialogStory>>

\* Mutated Fail: nothing is rolled back.
FailKeeps(o) ==
  /\ InFlight(o)
  /\ updates' = [updates EXCEPT ![o] = FreeUpdate]
  /\ UNCHANGED <<backend, queries, settings, listPage, itemActs, shown, history, detail,
                 dialogStory>>

\* An update fails, whether or not the server has done it.  That of a toggle
\* is also undone in the cache of the item that is shown by then.
FailUpdate(o) ==
  LET astray == updates[o].by = "toggle" /\ {shown} \cap Item # updates[o].ids
  IN /\ InFlight(o)
     /\ reads' = RolledBack(o)
     /\ itemCache' = [i \in Item |->
          IF updates[o].by = "toggle" /\ i = shown /\ itemCache[i] # "none"
          THEN Other(updates[o].to) ELSE itemCache[i]]
     /\ updates' = [updates EXCEPT ![o] = FreeUpdate]
     /\ disturbed' = IF astray THEN disturbed \cup updates[o].ids \cup ({shown} \cap Item)
                     ELSE IF updates[o].overlapped THEN disturbed \cup updates[o].ids
                     ELSE disturbed
     /\ UNCHANGED <<backend, rows, fetched, settings, listPage, itemActs, shown, gaps,
                    skip, dialogStory>>
-----------------------------------------------------------------------------
(* The next-state relation.                                                *)

\* handleKeyDown: ArrowRight, j, l; ArrowLeft, k, h; n; m.
Keys(o) == HandleNext(o) \/ HandlePrev(o) \/ KeySkip \/ ToggleRead(o)

\* What useSwipe is given; Gesture has the touches themselves.
Swipes(o) == HandleNext(o) \/ HandlePrev(o) \/ SwipeUp

DetailStep ==
  \/ \E i \in Item : OpenItem(i) \/ FetchItem(i)
  \/ Close \/ Reload
  \/ \E o \in Update : Keys(o) \/ Swipes(o) \/ FailUpdate(o)
  \/ SkipTimer \/ RecoveryTimer

ItemsNext == DetailStep \/ (ItemListStep /\ UNCHANGED <<detail, dialogStory>>)

ItemsSpec == ItemsInit /\ [][ItemsNext]_itemVars

-----------------------------------------------------------------------------
(* Properties.                                                             *)

\* What the list or the dialog shows of an item's read state is what the
\* server has, once no update of it is under way and no change of another
\* browser is still to be polled; but for items an update of which failed
\* while another one or a poll overlapped with it, or a toggle after the
\* dialog had gone on (ItemDetailModal.tsx:472).
ReadsAgree ==
  \A i \in Item \ (disturbed \cup unsynced) :
    (\A o \in Update : InFlight(o) => i \notin updates[o].ids) =>
      /\ i \in Listed =>
           /\ RowTitle(i) = IF itemReads[i] = "read" THEN "grey" ELSE "underlined"
           /\ RowBadge(i) = {b \in {"Read"} : itemReads[i] = "read"}
      /\ shown = i /\ ToggleButton # {} =>
           \A b \in ToggleButton : b.pressed = (itemReads[i] = "read")

\* Nothing unread is missing from the list: an answer leaves no item in range
\* out; but for items that came in the second of the anchor or were marked
\* unread again, what was in a key's data when the cache dropped it, and what
\* only a cancelled run has read (item-db.ts:113-121, 165-170), unless they are
\* asked for again.
ListComplete ==
  \A k \in Key : \A i \in here \ gaps[k] :
    /\ fetched[k] >= Created(i) /\ itemReads[i] = "unread"
    /\ k.since = "all" \/ i \notin Old
    => rows[k][i] # "none"

\* An item opened from the list keeps its neighbours, whatever is read,
\* polled or listed meanwhile: there is a way on, be it to the end.
NeverStuck == shown \in Item /\ origin = "list" => {"left", "up"} \subseteq Ways

\* Whoever is told that the list has ended has been shown everything that was
\* listed behind the item they began with.
EndMeansSeen == IsEndOfList /\ origin = "list" => offered \subseteq seen
=============================================================================

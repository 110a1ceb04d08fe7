----------------------------- MODULE FeedsPage -----------------------------
(***************************************************************************)
(* The pages that manage feeds and tags: frontend/src/routes/feeds.tsx     *)
(* with AddFeedForm, FeedList, ManageTagsModal and ImportOpmlModal, and    *)
(* TagManagement of routes/tags.tsx, over the tables and queries of        *)
(* FeedStore.  The two pages are taken to be side by side; each control    *)
(* is an action whose guard is what enables it.  Dialogs are opened and    *)
(* closed only while the bound leaves room for something to do after it.   *)
(***************************************************************************)
EXTENDS FeedStore

VARIABLES selected,     \* selectedFeedIds
          filter,       \* feedStore.selectedTagId
          staged,       \* addTagIds, removeTagIds of ManageTagsModal
          dialog,       \* the open one
          latest,       \* the request refreshMutation is about
          form,         \* AddFeedForm
          imported,     \* ImportOpmlModal
          tagName,      \* newTagName of TagManagement
          deleteError

list == <<selected, filter, deleteError>>
dialogs == <<staged, dialog, imported>>
forms == <<form, tagName>>
page == <<list, dialogs, forms, latest>>
vars == <<server, cache, ops, fetching, acts, behind, page>>

NoOp == 0
EmptyForm == [url |-> NoUrl, tags |-> {}, pending |-> FALSE, error |-> FALSE]
Unstaged == [add |-> {}, remove |-> {}]

TypeOK ==
  /\ StoreTypeOK
  /\ selected \subseteq Id /\ filter \in Tag \cup {"all", "untagged"}
  /\ staged.add \cup staged.remove \subseteq Tag /\ staged.add \cap staged.remove = {}
  /\ dialog \in {"none", "tags", "import"} /\ latest \in Op \cup {NoOp}
  /\ form \in [url : Url \cup {NoUrl}, tags : SUBSET Tag, pending : BOOLEAN, error : BOOLEAN]
  /\ imported \in {"choose", "pending", "result", "error"}
  /\ tagName \in Tag \cup {"none"} /\ deleteError \in BOOLEAN

Init ==
  /\ LoadedInit
  /\ selected = {} /\ filter = "all" /\ staged = Unstaged /\ dialog = "none" /\ latest = NoOp
  /\ form = EmptyForm /\ imported = "choose" /\ tagName = "none" /\ deleteError = FALSE

-----------------------------------------------------------------------------
(* What the pages show.                                                    *)

Feeds == Stored(cached["feeds"])
Tags == cached["tags"].tags
Reachable == dialog = "none"

\* getFeedList: the feeds of one query, filtered with another one.
Filtered(feeds, links) ==
  {i \in feeds : CASE filter = "all" -> TRUE
                   [] filter = "untagged" -> TagsOf(i, links) = {}
                   [] OTHER -> i \in FeedsOf(filter, links)}

FeedList == Filtered(Feeds, cached["feed-tags"])

\* getTagsWithFeedCount: the count that came with the tag.
FeedCount(t) == Cardinality(FeedsOf(t, cached["tags"]))

\* The rows of TagManagement.
TagRow(t) == [name |-> t, feeds |-> FeedCount(t), buttons |-> {"Ignore Windows", "Delete"}]
TagRows == IF Tags = {} THEN {} ELSE {TagRow(t) : t \in Tags}

TagOptions == {"all", "untagged"} \cup Tags

AllVisibleSelected == FeedList # {} /\ FeedList \subseteq selected
SelectAllBox ==
  [checked |-> AllVisibleSelected,
   mixed |-> FeedList \cap selected # {} /\ ~FeedList \subseteq selected]

RowBadges(i) == TagsOf(i, cached["feeds"])
Spinner(i) == i \in marks
ErrorIcon(i) == i \in errors

\* Suspend and Delete are always there; the menu of the narrow screen has
\* Fetch, too, whatever is under way.
RowButtons(i) == {"Suspend", "Delete"} \cup {b \in {"Fetch"} : ~Spinner(i)}
RowMenu == {"Fetch", "Suspend", "Delete"}

Row(i) == [checked |-> i \in selected, badges |-> RowBadges(i), spinner |-> Spinner(i),
           error |-> ErrorIcon(i), controls |-> RowButtons(i) \cup RowMenu]

\* None: "No feeds found."
Rows == [i \in FeedList |-> Row(i)]

BulkButtons ==
  IF selected = {} THEN {}
  ELSE {"Clear", "Export", "Suspend", "Manage Tags"}
         \cup {b \in {"Fetch"} : latest = NoOp}

SaveEnabled == ~Pending("manage") /\ staged # Unstaged
AddEnabled == ~form.pending

\* The chips of the form, of the tags there are.
TagChips == [t \in Tags |-> t \in form.tags]

ImportBody ==
  CASE imported \in {"choose", "error"} -> "file"
    [] imported = "pending" -> "Processing"
    [] imported = "result" -> "summary"

-----------------------------------------------------------------------------
(* The list of feeds.                                                      *)

ToggleFeed(i) ==
  /\ Reachable /\ i \in DOMAIN Rows /\ Act
  /\ selected' = IF Rows[i].checked THEN selected \ {i} ELSE selected \cup {i}
  /\ UNCHANGED <<server, cache, ops, fetching, behind, filter, deleteError, dialogs,
                 forms, latest>>

ToggleSelectAll ==
  /\ Reachable /\ Act
  /\ selected' = IF SelectAllBox.checked THEN selected \ FeedList ELSE selected \cup FeedList
  /\ UNCHANGED <<server, cache, ops, fetching, behind, filter, deleteError, dialogs,
                 forms, latest>>

ClearSelection ==
  /\ Reachable /\ "Clear" \in BulkButtons /\ Act
  /\ selected' = {}
  /\ UNCHANGED <<server, cache, ops, fetching, behind, filter, deleteError, dialogs,
                 forms, latest>>

\* The effect on the tags: a tag that is gone is given up, unless it was the
\* last one.
ValidFilter(tags, f) == IF tags # {} /\ f \in Tag \ tags THEN "all" ELSE f

SetFilter(f) ==
  /\ Reachable /\ f \in TagOptions /\ f # filter /\ Act
  /\ filter' = f
  /\ UNCHANGED <<server, cache, ops, fetching, behind, selected, deleteError, dialogs,
                 forms, latest>>

RefreshRow(o, i) ==
  /\ Reachable /\ i \in DOMAIN Rows /\ "Fetch" \in Rows[i].controls /\ Ask
  /\ RefreshFeeds(o, {i}) /\ latest' = o
  /\ UNCHANGED <<server, cache, behind, list, dialogs, forms>>

RefreshSelected(o) ==
  /\ Reachable /\ "Fetch" \in BulkButtons /\ Ask
  /\ RefreshFeeds(o, selected) /\ latest' = o
  /\ UNCHANGED <<server, cache, behind, list, dialogs, forms>>

SuspendRow(o, i) ==
  /\ Reachable /\ i \in DOMAIN Rows /\ IsFree(o) /\ Ask
  /\ Sent(o, [New("suspend") EXCEPT !.ids = {i}])
  /\ UNCHANGED <<server, cache, fetching, behind, page>>

SuspendSelected(o) ==
  /\ Reachable /\ "Suspend" \in BulkButtons /\ IsFree(o) /\ Ask
  /\ Sent(o, [New("suspend") EXCEPT !.ids = selected])
  /\ selected' = {}
  /\ UNCHANGED <<server, cache, fetching, behind, filter, deleteError, dialogs, forms,
                 latest>>

\* handleDelete; there is no question.
DeleteFeed(o, i) ==
  /\ Reachable /\ i \in DOMAIN Rows /\ IsFree(o) /\ Ask
  /\ Sent(o, [New("delete") EXCEPT !.ids = {i}])
  /\ deleteError' = FALSE
  /\ UNCHANGED <<server, cache, fetching, behind, selected, filter, dialogs, forms,
                 latest>>

-----------------------------------------------------------------------------
(* ManageTagsModal, ImportOpmlModal.                                       *)

OpenDialog(d) ==
  /\ Reachable /\ Room /\ (d = "tags" => "Manage Tags" \in BulkButtons)
  /\ dialog' = d
  /\ UNCHANGED <<server, cache, ops, fetching, acts, behind, list, staged, imported, forms, latest>>

Toggled(t, s) == IF t \in s THEN s \ {t} ELSE s \cup {t}

ToggleAddTag(t) ==
  /\ dialog = "tags" /\ t \in Tags /\ Act
  /\ staged' = [add |-> Toggled(t, staged.add), remove |-> staged.remove \ {t}]
  /\ UNCHANGED <<server, cache, ops, fetching, behind, list, dialog, imported, forms, latest>>

ToggleRemoveTag(t) ==
  /\ dialog = "tags" /\ t \in Tags /\ Act
  /\ staged' = [add |-> staged.add \ {t}, remove |-> Toggled(t, staged.remove)]
  /\ UNCHANGED <<server, cache, ops, fetching, behind, list, dialog, imported, forms, latest>>

\* handleSave sends what is selected now.
SaveTags(o) ==
  /\ dialog = "tags" /\ SaveEnabled /\ IsFree(o) /\ Ask
  /\ Sent(o, [New("manage") EXCEPT !.ids = selected, !.add = staged.add,
                                   !.remove = staged.remove])
  /\ UNCHANGED <<server, cache, fetching, behind, page>>

\* Cancel, Escape, a click beside it; what is staged stays.  An import under
\* way is left by the cross alone.
CloseDialog ==
  /\ Room /\ dialog # "none"
  /\ dialog' = "none"
  /\ selected' = IF dialog = "tags" THEN {} ELSE selected
  /\ UNCHANGED <<server, cache, ops, fetching, acts, behind, filter, deleteError, staged,
                 imported, forms, latest>>

\* handleFileChange: a file with some feeds, in folders that are tags.
ChooseFile(o, urls, tags) ==
  /\ dialog = "import" /\ ImportBody = "file" /\ IsFree(o) /\ Ask
  /\ Sent(o, [New("import") EXCEPT !.url = urls, !.add = tags])
  /\ imported' = "pending"
  /\ UNCHANGED <<server, cache, fetching, behind, list, staged, dialog, forms, latest>>

-----------------------------------------------------------------------------
(* AddFeedForm and TagManagement.                                          *)

\* The input is disabled while a feed is added, the chips are not.
TypeUrl(u) ==
  /\ Reachable /\ AddEnabled /\ form.url # u /\ Act
  /\ form' = [form EXCEPT !.url = u]
  /\ UNCHANGED <<server, cache, ops, fetching, behind, list, dialogs, tagName, latest>>

ToggleTag(t) ==
  /\ Reachable /\ t \in DOMAIN TagChips /\ Act
  /\ form' = [form EXCEPT !.tags = Toggled(t, @)]
  /\ UNCHANGED <<server, cache, ops, fetching, behind, list, dialogs, tagName, latest>>

\* An empty URL is sent, too, and refused.
SubmitFeed(o) ==
  /\ Reachable /\ AddEnabled /\ IsFree(o) /\ Ask
  /\ Sent(o, [New("create") EXCEPT !.url = {form.url} \ {NoUrl}, !.add = form.tags \cap Tags])
  /\ form' = [form EXCEPT !.pending = TRUE, !.error = FALSE]
  /\ UNCHANGED <<server, cache, fetching, behind, list, dialogs, tagName, latest>>

TypeTag(t) ==
  /\ Reachable /\ tagName # t /\ Act
  /\ tagName' = t
  /\ UNCHANGED <<server, cache, ops, fetching, behind, list, dialogs, form, latest>>

CreateTag(o) ==
  /\ Reachable /\ tagName # "none" /\ IsFree(o) /\ Ask
  /\ Sent(o, [New("tagInsert") EXCEPT !.add = {tagName}])
  /\ UNCHANGED <<server, cache, fetching, behind, page>>

\* handleDeleteTag; it asks first if there are feeds, and the user may agree.
DeleteTag(o, t) ==
  /\ Reachable /\ \E row \in TagRows : row.name = t /\ "Delete" \in row.buttons
  /\ IsFree(o) /\ Ask
  /\ Sent(o, [New("tagDelete") EXCEPT !.remove = {t}])
  /\ UNCHANGED <<server, cache, fetching, behind, page>>

-----------------------------------------------------------------------------
(* Answers.                                                                *)

\* What a handler does once its request is over, whatever is on the page by
\* then: the dialog that is open is closed, what was typed is cleared.
Over(o, ok) ==
  LET kind == ops[o].kind
  IN /\ form' = CASE kind = "create" /\ ok -> EmptyForm
                  [] kind = "create" /\ ~ok -> [form EXCEPT !.pending = FALSE, !.error = TRUE]
                  [] OTHER -> form
     /\ dialog' = IF kind = "manage" /\ ok /\ dialog = "tags" THEN "none" ELSE dialog
     /\ selected' = IF kind = "manage" /\ ok THEN {} ELSE selected
     /\ staged' = IF kind = "manage" /\ ok THEN Unstaged ELSE staged
     /\ imported' = CASE kind = "import" /\ ok -> "result"
                      [] kind = "import" /\ ~ok -> "error"
                      [] OTHER -> imported
     /\ tagName' = IF kind = "tagInsert" /\ ok THEN "none" ELSE tagName
     /\ deleteError' = IF kind = "delete" THEN ~ok ELSE deleteError
     /\ latest' = IF latest = o THEN NoOp ELSE latest
     /\ UNCHANGED filter

\* It goes on once everything it has to invalidate is.
Answered(o) ==
  /\ Settle(o)
  /\ IF Last(Told(ops[o].kind)) THEN Over(o, TRUE) ELSE UNCHANGED page

GoesOn(o) ==
  /\ TellNext(o)
  /\ IF Last(ops[o].todo) THEN Over(o, TRUE) ELSE UNCHANGED page

Failed(o) == Fail(o) /\ Over(o, FALSE)

\* The data of a query changes; the list looks at the filter again.
Shown(q) ==
  /\ Deliver(q)
  /\ filter' = ValidFilter(cached'["tags"].tags, filter)
  /\ UNCHANGED <<selected, deleteError, dialogs, forms, latest>>

ServerStep ==
  /\ \/ \E o \in Op : CreateFeed(o) \/ SetFeedTags(o) \/ ImportChecks(o) \/ ImportStores(o)
                      \/ Execute(o)
     \/ \E q \in Query : Read(q)
  /\ UNCHANGED page

ListStep ==
  \/ \E i \in Id : ToggleFeed(i) \/ \E o \in Op : RefreshRow(o, i) \/ SuspendRow(o, i)
                                                  \/ DeleteFeed(o, i)
  \/ ToggleSelectAll \/ ClearSelection
  \/ \E f \in Tag \cup {"all", "untagged"} : SetFilter(f)
  \/ \E o \in Op : RefreshSelected(o) \/ SuspendSelected(o)

DialogStep ==
  \/ OpenDialog("tags") \/ OpenDialog("import") \/ CloseDialog
  \/ \E t \in Tag : ToggleAddTag(t) \/ ToggleRemoveTag(t)
  \/ \E o \in Op : SaveTags(o) \/ \E urls \in (SUBSET Url) \ {{}}, tags \in SUBSET Tag :
                                   ChooseFile(o, urls, tags)

FormStep ==
  \/ \E u \in Url \cup {NoUrl} : TypeUrl(u)
  \/ \E t \in Tag : ToggleTag(t) \/ TypeTag(t) \/ \E o \in Op : DeleteTag(o, t)
  \/ \E o \in Op : SubmitFeed(o) \/ CreateTag(o)

AnswerStep ==
  \/ \E o \in Op : Answered(o) \/ GoesOn(o) \/ Failed(o)
  \/ \E q \in Query : Shown(q)

Next == ListStep \/ DialogStep \/ FormStep \/ ServerStep \/ AnswerStep

Spec == Init /\ [][Next]_vars

-----------------------------------------------------------------------------
(* Properties.                                                             *)

\* Once every request is answered and every query has delivered, the rows,
\* their tags, the filtered list and the counts are what the tables hold,
\* however requests, answers and runs of the queries overlapped; but for what
\* nobody was told: a tag deleted or an import (tag-db.ts,
\* ImportOpmlModal.tsx:67), or a lost answer.
CacheFresh ==
  (\A o \in Op : ops[o].phase = "free") /\ (\A q \in Query : query[q] = "idle") =>
    /\ "feeds" \notin behind =>
         /\ Feeds = Stored(db)
         /\ \A i \in DOMAIN Rows : Rows[i].badges = TagsOf(i, db)
    /\ "tags" \notin behind => 
         /\ {row.name : row \in TagRows} = db.tags
         /\ \A row \in TagRows : row.feeds = Cardinality(FeedsOf(row.name, db))
    /\ {"feeds", "feed-tags"} \cap behind = {} => DOMAIN Rows = Filtered(Stored(db), db)

\* A feed has the spinner only while it is fetched, and a feed that is fetched
\* has it, unless its fetches overlapped: the first to end takes the mark away
\* (fetching-state.ts:41).
SpinnerExact ==
  \A i \in Id :
    LET under == \E o \in Op : /\ ops[o].kind = "refresh" /\ i \in ops[o].ids
                               /\ ops[o].phase \in {"sent", "done", "refused"}
    IN /\ Spinner(i) => under /\ ~ErrorIcon(i)
       /\ under => Spinner(i) \/ i \in crossed

\* An import stores all it fetched or, refused, nothing, whoever adds feeds
\* meanwhile; and no URL is stored twice (opml_importer.go:51-151).
NoHalfImport ==
  /\ \A o \in Op : ops[o].kind = "import" =>
       /\ ops[o].phase = "refused" => ops[o].wrote = {}
       /\ ops[o].phase = "done" => Cardinality(ops[o].wrote) = Cardinality(ops[o].url)
  /\ \A i, j \in Stored(db) : db.feeds[i] = db.feeds[j] => i = j
=============================================================================

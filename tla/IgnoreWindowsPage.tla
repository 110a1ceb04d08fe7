-------------------------- MODULE IgnoreWindowsPage --------------------------
(***************************************************************************)
(* The pages that manage ignore windows: frontend/src/routes/              *)
(* ignore-windows.tsx with IgnoreWindowsTable and AddIgnoreWindowModal,    *)
(* ManageIgnoreWindowsModal, which attaches windows to a feed or a tag,    *)
(* and the badges of the list of feeds; the requests of                    *)
(* lib/ignore-window-db.ts, and what handler.go does with them.  There is  *)
(* one feed, which has one tag.  A query loads in one step; FeedStore has  *)
(* that in detail.  Dialogs are opened and closed only while the bound     *)
(* leaves room for something to do after it.                               *)
(***************************************************************************)
EXTENDS IgnoreWindow

CONSTANTS Clock,     \* what users enter as a time
          Zone,      \* how far the zones offered are ahead; the first is the browser's
          MaxId,     \* bound on the windows ever created
          MaxActs    \* bound on what users do

None == [start |-> 0, end |-> 0, days |-> {}, ahead |-> 0]

\* The field of a time yields one of the day; a window has a day (handler.go).
ASSUME PageAssumption ==
  /\ Clock \subseteq 0 .. Day - 1 /\ Zone \subseteq Int /\ Zone # {}
  /\ MaxId \in Nat \ {0} /\ MaxActs \in Nat
  /\ None \notin Window

VARIABLES table,     \* ignore_windows, by id
          given,     \* ids given away
          attached,  \* feed_ignore_windows, tag_ignore_windows
          cached,    \* query data
          stale,     \* queries that are to run again
          editor,    \* AddIgnoreWindowModal
          managing,  \* ManageIgnoreWindowsModal
          requests,  \* requests under way, by the mutation that sent them
          acts,
          behind     \* history: queries that nobody told of a change

loop == <<asked, windows, current, passes, done>>
database == <<table, given, attached>>
queries == <<cached, stale>>
pageVars == <<database, queries, editor, managing, requests, acts, behind>>

Id == 1 .. MaxId
Target == {"feed", "tag"}
Query == {"ignore-windows"} \cup Target
Source == {"save", "delete"} \cup Target
Blank == -1
Here == CHOOSE z \in Zone : TRUE
Exists(id, d) == d[id] # None
Closed == 0
Adding == MaxId + 1
Unasked == [phase |-> "idle", id |-> 0, window |-> None, add |-> {}, remove |-> {}]

PageTypeOK ==
  /\ \A id \in Id : table[id] \in WindowRecord /\ (Exists(id, table) => id <= given)
  /\ given \in 0 .. MaxId /\ attached \subseteq Target \X {id \in Id : Exists(id, table)}
  /\ cached.links \subseteq Target \X Id /\ stale \subseteq Query /\ behind \subseteq Query
  /\ editor.open \in Closed .. Adding /\ editor.days \subseteq 0 .. 6
  /\ {editor.start, editor.end} \subseteq Clock \cup {Blank, Day}
       \cup UNION {{w.start, w.end} : w \in Window}
  /\ editor.allDay => editor.start = 0 /\ editor.end \in {0, Day}
  /\ managing.add \cap managing.remove = {}
  /\ \A m \in Source : requests[m].phase \in {"idle", "sent", "done", "refused"}
  /\ acts \in 0 .. MaxActs

\* What the form begins with.
NewForm == [open |-> Closed, named |-> FALSE, allDay |-> FALSE, start |-> 1380, end |-> 420,
            before |-> <<1380, 420>>, days |-> 1 .. 5, zone |-> Here, error |-> FALSE]

PageInit ==
  /\ \E w \in Window : table = [id \in Id |-> IF id = 1 THEN w ELSE None]
  /\ given = 1 /\ attached \in {{}, {<<"tag", 1>>}}
  /\ cached = [windows |-> table, links |-> attached] /\ stale = {}
  /\ editor = NewForm
  /\ managing = [target |-> "none", add |-> {}, remove |-> {}]
  /\ requests = [m \in Source |-> Unasked]
  /\ acts = 0 /\ behind = {}

Room == acts < MaxActs
Act == Room /\ acts' = acts + 1

-----------------------------------------------------------------------------
(* What the pages show.                                                    *)

Windows == {id \in Id : Exists(id, cached.windows)}

\* getLocalTimeInTimezone, of the browser.
LocalMinute(t, w) == (t + w.ahead) % Day
LocalWeekday(t, w) == ((t + w.ahead) \div Day) % 7

FormIsAllDay(start, end) == start = 0 /\ end \in {0, Day}

\* Mutated IsIgnoreWindowActive: the morning belongs to its own day.
ActiveSameDay(w, t) ==
  /\ LocalWeekday(t, w) \in w.days
  /\ \/ FormIsAllDay(w.start, w.end)
     \/ w.start < w.end /\ LocalMinute(t, w) \in w.start .. w.end - 1
     \/ w.start > w.end /\ LocalMinute(t, w) \notin w.end .. w.start - 1

\* isIgnoreWindowActive: by day, all day, or an evening and the morning after.
IsIgnoreWindowActive(w, t) ==
  LET today == LocalWeekday(t, w) \in w.days
      yesterday == (LocalWeekday(t, w) + 6) % 7 \in w.days
      minute == LocalMinute(t, w)
  IN \/ today /\ FormIsAllDay(w.start, w.end)
     \/ today /\ w.start < w.end /\ minute \in w.start .. w.end - 1
     \/ /\ w.start > w.end /\ ~FormIsAllDay(w.start, w.end)
        /\ (today /\ minute >= w.start) \/ (yesterday /\ minute < w.end)

\* getIgnoreWindowsForFeed, getIgnoreWindowsForTag.
BadgesOf(targets) == {id \in Windows : \E g \in targets : <<g, id>> \in cached.links}

\* A badge is yellow, with a sleeping face, while its window is active.
Badge(id, t) ==
  [window |-> cached.windows[id],
   variant |-> IF IsIgnoreWindowActive(cached.windows[id], t) THEN "warning" ELSE "neutral"]

FeedBadges(t) == {Badge(id, t) : id \in BadgesOf(Target)}
TagBadges == {cached.windows[id] : id \in BadgesOf({"tag"})}

\* formatDaysOfWeek, formatTimeRange; a row of the table, wide or narrow.
Days(w) == IF w.days = 0 .. 6 THEN "Every day" ELSE w.days
TimeRange(w) == IF FormIsAllDay(w.start, w.end) THEN "All day (24h)" ELSE <<w.start, w.end>>
Idle(m) == requests[m].phase = "idle"
Row(id) ==
  LET w == cached.windows[id]
  IN [days |-> Days(w), range |-> TimeRange(w), zone |-> w.ahead,
      buttons |-> IF Idle("delete") THEN {"Edit", "Delete"} ELSE {}]

Reachable == editor.open = Closed /\ managing.target = "none"

-----------------------------------------------------------------------------
(* AddIgnoreWindowModal.                                                   *)

\* The effect on opening: the form is filled anew.
Filled(id) ==
  IF id = Adding THEN [NewForm EXCEPT !.open = id]
  ELSE LET w == cached.windows[id]
           allDay == FormIsAllDay(w.start, w.end)
       IN [open |-> id, named |-> TRUE, allDay |-> allDay, start |-> w.start, end |-> w.end,
           before |-> IF allDay THEN <<1380, 420>> ELSE <<w.start, w.end>>,
           days |-> w.days, zone |-> w.ahead, error |-> FALSE]

OpenEditor(id) ==
  /\ Reachable /\ Room /\ (id \in Windows => "Edit" \in Row(id).buttons)
  /\ id \in Windows \cup {Adding}
  /\ editor' = Filled(id)
  /\ UNCHANGED <<loop, database, queries, managing, requests, acts, behind>>

\* Cancel, Escape, or a click beside it, also while it is being saved.
CloseEditor ==
  /\ editor.open # Closed /\ Room
  /\ editor' = [editor EXCEPT !.open = Closed]
  /\ UNCHANGED <<loop, database, queries, managing, requests, acts, behind>>

Edit(form) ==
  /\ editor.open # Closed /\ Act
  /\ editor' = form /\ editor' # editor
  /\ UNCHANGED <<loop, database, queries, managing, requests, behind>>

\* To enter a first name costs no act.
EnterName ==
  /\ editor.open # Closed /\ ~editor.named /\ Room
  /\ editor' = [editor EXCEPT !.named = TRUE]
  /\ UNCHANGED <<loop, database, queries, managing, requests, acts, behind>>

ClearName == editor.named /\ Edit([editor EXCEPT !.named = FALSE])

PickDays == \E days \in {0 .. 6, 1 .. 5, {0, 6}} : Edit([editor EXCEPT !.days = days])

ToggleDay ==
  \E d \in 0 .. 6 :
    Edit([editor EXCEPT !.days = IF d \in @ THEN @ \ {d} ELSE @ \cup {d}])

\* The times of before come back, but for those that were blank.
ToggleAllDay ==
  Edit(IF editor.allDay
       THEN [editor EXCEPT !.allDay = FALSE,
               !.start = IF editor.before[1] = Blank THEN 1380 ELSE editor.before[1],
               !.end = IF editor.before[2] = Blank THEN 420 ELSE editor.before[2]]
       ELSE [editor EXCEPT !.allDay = TRUE, !.start = 0, !.end = Day,
               !.before = <<editor.start, editor.end>>])

TimesEnabled == ~editor.allDay

EnterTime ==
  /\ TimesEnabled
  /\ \E at \in Clock \cup {Blank} :
       Edit([editor EXCEPT !.start = at]) \/ Edit([editor EXCEPT !.end = at])

AvailableTimezones == Zone \cup {editor.zone}

PickZone == \E z \in AvailableTimezones : Edit([editor EXCEPT !.zone = z])

IsValid == editor.named /\ editor.start # Blank /\ editor.end # Blank /\ editor.days # {}

EditorButtons == {"Cancel"} \cup {b \in {"Save"} : IsValid /\ Idle("save")}

\* What the form stands for.
Entered ==
  [start |-> IF editor.allDay THEN 0 ELSE editor.start,
   end |-> IF editor.allDay THEN Day ELSE editor.end,
   days |-> editor.days, ahead |-> editor.zone]

Send(m, request) == requests' = [requests EXCEPT ![m] = [request EXCEPT !.phase = "sent"]]

HandleSubmit ==
  /\ editor.open # Closed /\ "Save" \in EditorButtons /\ Act
  /\ Send("save", [Unasked EXCEPT !.id = editor.open, !.window = Entered])
  /\ UNCHANGED <<loop, database, queries, editor, managing, behind>>

\* handleDelete asks first.
HandleDelete(id) ==
  /\ Reachable /\ id \in Windows /\ "Delete" \in Row(id).buttons /\ Act
  /\ Send("delete", [Unasked EXCEPT !.id = id])
  /\ UNCHANGED <<loop, database, queries, editor, managing, behind>>

-----------------------------------------------------------------------------
(* ManageIgnoreWindowsModal.                                               *)

OpenManage(target) ==
  /\ Reachable /\ Room
  /\ managing' = [target |-> target, add |-> {}, remove |-> {}]
  /\ UNCHANGED <<loop, database, queries, editor, requests, acts, behind>>

CloseManage ==
  /\ managing.target # "none" /\ Room
  /\ managing' = [managing EXCEPT !.target = "none"]
  /\ UNCHANGED <<loop, database, queries, editor, requests, acts, behind>>

\* A row of the list of windows and its two buttons.
ToggleAddWindow(id) ==
  /\ managing.target # "none" /\ id \in Windows /\ Act
  /\ managing' = IF id \in managing.add THEN [managing EXCEPT !.add = @ \ {id}]
                 ELSE [managing EXCEPT !.add = @ \cup {id}, !.remove = @ \ {id}]
  /\ UNCHANGED <<loop, database, queries, editor, requests, behind>>

ToggleRemoveWindow(id) ==
  /\ managing.target # "none" /\ id \in Windows /\ Act
  /\ managing' = IF id \in managing.remove THEN [managing EXCEPT !.remove = @ \ {id}]
                 ELSE [managing EXCEPT !.remove = @ \cup {id}, !.add = @ \ {id}]
  /\ UNCHANGED <<loop, database, queries, editor, requests, behind>>

ManageButtons ==
  {"Cancel"} \cup {b \in {"Save"} : /\ Idle(managing.target)
                                    /\ managing.add \cup managing.remove # {}}

HandleManage ==
  /\ managing.target # "none" /\ "Save" \in ManageButtons /\ Act
  /\ Send(managing.target, [Unasked EXCEPT !.add = managing.add, !.remove = managing.remove])
  /\ UNCHANGED <<loop, database, queries, editor, managing, behind>>

-----------------------------------------------------------------------------
(* The server.                                                             *)

Done(m) == requests' = [requests EXCEPT ![m].phase = "done"]

\* IgnoreWindowsCreate, IgnoreWindowsUpdate.  Start and end may not be the
\* same, which the form lets through.
Acceptable(w) == (w.start = w.end => w.start = 0) /\ w.days # {}

SaveWindow ==
  LET r == requests["save"]
      id == IF r.id = Adding THEN given + 1 ELSE r.id
  IN /\ r.phase = "sent" /\ Acceptable(r.window)
     /\ IF r.id = Adding THEN given < MaxId ELSE Exists(id, table)
     /\ table' = [table EXCEPT ![id] = r.window]
     /\ given' = IF r.id = Adding THEN id ELSE given
     /\ Done("save")
     /\ UNCHANGED <<loop, attached, queries, editor, managing, acts, behind>>

\* With what attached it.
DeleteWindow ==
  LET id == requests["delete"].id
  IN /\ requests["delete"].phase = "sent"
     /\ table' = [table EXCEPT ![id] = None]
     /\ attached' = {l \in attached : l[2] # id}
     /\ Done("delete")
     /\ UNCHANGED <<loop, given, queries, editor, managing, acts, behind>>

\* FeedIgnoreWindowsManage, TagIgnoreWindowsManage; a window that is gone
\* fails the transaction.
ManageWindows(m) ==
  LET r == requests[m]
  IN /\ m \in Target /\ r.phase = "sent" /\ \A id \in r.add : Exists(id, table)
     /\ attached' = (attached \ ({m} \X r.remove)) \cup ({m} \X r.add)
     /\ Done(m)
     /\ UNCHANGED <<loop, table, given, queries, editor, managing, acts, behind>>

Refuse(m) ==
  /\ requests[m].phase = "sent"
  /\ requests' = [requests EXCEPT ![m].phase = "refused"]
  /\ UNCHANGED <<loop, database, queries, editor, managing, acts, behind>>

-----------------------------------------------------------------------------
(* Answers.                                                                *)

\* What a request changes, all of which it invalidates.
Told(m) ==
  CASE m = "save" -> {"ignore-windows"}
    [] m = "delete" -> Query
    [] m \in Target -> {m}

\* handleSave of both dialogs closes the one that is open by now.
Answered(m) ==
  /\ requests[m].phase = "done"
  /\ stale' = stale \cup Told(m) /\ behind' = behind \ Told(m)
  /\ editor' = IF m = "save" THEN [editor EXCEPT !.open = Closed] ELSE editor
  /\ managing' = IF m = managing.target THEN [target |-> "none", add |-> {}, remove |-> {}]
                 ELSE managing
  /\ requests' = [requests EXCEPT ![m] = Unasked]
  /\ UNCHANGED <<loop, database, cached, acts>>

\* An error, or the answer is lost.
Failed(m) ==
  /\ requests[m].phase \in {"done", "refused"}
  /\ editor' = IF m = "save" /\ editor.open # Closed THEN [editor EXCEPT !.error = TRUE]
               ELSE editor
  /\ behind' = IF requests[m].phase = "done" THEN behind \cup Told(m) ELSE behind
  /\ requests' = [requests EXCEPT ![m] = Unasked]
  /\ UNCHANGED <<loop, database, queries, managing, acts>>

Load(q) ==
  /\ q \in stale
  /\ stale' = stale \ {q}
  /\ cached' = [windows |-> IF q = "ignore-windows" THEN table ELSE cached.windows,
                links |-> {l \in cached.links : l[1] # q} \cup {l \in attached : l[1] = q}]
  /\ UNCHANGED <<loop, database, editor, managing, requests, acts, behind>>

PageNext ==
  \/ \E id \in Id \cup {Adding} : OpenEditor(id)
  \/ CloseEditor \/ EnterName \/ ClearName \/ PickDays \/ ToggleDay \/ ToggleAllDay \/ EnterTime \/ PickZone
  \/ HandleSubmit \/ CloseManage \/ HandleManage \/ SaveWindow \/ DeleteWindow
  \/ \E id \in Id : HandleDelete(id) \/ ToggleAddWindow(id) \/ ToggleRemoveWindow(id)
  \/ \E target \in Target : OpenManage(target)
  \/ \E m \in Source : ManageWindows(m) \/ Refuse(m) \/ Answered(m) \/ Failed(m)
  \/ \E q \in Query : Load(q)

PageSpec == PageInit /\ [][PageNext]_pageVars

-----------------------------------------------------------------------------
(* Properties.                                                             *)

\* ListActiveIgnoreWindowsForFeed, all of which AdjustNextFetch is given.
Enforced == {table[id] : id \in {i \in Id : \E g \in Target : <<g, i>> \in attached}}

\* Once every request is answered and every query has loaded, the list of
\* feeds shows just the windows the scheduler is given for the feed, and as
\* active those the scheduler would put a fetch off for, for every kind of
\* window that users enter: two implementations agree (ignore_window.go:21,
\* ignore-window-db.ts:200).
WindowShownAsEnforced ==
  stale = {} /\ behind = {} /\ (\A m \in Source : Idle(m)) =>
    \A t \in Instant :
      FeedBadges(t) = {[window |-> w, variant |-> IF Ignored(t, w) THEN "warning" ELSE "neutral"] :
                         w \in Enforced}
=============================================================================

------------------------------ MODULE Widgets ------------------------------
(***************************************************************************)
(* What the pages are built of: the modal dialog with its trap for the     *)
(* focus (frontend/src/components/ui/Modal.tsx), the menu behind three     *)
(* dots (ui/KebabMenu.tsx) as the item dialog uses it, the toasts          *)
(* (lib/toast-store.ts, toast.tsx), the list of chips that scrolls         *)
(* (ui/HorizontalScrollList.tsx) and the item list's menu on narrow        *)
(* screens (ItemList.tsx).                                                 *)
(***************************************************************************)
EXTENDS Integers, FiniteSets, Sequences

CONSTANTS MaxToasts,  \* bound on the toasts of a behaviour
          Width       \* of all chips, in units of which one is visible

VARIABLES dialog,     \* "mounted" until the microtask that calls showModal
          focus,      \* document.activeElement
          refocus,    \* a microtask of focusPanel is pending
          menu,       \* isOpen of the kebab menu
          index,      \* focusedIndex
          toasts,     \* globalToasts: [id, type]
          timers,     \* toasts whose five seconds are running
          shows,      \* toasts shown so far
          block,      \* blockMutation
          more,       \* showMoreActions
          width,      \* scrollWidth of the chips, which are loaded in time
          scroll,     \* their scrollLeft
          arrows,     \* showLeftArrow, showRightArrow
          copy        \* a feed's button "Copy URL": its icon, and what the
                      \* timers under way set it back to

shell == <<dialog, focus, refocus>>
kebab == <<menu, index>>
tray == <<toasts, timers, shows>>
chips == <<width, scroll, arrows>>
vars == <<shell, kebab, tray, block, more, chips, copy>>

\* The focus: on the page, on the dialog's panel, or on one of what the
\* dialog lets Tab reach: the title, the dots, the round button, and at the
\* end, where the portal puts it, the menu.
Page == -1
Panel == 0
Dots == 2
Controls == 3
Action == <<"block domain", "close">>
Actions == 2
Focusables == Controls + (IF menu THEN Actions ELSE 0)

TypeOK ==
  /\ dialog \in {"closed", "mounted", "modal"} /\ refocus \in BOOLEAN
  /\ focus \in Page .. Focusables
  /\ menu \in BOOLEAN /\ index \in -1 .. Actions - 1
  /\ toasts \subseteq [id : 1 .. MaxToasts, type : {"success", "error"}]
  /\ timers \subseteq 1 .. MaxToasts /\ shows \in 0 .. MaxToasts
  /\ block \in {"idle", "sent"} /\ more \in BOOLEAN
  /\ width \in {1, Width} /\ scroll \in 0 .. width - 1
  /\ arrows \in [left : BOOLEAN, right : BOOLEAN]
  /\ copy.icon \in {"copy", "check"} /\ Len(copy.back) <= 2

\* checkScroll.
Arrows(at) == [left |-> at > 0, right |-> at < width - 1]

Init ==
  /\ dialog = "closed" /\ focus = Page /\ refocus = FALSE
  /\ menu = FALSE /\ index = -1
  /\ toasts = {} /\ timers = {} /\ shows = 0 /\ block = "idle"
  /\ more = FALSE /\ width = 1 /\ scroll = 0 /\ arrows = Arrows(0)
  /\ copy = [icon |-> "copy", back |-> <<>>]

-----------------------------------------------------------------------------
(* The dialog.                                                             *)

\* The page below is inert, what it has open stays so, but for the menu a
\* click on a row is outside of.
OpenDialog ==
  /\ dialog = "closed"
  /\ dialog' = "mounted" /\ refocus' = TRUE /\ more' = FALSE
  /\ UNCHANGED <<focus, kebab, tray, block, chips, copy>>

ShowModal ==
  /\ dialog = "mounted" /\ dialog' = "modal"
  /\ UNCHANGED <<focus, refocus, kebab, tray, block, more, chips, copy>>

\* It does nothing before showModal.
FocusPanel ==
  /\ refocus /\ dialog # "mounted"
  /\ refocus' = FALSE
  /\ focus' = IF dialog = "modal" THEN Panel ELSE focus
  /\ UNCHANGED <<dialog, kebab, tray, block, more, chips, copy>>

\* The dialog is unmounted, with the menu in it.
Closed ==
  /\ dialog' = "closed" /\ focus' = Page
  /\ menu' = FALSE /\ index' = -1

\* handleCancel: the browser's Escape, which closes an open menu, too.
Cancel ==
  /\ dialog = "modal" /\ Closed
  /\ UNCHANGED <<refocus, tray, block, more, chips, copy>>

\* handleBackdropClick: beside the panel.
BackdropClick ==
  /\ dialog = "modal" /\ Closed
  /\ UNCHANGED <<refocus, tray, block, more, chips, copy>>

\* The item changes: focusKey, and toast.clear, which leaves timers alone.
ItemChanges ==
  /\ dialog = "modal"
  /\ refocus' = TRUE /\ toasts' = {}
  /\ UNCHANGED <<dialog, focus, kebab, timers, shows, block, more, chips, copy>>

\* Mutated TabTo: the end does not lead to the beginning.
TabOut(shift) ==
  IF shift THEN (IF focus <= 0 THEN Focusables ELSE focus - 1)
  ELSE focus + 1

\* Tab, where a browser begins with the first one, and Shift-Tab.
TabTo(shift) ==
  IF shift THEN (IF focus \in {Page, Panel, 1} THEN Focusables ELSE focus - 1)
  ELSE IF focus \in {Page, Panel, Focusables} THEN 1 ELSE focus + 1

Tab ==
  /\ dialog = "modal"
  /\ \E shift \in BOOLEAN : focus' = TabTo(shift)
  /\ UNCHANGED <<dialog, refocus, kebab, tray, block, more, chips, copy>>

-----------------------------------------------------------------------------
(* The menu behind the dots.                                               *)

\* A click on the dots.
Toggle ==
  /\ dialog = "modal"
  /\ menu' = ~menu /\ index' = IF menu THEN index ELSE -1
  /\ focus' = Dots
  /\ UNCHANGED <<dialog, refocus, tray, block, more, chips, copy>>

\* Enter or Space on the dots: the key opens the menu, the click it stands for
\* then toggles it.
PressDots ==
  /\ dialog = "modal" /\ focus = Dots
  /\ menu' = FALSE /\ index' = IF menu THEN index ELSE -1
  /\ UNCHANGED <<shell, tray, block, more, chips, copy>>

ArrowTo(key) ==
  CASE key = "ArrowDown" -> (index + 1) % Actions
    [] key = "ArrowUp" -> (index - 1 + Actions) % Actions
    [] key = "Home" -> 0
    [] key = "End" -> Actions - 1

Arrow ==
  /\ dialog = "modal" /\ menu
  /\ \E key \in {"ArrowDown", "ArrowUp", "Home", "End"} : index' = ArrowTo(key)
  /\ focus' = Controls + 1 + index'
  /\ UNCHANGED <<dialog, refocus, menu, tray, block, more, chips, copy>>

\* handleClickOutside.  The panel takes the focus.
ClickOutside ==
  /\ dialog = "modal" /\ menu
  /\ menu' = FALSE /\ focus' = Panel
  /\ UNCHANGED <<dialog, refocus, index, tray, block, more, chips, copy>>

\* An action of the menu; its button goes, and with it the focus.
Choose(k) ==
  /\ dialog = "modal" /\ menu
  /\ \/ /\ Action[k] = "close" /\ Closed /\ UNCHANGED block
     \/ /\ Action[k] = "block domain" /\ block = "idle"
        /\ block' = "sent" /\ menu' = FALSE /\ focus' = Page
        /\ UNCHANGED <<dialog, index>>
  /\ UNCHANGED <<refocus, tray, more, chips, copy>>

-----------------------------------------------------------------------------
(* Toasts.                                                                 *)

\* toast.show.
Show(type) ==
  /\ shows < MaxToasts
  /\ toasts' = toasts \cup {[id |-> shows + 1, type |-> type]}
  /\ timers' = timers \cup {shows + 1}
  /\ shows' = shows + 1

\* The answer to blockMutation, whatever is on the screen by then.
Blocked ==
  /\ block = "sent" /\ block' = "idle"
  /\ \E type \in {"success", "error"} : Show(type)
  /\ UNCHANGED <<shell, kebab, more, chips, copy>>

Without(id) == {t \in toasts : t.id # id}

Expire(id) ==
  /\ id \in timers /\ timers' = timers \ {id}
  /\ toasts' = Without(id)
  /\ UNCHANGED <<shell, kebab, shows, block, more, chips, copy>>

\* The button on it, which is out of the dialog's reach where the toast is not
\* in the dialog.
Dismiss(id) ==
  /\ \E t \in toasts : t.id = id
  /\ toasts' = Without(id)
  /\ UNCHANGED <<shell, kebab, timers, shows, block, more, chips, copy>>

-----------------------------------------------------------------------------
(* The page below the dialog.                                              *)

\* The tags arrive; nothing looks at the arrows again.
ChipsLoad ==
  /\ width = 1 /\ width' = Width
  /\ UNCHANGED <<shell, kebab, tray, block, more, scroll, arrows, copy>>

\* An arrow, or the wheel.
Scroll(at) ==
  /\ dialog = "closed" /\ at # scroll /\ at < width
  /\ scroll' = at /\ arrows' = Arrows(at)
  /\ UNCHANGED <<shell, kebab, tray, block, more, width, copy>>

\* The button of the narrow screen.
More ==
  /\ dialog = "closed" /\ more' = ~more
  /\ UNCHANGED <<shell, kebab, tray, block, chips, copy>>

\* "Clear Read Items" of that menu, and a click outside of it; its boxes leave
\* it open.
MoreCloses ==
  /\ dialog = "closed" /\ more /\ more' = FALSE
  /\ UNCHANGED <<shell, kebab, tray, block, chips, copy>>

\* FeedList: the button shows a tick, and two seconds later what it showed
\* before, which after a second click is the tick.
CopyUrl ==
  /\ dialog = "closed" /\ Len(copy.back) < 2
  /\ copy' = [icon |-> "check", back |-> Append(copy.back, copy.icon)]
  /\ UNCHANGED <<shell, kebab, tray, block, more, chips>>

CopyTimer ==
  /\ copy.back # <<>>
  /\ copy' = [icon |-> Head(copy.back), back |-> Tail(copy.back)]
  /\ UNCHANGED <<shell, kebab, tray, block, more, chips>>

Next ==
  \/ OpenDialog \/ ShowModal \/ FocusPanel \/ Cancel \/ BackdropClick \/ ItemChanges \/ Tab
  \/ Toggle \/ PressDots \/ Arrow \/ ClickOutside \/ Blocked \/ More \/ MoreCloses \/ ChipsLoad
  \/ CopyUrl \/ CopyTimer
  \/ \E k \in 1 .. Actions : Choose(k)
  \/ \E id \in 1 .. MaxToasts : Expire(id) \/ Dismiss(id)
  \/ \E at \in 0 .. Width - 1 : Scroll(at)

Spec == Init /\ [][Next]_vars
=============================================================================

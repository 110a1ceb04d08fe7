------------------------------- MODULE MCPages -------------------------------
(* The pages of the frontend and what they are built of.  One of the       *)
(* machines moves in a behaviour; they share nothing that is kept.  All    *)
(* but the widgets are this module's own.                                  *)
EXTENDS ItemDetail, FeedsPage, Gesture, RulesPage

\* Of Widgets.
CONSTANTS MaxToasts, Width

ASSUME WidgetAssumption == MaxToasts \in Nat /\ Width \in Nat \ {0}

VARIABLES
  mover,
  \* Widgets
  modal, focus, refocus, menu, index, toasts, timers, shows, block, more, width, scroll,
  arrows, copy

widgetVars ==
  <<modal, focus, refocus, menu, index, toasts, timers, shows, block, more, width, scroll,
    arrows, copy>>
all == <<mover, itemVars, touchVars, widgetVars, vars, ruleVars>>

\* Three items, the first too old for the list as it begins, the last one not
\* there yet.
MCItem == 1 .. 3
MCTagged == [t \in {"A"} |-> {2, 3}]
MCHas == <<{"url", "picture"}, {"url", "author", "published"}, {}>>

\* Fingers that move within, across and beyond the hook's limits.
MCSpot == {-3, 0, 1, 3}

Parts == INSTANCE Widgets WITH dialog <- modal

\* An item whose second version has the keyword, and a file with a row of each
\* kind: right, wrong, and completed by the parser.
MCMentions == {<<1, 2>>}
Line(type) == [type |-> type, value |-> TRUE, domain |-> "", extra |-> FALSE]
MCCsvRow == {Line("keyword"), Line("user_domain"), Line("domain")}

\* The variables of widgets that do not move.
NoWidgets ==
  /\ modal = 0 /\ focus = 0 /\ refocus = 0 /\ menu = 0 /\ index = 0 /\ toasts = 0
  /\ timers = 0 /\ shows = 0 /\ block = 0 /\ more = 0 /\ width = 0 /\ scroll = 0
  /\ arrows = 0 /\ copy = 0

MCInit ==
  /\ mover \in {"items", "touch", "widgets", "feeds", "rules"}
  /\ ItemsInit
  /\ TouchInit /\ (mover = "touch" \/ (~disabled /\ ways = {}))
  /\ IF mover = "widgets" THEN Parts!Init ELSE NoWidgets
  /\ Init /\ (mover = "feeds" \/ used.feeds = 0)
  /\ RulesPageInit /\ (mover = "rules" \/ urlRules = {})

MCNext ==
  \/ mover = "items" /\ ItemsNext
     /\ UNCHANGED <<mover, touchVars, widgetVars, vars, ruleVars>>
  \/ mover = "touch" /\ TouchNext
     /\ UNCHANGED <<mover, itemVars, widgetVars, vars, ruleVars>>
  \/ mover = "widgets" /\ Parts!Next
     /\ UNCHANGED <<mover, itemVars, touchVars, vars, ruleVars>>
  \/ mover = "feeds" /\ Next
     /\ UNCHANGED <<mover, itemVars, touchVars, widgetVars, ruleVars>>
  \/ mover = "rules" /\ RulesPageNext
     /\ UNCHANGED <<mover, itemVars, touchVars, widgetVars, vars>>

MCSpec == MCInit /\ [][MCNext]_all

-----------------------------------------------------------------------------

\* Each variable of each page has its type.
TypesOK ==
  CASE mover = "items" -> ItemsTypeOK
    [] mover = "touch" -> TouchTypeOK
    [] mover = "widgets" -> Parts!TypeOK
    [] mover = "feeds" -> TypeOK
    [] mover = "rules" -> RulesPageTypeOK
=============================================================================

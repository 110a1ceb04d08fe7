----------------------------- MODULE MCSchedule -----------------------------
(* When a feed is fetched next: the interval, the windows it is moved out  *)
(* of, and the pages that manage the windows.  One of the three moves in a *)
(* behaviour.                                                              *)
EXTENDS IgnoreWindowsPage, AdaptiveInterval

W(start, end, days, ahead) ==
  [start |-> start, end |-> end, days |-> days, ahead |-> ahead]

\* By day, overnight, all day in both notations, in three zones, and two that
\* together cover everything.
MCWindow ==
  {W(540, 1020, {0, 1, 2}, 0), W(1380, 420, {0, 1}, 540),
   W(0, 1440, {1}, -300), W(0, 0, {2}, 0),
   W(300, 240, 0 .. 6, 0), W(240, 300, 0 .. 6, 0)}

MCZone == {0, -300}

MCInstant == {0, 540, 1439, 2500, 2879, 10079}

MCItem == 1 .. 3
MCDated == {1, 2}

VARIABLE mover

all == <<mover, loop, pageVars, feedVars>>

\* The window that is there first is all day; a new one begins overnight.
MCInit ==
  /\ mover \in {"interval", "loop", "page"}
  /\ IntervalInit
  /\ IF mover = "loop" THEN Init
     ELSE asked = 0 /\ windows = {} /\ current = 0 /\ passes = 0 /\ done = TRUE
  /\ PageInit /\ attached # {} /\ table[1] = W(0, 0, {2}, 0)

MCNext ==
  \/ mover = "interval" /\ IntervalNext /\ UNCHANGED <<mover, loop, pageVars>>
  \/ mover = "loop" /\ Next /\ UNCHANGED <<mover, pageVars, feedVars>>
  \/ mover = "page" /\ PageNext /\ UNCHANGED <<mover, feedVars>>

MCSpec == MCInit /\ [][MCNext]_all /\ WF_vars(Next)
=============================================================================

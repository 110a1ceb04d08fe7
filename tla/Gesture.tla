------------------------------ MODULE Gesture ------------------------------
(***************************************************************************)
(* The swipes of the item dialog (frontend/src/lib/use-swipe.ts) with what *)
(* ItemDetailModal.tsx gives the hook.  Touches are events of the browser: *)
(* any finger may come, move, go or be cancelled, and every one that goes  *)
(* is a touchend.  Positions are in units of 50 px, so that the hook's     *)
(* tolerance of 50 px across the direction is one unit and the threshold   *)
(* of 100 px two.                                                          *)
(***************************************************************************)
EXTENDS Integers

CONSTANT Spot        \* where a finger may be, in x and in y

\* Positions are numbers, and a touch begins at the origin.
ASSUME TouchAssumption == Spot \subseteq Int /\ 0 \in Spot

VARIABLES fingers,   \* e.touches.length
          finger,    \* where the first finger is
          start,     \* startX, startY
          x, y,      \* the displacement of the container
          swiping,   \* isSwiping; its signal is that of ~cancelled, too
          cancelled, \* isCancelled
          direction,
          low,       \* where the touch began: touchStartY against two marks
          disabled,  \* for good, if the dialog was opened at the end of the list
          ways,      \* what the item allows: onSwipeLeft, Right, Up
          fired      \* history: the swipes since the screen was last clear

touch == <<fingers, finger, start, low>>
touchVars == <<touch, x, y, swiping, cancelled, direction, disabled, ways, fired>>

Threshold == 2
Tolerance == 1
Way == {"left", "right", "up"}
Apart == {p - q : p, q \in Spot}
Origin == [x |-> 0, y |-> 0]
Abs(n) == IF n < 0 THEN 0 - n ELSE n

TouchTypeOK ==
  /\ fingers \in 0 .. 2
  /\ finger \in [x : Spot, y : Spot] /\ start \in [x : Spot, y : Spot]
  /\ x \in Apart /\ y \in Apart
  /\ swiping \in BOOLEAN /\ cancelled \in BOOLEAN
  /\ direction \in {"none", "horizontal", "vertical"}
  /\ low \in {"above", "lower 30%", "lowest 10%"}
  /\ disabled \in BOOLEAN /\ ways \in SUBSET Way /\ fired \in 0 .. 2

TouchInit ==
  /\ fingers = 0 /\ finger = Origin /\ start = Origin
  /\ x = 0 /\ y = 0 /\ swiping = FALSE /\ cancelled = FALSE /\ direction = "none"
  /\ low = "above" /\ disabled \in BOOLEAN /\ ways \in SUBSET Way /\ fired = 0

-----------------------------------------------------------------------------

\* A finger comes down.  The second one is ignored.
TouchStart ==
  /\ fingers < 2
  /\ fingers' = fingers + 1
  /\ IF fingers = 0 /\ ~disabled
     THEN /\ finger' = Origin /\ start' = Origin
          /\ low' \in {"above", "lower 30%", "lowest 10%"}
          /\ swiping' = TRUE /\ cancelled' = FALSE /\ direction' = "none"
     ELSE UNCHANGED <<finger, start, low, swiping, cancelled, direction>>
  /\ fired' = IF fingers = 0 THEN 0 ELSE fired
  /\ UNCHANGED <<x, y, disabled, ways>>

\* The first movement decides on the direction.
Course(dx, dy) ==
  IF direction # "none" THEN direction
  ELSE IF dx = 0 /\ dy = 0 THEN "none"
  ELSE IF Abs(dx) > Abs(dy) THEN "horizontal" ELSE "vertical"

Astray(course, dx, dy) ==
  \/ course = "horizontal" /\ Abs(dy) > Tolerance
  \/ course = "vertical" /\ Abs(dx) > Tolerance

\* isAtTopBoundary, isAtBottomBoundary: the text is scrolled to that end, or
\* the touch began at the very bottom.  There are none to the left and right.
AtBoundary(dy, top, bottom) ==
  (dy > 0 /\ top) \/ (dy < 0 /\ (bottom \/ low = "lowest 10%"))

Horizontal(dx) ==
  /\ x' = dx
  /\ UNCHANGED <<y, swiping, cancelled, start>>

Vertical(dy, top, bottom) ==
  /\ IF AtBoundary(dy, top, bottom)
     THEN y' = dy /\ UNCHANGED start
     ELSE y' = 0 /\ start' = [start EXCEPT !.y = finger'.y]
  /\ UNCHANGED <<x, swiping, cancelled>>

TouchMove(px, py) ==
  LET dx == px - start.x
      dy == py - start.y
      course == Course(dx, dy)
  IN /\ fingers > 0 /\ finger' = [x |-> px, y |-> py] /\ finger' # finger
     /\ IF swiping /\ ~cancelled /\ fingers = 1
        THEN /\ direction' = course
             /\ IF Astray(course, dx, dy)
                THEN /\ cancelled' = TRUE
                     /\ x' = IF course = "horizontal" THEN 0 ELSE x
                     /\ y' = IF course = "vertical" THEN 0 ELSE y
                     /\ UNCHANGED <<swiping, start>>
                ELSE \/ course = "horizontal" /\ Horizontal(dx)
                     \/ /\ course = "vertical"
                        /\ \E top, bottom \in BOOLEAN : Vertical(dy, top, bottom)
                     \/ course = "none" /\ UNCHANGED <<x, y, swiping, cancelled, start>>
        ELSE UNCHANGED <<x, y, swiping, cancelled, direction, start>>
     /\ UNCHANGED <<fingers, low, disabled, ways, fired>>

\* Mutated Reset: only what is shown is reset.
ResetShown ==
  x' = 0 /\ y' = 0 /\ UNCHANGED <<swiping, cancelled, direction>>

Reset ==
  /\ x' = 0 /\ y' = 0 /\ swiping' = FALSE /\ direction' = "none"
  /\ UNCHANGED cancelled

\* The swipe a touchend completes; the one upwards must begin low.
Swiped ==
  {w \in ways : \/ w = "right" /\ direction = "horizontal" /\ x > Threshold
                \/ w = "left" /\ direction = "horizontal" /\ x < 0 - Threshold
                \/ w = "up" /\ direction = "vertical" /\ y < 0 - Threshold /\ low # "above"}

\* A finger goes; another item may allow other swipes.
TouchEnd ==
  /\ fingers > 0
  /\ fingers' = fingers - 1
  /\ IF swiping /\ ~cancelled /\ Swiped # {}
     THEN fired' = fired + 1 /\ ways' \in SUBSET Way
     ELSE UNCHANGED <<fired, ways>>
  /\ Reset
  /\ UNCHANGED <<finger, start, low, disabled>>

\* The browser takes some of them over.
TouchCancel ==
  /\ fingers' \in 0 .. fingers - 1
  /\ x' = 0 /\ y' = 0 /\ swiping' = FALSE /\ cancelled' = FALSE /\ direction' = "none"
  /\ UNCHANGED <<finger, start, low, disabled, ways, fired>>

TouchNext ==
  \/ TouchStart \/ TouchEnd \/ TouchCancel
  \/ \E px, py \in Spot : TouchMove(px, py)

TouchSpec == TouchInit /\ [][TouchNext]_touchVars

-----------------------------------------------------------------------------

\* However many fingers come and go, the dialog goes on by one item at most
\* before the screen is clear again, and the container is then where it was
\* (use-swipe.ts:102-135).
GestureOnce ==
  /\ fired <= 1
  /\ fingers = 0 => x = 0 /\ y = 0 /\ ~swiping
=============================================================================

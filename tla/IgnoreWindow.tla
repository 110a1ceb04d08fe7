---------------------------- MODULE IgnoreWindow ----------------------------
(***************************************************************************)
(* AdjustNextFetchForIgnoreWindows (ignore_window.go): the next fetch of a *)
(* feed is moved out of the windows in which its user does not want it     *)
(* fetched.  One step is one pass of the loop over the windows.            *)
(*                                                                         *)
(* An instant is a minute.  A window says at which minutes of the day it   *)
(* starts and ends, on which days of the week it starts, and how far its   *)
(* time zone is ahead; changes to summer time are not modelled.            *)
(***************************************************************************)
EXTENDS Integers

CONSTANTS Window,        \* the windows of all the feeds
          Instant,       \* the instants at which a fetch may come due
          MaxIterations  \* 500, the limit of the loop

Day == 1440

WindowRecord ==
  [start : 0 .. Day - 1, end : 0 .. Day, days : SUBSET (0 .. 6), ahead : Int]

\* What the handlers accept (handler.go).
ASSUME WindowAssumption ==
  \A w \in Window : /\ w \in WindowRecord
                    /\ w.start = w.end => w.start = 0

ASSUME LoopAssumption == Instant \subseteq Nat /\ MaxIterations \in Nat

VARIABLES asked,    \* the instant the interval gave
          windows,  \* those of the feed and of its tags
          current,
          passes,   \* of the loop
          done

vars == <<asked, windows, current, passes, done>>

-----------------------------------------------------------------------------
(* IsTimeInIgnoreWindow.                                                   *)

MinuteOfDay(t, w) == (t + w.ahead) % Day

Midnight(t, w) == t - MinuteOfDay(t, w)

Weekday(t, w) == ((t + w.ahead) \div Day) % 7

AllDay(w) == w.start = 0 /\ w.end \in {0, Day}

Overnight(w) == ~AllDay(w) /\ w.start > w.end

\* The part of a window that began on the day of t ...
BeganToday(t, w) ==
  /\ Weekday(t, w) \in w.days
  /\ \/ AllDay(w)
     \/ w.start <= MinuteOfDay(t, w) /\ MinuteOfDay(t, w) < w.end
     \/ Overnight(w) /\ w.start <= MinuteOfDay(t, w)

\* Mutated BeganYesterday: it looks at the day of t.
BeganYesterdayToday(t, w) ==
  /\ Overnight(w)
  /\ Weekday(t, w) \in w.days
  /\ MinuteOfDay(t, w) < w.end

\* ... and the morning of one that began on the day before.
BeganYesterday(t, w) ==
  /\ Overnight(w)
  /\ (Weekday(t, w) + 6) % 7 \in w.days
  /\ MinuteOfDay(t, w) < w.end

Ignored(t, w) == BeganToday(t, w) \/ BeganYesterday(t, w)

\* When an ignored t may be left.
WindowEnd(t, w) ==
  IF BeganToday(t, w) /\ AllDay(w) THEN Midnight(t, w) + Day
  ELSE IF BeganToday(t, w) /\ Overnight(w) THEN Midnight(t, w) + Day + w.end
  ELSE Midnight(t, w) + w.end

-----------------------------------------------------------------------------
(* AdjustNextFetchForIgnoreWindows.                                        *)

Active(t) == {w \in windows : Ignored(t, w)}

Init ==
  /\ asked \in Instant
  /\ windows \in SUBSET Window
  /\ current = asked
  /\ passes = 0 /\ done = FALSE

\* Mutated Advance: to the next midnight.
AdvanceNextDay ==
  /\ ~done /\ passes < MaxIterations
  /\ \E w \in Active(current) : current' = Midnight(current, w) + Day
  /\ passes' = passes + 1
  /\ UNCHANGED <<asked, windows, done>>

\* Mutated Advance: no repetition.
AdvanceOnce ==
  /\ ~done /\ passes < MaxIterations
  /\ \E w \in Active(current) : current' = WindowEnd(current, w)
  /\ passes' = MaxIterations
  /\ UNCHANGED <<asked, windows, done>>

\* A pass: current moves to the furthest end of the windows it is in.
Advance ==
  /\ ~done /\ passes < MaxIterations
  /\ \E w \in Active(current) :
       /\ \A v \in Active(current) : WindowEnd(current, v) <= WindowEnd(current, w)
       /\ current' = WindowEnd(current, w)
  /\ passes' = passes + 1
  /\ UNCHANGED <<asked, windows, done>>

\* No window is active.  (The code also leaves when the furthest end is not
\* after current: EndIsLater says that this is no case.)
Leave ==
  /\ ~done /\ passes < MaxIterations /\ Active(current) = {}
  /\ done' = TRUE
  /\ UNCHANGED <<asked, windows, current, passes>>

\* Mutated Exhausted: a limit that is never passed.
ExhaustedPast ==
  /\ ~done /\ passes > MaxIterations
  /\ done' = TRUE
  /\ UNCHANGED <<asked, windows, current, passes>>

Exhausted ==
  /\ ~done /\ passes = MaxIterations
  /\ done' = TRUE
  /\ UNCHANGED <<asked, windows, current, passes>>

Next == Advance \/ Leave \/ Exhausted

Spec == Init /\ [][Next]_vars

FairSpec == Spec /\ WF_vars(Next)

-----------------------------------------------------------------------------
(* A window as a user understands it: on each of its days it lasts from    *)
(* its start for its length.                                               *)

Length(w) == IF AllDay(w) THEN Day
             ELSE IF w.start < w.end THEN w.end - w.start
             ELSE Day - w.start + w.end

\* The days d, counted from the first one, of which the window covers t.
Covers(t, w, d) ==
  /\ d % 7 \in w.days
  /\ d * Day + w.start <= t + w.ahead
  /\ t + w.ahead < d * Day + w.start + Length(w)

\* Only the day of t and the day before it can cover t.
Covered(t, w) ==
  \E d \in {(t + w.ahead) \div Day, (t + w.ahead) \div Day - 1} : Covers(t, w, d)

CoveredNow(t) == \E w \in windows : Covered(t, w)

-----------------------------------------------------------------------------
(* Properties.                                                             *)

TypeOK ==
  /\ asked \in Instant
  /\ windows \subseteq Window
  /\ current \in Int
  /\ passes \in 0 .. MaxIterations
  /\ done \in BOOLEAN

\* A fetch is only put off while a window covers the time: no instant between
\* the one the interval gave and the adjusted one was free
\* (ignore_window.go:159-161).
OnlyCoveredSkipped ==
  /\ asked <= current
  /\ \A t \in asked .. current - 1 : CoveredNow(t)

\* What the loop finds free is free, for every zone, length and overnight
\* window: the adjusted instant is the first one outside all the windows.
LeavesAtFreeInstant == done /\ passes < MaxIterations => ~CoveredNow(current)

\* The ends of active windows are later than current: the loop's own check of
\* this (ignore_window.go:188) never stops it.
EndIsLater == \A w \in Active(current) : WindowEnd(current, w) > current

\* If the coming week has a free instant, the loop's limit does not keep the
\* result from being free.
FreeWhenWeekHasFree ==
  done /\ (\E t \in asked .. asked + 7 * Day - 1 : ~CoveredNow(t))
    => ~CoveredNow(current)

\* The limit stops the loop when the windows cover everything.
LoopEnds == <>done
=============================================================================

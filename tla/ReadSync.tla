------------------------------ MODULE ReadSync ------------------------------
(***************************************************************************)
(* The read state of items in a browser (frontend/src/lib/item-read-db.ts, *)
(* item-db.ts) and on the server.  The browser polls for the rows of       *)
(* item_reads changed since an anchor, page by page, merges them into its  *)
(* copy and moves the anchor to the newest change it has seen; its own     *)
(* changes show at once and are undone when the server refuses them.       *)
(* Other browsers change the same rows.  Polls are run by a query cache    *)
(* (TanStack Query, external): at most one counts, a cancelled one runs on *)
(* to its end but its result is dropped.                                   *)
(*                                                                         *)
(* Time is in the seconds of the column updated_at.                        *)
(***************************************************************************)
EXTENDS Integers, FiniteSets, FiniteSetsExt

CONSTANTS Item,        \* ids of items, ordered as the database orders them
          CreatedAt,   \* when each item is created
          Poll,        \* runs of queryFn that may overlap
          Op,          \* updates made in this browser
          Marked,      \* the items they are about
          PageSize,    \* rows of one answer, 1000 in the code
          Overlap,     \* overlapMs of item-db.ts
          MaxTime      \* bound on the clock

ASSUME ReadSyncAssumption ==
  /\ Item \subseteq Nat \ {0} /\ IsFiniteSet(Item)
  /\ CreatedAt \in [Item -> 0 .. MaxTime]
  /\ Marked \subseteq Item
  /\ PageSize \in Nat \ {0} /\ Overlap \in Nat /\ MaxTime \in Nat

VARIABLES now,
          server,      \* item_reads: [is, at], at is updated_at
          items,       \* isRead of the items in the list, "none" if not there
          itemsSince,  \* lastFetchedMap, 0 before the first answer
          anchor,      \* lastReadFetched
          reads,       \* query data of ["item-reads"]
          polls,       \* each run of its queryFn
          ops,         \* each run of updateItemReadStatus
          disturbed    \* history: see Properties

listVars == <<items, itemsSince>>
vars == <<now, server, listVars, anchor, reads, polls, ops, disturbed>>

State == {"read", "unread"}
Time == 0 .. MaxTime
NoAnchor == -1
Copy == [Item -> State \cup {"none"}]
Row == [is : State, at : Time]
Empty == [i \in Item |-> "none"]

IdlePoll == [phase |-> "idle", current |-> FALSE, since |-> NoAnchor,
             cursor |-> <<NoAnchor, 0>>, newest |-> NoAnchor, copy |-> Empty]

TypeOK ==
  /\ now \in Time
  /\ server \in [Item -> Row]
  /\ items \in Copy /\ itemsSince \in Time
  /\ anchor \in Time \cup {NoAnchor}
  /\ reads \in Copy
  /\ polls \in [Poll -> [phase : {"idle", "asking", "answered"}, current : BOOLEAN,
                         since : Time \cup {NoAnchor},
                         cursor : (Time \cup {NoAnchor}) \X (Item \cup {0}),
                         newest : Time \cup {NoAnchor}, copy : Copy]]
  /\ Cardinality({s \in Poll : polls[s].current}) <= 1
  /\ ops \in [Op -> [phase : {"idle", "sent", "committed", "done"},
                     ids : SUBSET Item, to : State, previous : Copy,
                     overlapped : BOOLEAN]]
  /\ disturbed \in SUBSET Item

Init ==
  /\ now = 0
  /\ server = [i \in Item |-> [is |-> "unread", at |-> CreatedAt[i]]]
  /\ items = Empty /\ itemsSince = 0
  /\ anchor = NoAnchor /\ reads = Empty
  /\ polls = [s \in Poll |-> IdlePoll]
  /\ ops = [o \in Op |-> [phase |-> "idle", ids |-> {}, to |-> "unread",
                          previous |-> Empty, overlapped |-> FALSE]]
  /\ disturbed = {}

\* The trigger on items inserts the row of item_reads.
Exists(i) == CreatedAt[i] <= now

InFlight(o) == ops[o].phase \in {"sent", "committed"}

-----------------------------------------------------------------------------
(* The server.                                                             *)

Tick ==
  /\ now < MaxTime
  /\ now' = now + 1
  /\ UNCHANGED <<server, listVars, anchor, reads, polls, ops, disturbed>>

\* SetItemRead, for all ids in one transaction.
SetItemRead(ids, v) ==
  server' = [i \in Item |-> IF i \in ids THEN [is |-> v, at |-> now] ELSE server[i]]

\* Rows that sort behind the cursor of no poll any more: the page that ended
\* there was read in this second, and they have smaller ids than its last row.
Overtaken(ids) ==
  {i \in ids : \E s \in Poll : /\ polls[s].phase = "asking"
                               /\ polls[s].cursor[1] = now /\ i <= polls[s].cursor[2]}

OtherUpdate(i, v) ==
  /\ Exists(i)
  /\ SetItemRead({i}, v)
  /\ disturbed' = disturbed \cup Overtaken({i})
  /\ UNCHANGED <<now, listVars, anchor, reads, polls, ops>>

-----------------------------------------------------------------------------
(* The list of items, whose first answer sets the anchor.                  *)

\* The answer of itemsList, with the items created since the last one.
ListItems ==
  LET listed == {i \in Item : Exists(i) /\ CreatedAt[i] >= itemsSince}
      newest == Max({CreatedAt[i] : i \in listed} \cup {itemsSince})
  IN /\ items' = [i \in Item |-> IF i \in listed THEN server[i].is ELSE items[i]]
     /\ itemsSince' = newest
     /\ anchor' = IF anchor = NoAnchor /\ listed # {}
                  THEN Max({newest - Overlap, 0}) ELSE anchor
     /\ UNCHANGED <<now, server, reads, polls, ops, disturbed>>

-----------------------------------------------------------------------------
(* itemReadQueryOptions.queryFn.                                           *)

\* existingData is read before the first request.
Begun == [IdlePoll EXCEPT !.phase = "asking", !.current = TRUE, !.since = anchor,
                          !.cursor = <<anchor, 0>>, !.copy = reads]

\* The query is due and no run of it counts.
StartPoll(s) ==
  /\ polls[s].phase = "idle" /\ \A t \in Poll : ~polls[t].current
  /\ IF anchor = NoAnchor
     THEN reads' = Empty /\ UNCHANGED polls
     ELSE polls' = [polls EXCEPT ![s] = Begun] /\ UNCHANGED reads
  /\ UNCHANGED <<now, server, listVars, anchor, ops, disturbed>>

\* Mutated Invalidate: the earlier run still counts.
InvalidateKeeps(s, t) ==
  /\ polls[s].phase = "idle" /\ polls[t].current
  /\ polls' = [polls EXCEPT ![s] = Begun]
  /\ UNCHANGED <<now, server, listVars, anchor, reads, ops, disturbed>>

\* invalidateQueries while a run is under way: it is cancelled and another
\* begins; what it would have returned is dropped.
Invalidate(s, t) ==
  /\ polls[s].phase = "idle" /\ polls[t].current
  /\ polls' = [polls EXCEPT ![s] = Begun,
                               ![t] = [@ EXCEPT !.current = FALSE, !.copy = Empty]]
  /\ UNCHANGED <<now, server, listVars, anchor, reads, ops, disturbed>>

Key(i) == <<server[i].at, i>>

\* Mutated Precedes: an answer begins with the second after the cursor's.
PrecedesBySecond(k, l) == k[1] < l[1]

Precedes(k, l) == k[1] < l[1] \/ (k[1] = l[1] /\ k[2] < l[2])

\* One request of the do loop, answered: ListItemRead from the cursor on, of
\* which the first one stands for <<since, ''>>.
Page(s) ==
  LET p == polls[s]
      after == {i \in Item : Exists(i) /\ Precedes(p.cursor, Key(i))}
      page == {i \in after :
                 Cardinality({k \in after : Precedes(Key(k), Key(i))}) < PageSize}
      last == CHOOSE i \in page : \A k \in page : ~Precedes(Key(i), Key(k))
  IN /\ p.phase = "asking"
     /\ polls' = [polls EXCEPT ![s] = [p EXCEPT
          !.copy = [i \in Item |-> IF p.current /\ i \in page THEN server[i].is ELSE @[i]],
          !.newest = Max({server[i].at : i \in page} \cup {@}),
          !.phase = IF page = after THEN "answered" ELSE "asking",
          !.cursor = IF page = after THEN IdlePoll.cursor ELSE Key(last)]]
     /\ UNCHANGED <<now, server, listVars, anchor, reads, ops, disturbed>>

\* A request fails, or its answer is lost: the data and the anchor stay.
PollFails(s) ==
  /\ polls[s].phase # "idle"
  /\ polls' = [polls EXCEPT ![s] = IdlePoll]
  /\ UNCHANGED <<now, server, listVars, anchor, reads, ops, disturbed>>

\* setLastReadFetched: maxServerUpdatedAt, if it is later than the anchor was
\* at the beginning.
NextAnchor(p) == IF p.newest > p.since THEN p.newest ELSE anchor

\* The loop has ended.
Deliver(s) ==
  LET p == polls[s]
  IN /\ p.phase = "answered"
     /\ anchor' = NextAnchor(p)
     /\ reads' = IF p.current THEN p.copy ELSE reads
     /\ polls' = [polls EXCEPT ![s] = IdlePoll]
     /\ ops' = IF p.current
               THEN [o \in Op |-> [ops[o] EXCEPT !.overlapped = @ \/ InFlight(o)]]
               ELSE ops
     /\ disturbed' = IF p.current
                     THEN disturbed \ {i \in Item : p.copy[i] = server[i].is}
                     ELSE disturbed \cup {i \in Item : server[i].at \in p.since .. p.newest}
     /\ UNCHANGED <<now, server, listVars>>

-----------------------------------------------------------------------------
(* updateItemReadStatus.                                                   *)

\* The user marks items of the list: the copy changes at once.
Update(o, ids, v) ==
  LET others == {q \in Op : InFlight(q) /\ ops[q].ids \cap ids # {}}
  IN /\ ops[o].phase = "idle" /\ \A i \in ids : items[i] # "none"
     /\ ops' = [q \in Op |->
          IF q = o THEN [phase |-> "sent", ids |-> ids, to |-> v,
                         previous |-> [i \in Item |-> IF i \in ids THEN reads[i] ELSE "none"],
                         overlapped |-> others # {}]
          ELSE [ops[q] EXCEPT !.overlapped = @ \/ q \in others]]
     /\ reads' = [i \in Item |-> IF i \in ids THEN v ELSE reads[i]]
     /\ UNCHANGED <<now, server, listVars, anchor, polls, disturbed>>

Commit(o) ==
  /\ ops[o].phase = "sent"
  /\ SetItemRead(ops[o].ids, ops[o].to)
  /\ ops' = [ops EXCEPT ![o].phase = "committed"]
  /\ disturbed' = disturbed \cup Overtaken(ops[o].ids)
  /\ UNCHANGED <<now, listVars, anchor, reads, polls>>

Done == [phase |-> "done", ids |-> {}, to |-> "unread", previous |-> Empty,
         overlapped |-> FALSE]

Acknowledge(o) ==
  /\ ops[o].phase = "committed"
  /\ ops' = [ops EXCEPT ![o] = Done]
  /\ UNCHANGED <<now, server, listVars, anchor, reads, polls, disturbed>>

\* The entries of before the update; those that were not there go.
RolledBack(o) ==
  [i \in Item |-> IF i \in ops[o].ids THEN ops[o].previous[i] ELSE reads[i]]

\* The request fails, before or after the server has done it.
Fail(o) ==
  /\ InFlight(o)
  /\ reads' = RolledBack(o)
  /\ ops' = [ops EXCEPT ![o] = Done]
  /\ disturbed' = IF ops[o].overlapped \/ \E s \in Poll : polls[s].current
                  THEN disturbed \cup ops[o].ids ELSE disturbed
  /\ UNCHANGED <<now, server, listVars, anchor, polls>>

-----------------------------------------------------------------------------

Polling == \E s \in Poll : StartPoll(s) \/ Page(s) \/ Deliver(s)

Next ==
  \/ Tick
  \/ \E i \in Item, v \in State : OtherUpdate(i, v)
  \/ \E o \in Op, ids \in (SUBSET Marked) \ {{}}, v \in State : Update(o, ids, v)
  \/ ListItems
  \/ Polling
  \/ \E s \in Poll : PollFails(s) \/ \E t \in Poll : Invalidate(s, t)
  \/ \E o \in Op : Commit(o) \/ Acknowledge(o) \/ Fail(o)

Spec == Init /\ [][Next]_vars

-----------------------------------------------------------------------------
(* Properties.  An item is disturbed when the code loses track of it:      *)
(* - an update of it fails that overlapped with another update of it, or   *)
(*   with a poll: what it is rolled back to is older than the copy;        *)
(* - a cancelled poll moves the anchor past its row, which is dropped;     *)
(* - it changes in the second of a page's last row, behind that row.       *)
(* It is so until a poll delivers its state as it is on the server.        *)

\* What the user sees: the entry of the copy, or else what the list said.
Shown(i) == IF reads[i] = "none" THEN items[i] ELSE reads[i]

Quiet(i) == \A o \in Op : ~(InFlight(o) /\ i \in ops[o].ids)

\* A poll never asks again for a change older than the anchor, so the copy
\* must have it (item-read-db.ts:56-60, with query.sql:327 reading the
\* anchor's own second again).
NothingMissed ==
  \A i \in Item :
    anchor > server[i].at /\ items[i] # "none" /\ Quiet(i) /\ i \notin disturbed
      => Shown(i) = server[i].is
=============================================================================

--------------------------- MODULE ReadSyncProofs ---------------------------
(***************************************************************************)
(* For any items, polls, updates, page size, overlap and clock: the types, *)
(* and that no change older than the anchor is missing from the browser's  *)
(* copy, unless the item is one of those the code loses track of.          *)
(***************************************************************************)
EXTENDS ReadSync, FiniteOrder, TLAPS

-----------------------------------------------------------------------------
(* The inductive invariant.                                                *)

PollRecord ==
  [phase : {"idle", "asking", "answered"}, current : BOOLEAN,
   since : Time \cup {NoAnchor},
   cursor : (Time \cup {NoAnchor}) \X (Item \cup {0}),
   newest : Time \cup {NoAnchor}, copy : Copy]

OpRecord ==
  [phase : {"idle", "sent", "committed", "done"}, ids : SUBSET Item, to : State,
   previous : Copy, overlapped : BOOLEAN]

\* TypeOK, but for the number of runs that count.
Types ==
  /\ now \in Time /\ server \in [Item -> Row]
  /\ items \in Copy /\ itemsSince \in Time
  /\ anchor \in Time \cup {NoAnchor} /\ reads \in Copy
  /\ polls \in [Poll -> PollRecord] /\ ops \in [Op -> OpRecord]
  /\ disturbed \in SUBSET Item

\* Nothing comes from the future.
ClockInv ==
  /\ itemsSince <= now /\ anchor <= now
  /\ \A i \in Item : /\ CreatedAt[i] <= server[i].at
                     /\ IF Exists(i) THEN server[i].at <= now
                        ELSE server[i].at = CreatedAt[i]
                     /\ items[i] # "none" => Exists(i)
  /\ \A o \in Op : \A i \in ops[o].ids : Exists(i)
  /\ \A s \in Poll : /\ polls[s].since <= now /\ polls[s].newest <= now
                     /\ polls[s].cursor[1] <= now

\* One run of the query counts, and each begins at an anchor.
PollInv ==
  /\ \A s, t \in Poll : polls[s].current /\ polls[t].current => s = t
  /\ \A s \in Poll : IF polls[s].phase = "idle" THEN polls[s] = IdlePoll
                     ELSE polls[s].since \in Time

\* Before the first answer of the list there is nothing to go wrong.
UnsetInv ==
  anchor = NoAnchor =>
    /\ items = Empty /\ reads = Empty /\ itemsSince = 0
    /\ \A s \in Poll : polls[s].phase = "idle"
    /\ \A o \in Op : ~InFlight(o)

\* The row of i is older than the anchor, or than one a poll began at.
Past(i) ==
  anchor > server[i].at \/ \E s \in Poll : polls[s].since > server[i].at

\* The entry c makes the browser show i as it is on the server.
Right(c, i) ==
  c = server[i].is \/ (c = "none" /\ items[i] \in {"none", server[i].is})

Sending(i) == \E o \in Op : ops[o].phase = "sent" /\ i \in ops[o].ids

\* No poll will ask for what is past, so the copy must have it; a change that
\* the server has not got yet excepted.
ReadsRight ==
  \A i \in Item : Past(i) /\ ~Sending(i) /\ i \notin disturbed => Right(reads[i], i)

\* What an update is rolled back to.  If the server has made the change, its
\* row is not past: the next poll brings it.
PreviousRight ==
  \A o \in Op : InFlight(o) /\ ~ops[o].overlapped =>
    \A i \in ops[o].ids \ disturbed :
      Past(i) => ops[o].phase = "sent" /\ Right(ops[o].previous[i], i)

\* A poll has yet to read the row of i, or leaves it to the next one.
Ahead(s, i) ==
  IF polls[s].phase = "asking" THEN Precedes(polls[s].cursor, Key(i))
  ELSE ~Past(i) /\ polls[s].newest <= server[i].at

CopyRight ==
  \A s \in Poll : polls[s].current =>
    \A i \in Item : i \notin disturbed /\ ~Sending(i) =>
                      Right(polls[s].copy[i], i) \/ Ahead(s, i)

ReadInv ==
  /\ Types /\ ClockInv /\ PollInv /\ UnsetInv
  /\ ReadsRight /\ PreviousRight /\ CopyRight

-----------------------------------------------------------------------------
(* Types.                                                                  *)

LEMMA TimeIsInt == Time \subseteq Nat /\ Time \cup {NoAnchor} \subseteq Int
  BY ReadSyncAssumption DEF Time, NoAnchor

(* What is counted is a number.                                            *)
LEMMA Numbers ==
  ASSUME Types
  PROVE  /\ now \in Int /\ itemsSince \in Int /\ anchor \in Int
         /\ \A i \in Item : i \in Int /\ i > 0 /\ CreatedAt[i] \in Int /\ server[i].at \in Int
         /\ \A s \in Poll : /\ polls[s].since \in Int /\ polls[s].newest \in Int
                            /\ polls[s].cursor[1] \in Int /\ polls[s].cursor[2] \in Int
<1>1. now \in Int /\ itemsSince \in Int /\ anchor \in Int
  BY TimeIsInt DEF Types
<1>2. ASSUME NEW i \in Item
      PROVE  i \in Int /\ i > 0 /\ CreatedAt[i] \in Int /\ server[i].at \in Int
  <2>1. i \in Int /\ i > 0 /\ CreatedAt[i] \in Int
    BY ReadSyncAssumption
  <2>2. server[i].at \in Int
    BY TimeIsInt DEF Types, Row
  <2>3. QED
    BY <2>1, <2>2
<1>3. ASSUME NEW s \in Poll
      PROVE  /\ polls[s].since \in Int /\ polls[s].newest \in Int
             /\ polls[s].cursor[1] \in Int /\ polls[s].cursor[2] \in Int
  <2>1. polls[s].since \in Time \cup {NoAnchor} /\ polls[s].newest \in Time \cup {NoAnchor}
    BY DEF Types, PollRecord
  <2>2. polls[s].cursor[1] \in Time \cup {NoAnchor} /\ polls[s].cursor[2] \in Item \cup {0}
    BY DEF Types, PollRecord
  <2>3. Item \cup {0} \subseteq Int
    BY ReadSyncAssumption
  <2>4. QED
    BY <2>1, <2>2, <2>3, TimeIsInt, Zenon
<1>4. QED
  BY <1>1, <1>2, <1>3

LEMMA IdleType == IdlePoll \in PollRecord /\ Empty \in Copy /\ Done \in OpRecord
<1>1. Empty \in Copy
  BY DEF Empty, Copy
<1>2. QED
  BY <1>1 DEF IdlePoll, PollRecord, Done, OpRecord, State

LEMMA InitTypes == Init => Types
<1> SUFFICES ASSUME Init PROVE Types
  OBVIOUS
<1> USE ReadSyncAssumption, IdleType DEF Init
<1>1. now \in Time /\ itemsSince \in Time /\ anchor \in Time \cup {NoAnchor}
  BY DEF Time
<1>2. items \in Copy /\ reads \in Copy /\ disturbed \in SUBSET Item
  OBVIOUS
<1>3. server \in [Item -> Row]
  BY DEF Row, Time, State
<1>4. polls \in [Poll -> PollRecord]
  OBVIOUS
<1>5. ops \in [Op -> OpRecord]
  BY DEF OpRecord, State
<1>6. QED
  BY <1>1, <1>2, <1>3, <1>4, <1>5 DEF Types

(* The server stamps a change with its clock.                              *)
LEMMA SetItemReadType ==
  ASSUME Types, NEW ids, NEW v \in State, SetItemRead(ids, v)
  PROVE  server' \in [Item -> Row]
  BY DEF Types, SetItemRead, Row

(* A run of the query as it begins.                                        *)
LEMMA BegunIs ==
  ASSUME Types
  PROVE  /\ Begun \in PollRecord
         /\ Begun.phase = "asking" /\ Begun.current = TRUE /\ Begun.since = anchor
         /\ Begun.cursor = <<anchor, 0>> /\ Begun.newest = NoAnchor /\ Begun.copy = reads
  BY DEF Types, Begun, IdlePoll, PollRecord

-----------------------------------------------------------------------------
(* One answer of ListItemRead.                                             *)

After(s) == {i \in Item : Exists(i) /\ Precedes(polls[s].cursor, Key(i))}

PageOf(s) ==
  {i \in After(s) :
     Cardinality({k \in After(s) : Precedes(Key(k), Key(i))}) < PageSize}

LastOf(s) == CHOOSE i \in PageOf(s) : \A k \in PageOf(s) : ~Precedes(Key(i), Key(k))

NewestOf(s) == Max({server[i].at : i \in PageOf(s)} \cup {polls[s].newest})

LEMMA PageIs ==
  ASSUME NEW s \in Poll, Page(s)
  PROVE  /\ polls[s].phase = "asking"
         /\ polls' = [polls EXCEPT ![s] = [polls[s] EXCEPT
              !.copy = [i \in Item |-> IF polls[s].current /\ i \in PageOf(s)
                                       THEN server[i].is ELSE polls[s].copy[i]],
              !.newest = NewestOf(s),
              !.phase = IF PageOf(s) = After(s) THEN "answered" ELSE "asking",
              !.cursor = IF PageOf(s) = After(s) THEN IdlePoll.cursor ELSE Key(LastOf(s))]]
         /\ UNCHANGED <<now, server, listVars, anchor, reads, ops, disturbed>>
  BY DEF Page, After, PageOf, LastOf, NewestOf

(* The order of the rows is by time and id.                                *)
LEMMA RowOrder ==
  ASSUME Types, NEW i \in Item, NEW k \in Item
  PROVE  /\ ~Precedes(Key(i), Key(i))
         /\ \A l \in Item : Precedes(Key(i), Key(k)) /\ Precedes(Key(k), Key(l))
                              => Precedes(Key(i), Key(l))
         /\ i # k /\ ~Precedes(Key(i), Key(k)) => Precedes(Key(k), Key(i))
  BY ReadSyncAssumption, TimeIsInt DEF Types, Row, Precedes, Key

(* A page that is not the last one ends with one of its rows, and all the  *)
(* rows it has no room for come after that.                                *)
LEMMA PageEnds ==
  ASSUME Types, NEW s \in Poll, PageOf(s) # After(s)
  PROVE  /\ LastOf(s) \in PageOf(s)
         /\ \A i \in After(s) \ PageOf(s) : Precedes(Key(LastOf(s)), Key(i))
<1> DEFINE Earlier(i) == {k \in After(s) : Precedes(Key(k), Key(i))}
           R == {r \in Item \X Item : Precedes(Key(r[1]), Key(r[2]))}
           Q == {r \in Item \X Item : Precedes(Key(r[2]), Key(r[1]))}
<1>1. IsFiniteSet(After(s)) /\ After(s) \subseteq Item /\ PageOf(s) \subseteq After(s)
      /\ IsFiniteSet(PageOf(s)) /\ After(s) # {}
  <2>1. After(s) \subseteq Item /\ PageOf(s) \subseteq After(s)
    BY DEF After, PageOf
  <2>2. QED
    BY <2>1, ReadSyncAssumption, FS_Subset
<1>2. \A i \in Item : <<i, i>> \notin R /\ <<i, i>> \notin Q
  BY RowOrder
<1>3. \A i, k, l \in Item : /\ <<i, k>> \in R /\ <<k, l>> \in R => <<i, l>> \in R
                            /\ <<i, k>> \in Q /\ <<k, l>> \in Q => <<i, l>> \in Q
  BY RowOrder
<1>4. \A i, k \in Item : /\ <<i, k>> \notin R => ~Precedes(Key(i), Key(k))
                         /\ <<i, k>> \notin Q => ~Precedes(Key(k), Key(i))
  OBVIOUS
<1>5. PageOf(s) # {}
  <2>1. \E i \in After(s) : \A k \in After(s) : <<i, k>> \notin Q
    <3> HIDE DEF Q
    <3>1. \A i \in After(s) : <<i, i>> \notin Q
      BY <1>1, <1>2
    <3>2. \A i, k, l \in After(s) : <<i, k>> \in Q /\ <<k, l>> \in Q => <<i, l>> \in Q
      BY <1>1, <1>3
    <3>3. QED
      BY <1>1, <3>1, <3>2, LastElement
  <2>2. PICK i \in After(s) : \A k \in After(s) : ~Precedes(Key(k), Key(i))
    BY <2>1, <1>1, <1>4
  <2>3. Earlier(i) = {}
    BY <2>2
  <2>4. Cardinality(Earlier(i)) < PageSize
    BY <2>3, FS_EmptySet, ReadSyncAssumption
  <2>5. QED
    BY <2>4 DEF PageOf
<1>6. LastOf(s) \in PageOf(s) /\ \A k \in PageOf(s) : ~Precedes(Key(LastOf(s)), Key(k))
  <2>1. \E i \in PageOf(s) : \A k \in PageOf(s) : <<i, k>> \notin R
    <3> HIDE DEF R
    <3>1. PageOf(s) \subseteq Item
      BY <1>1
    <3>2. \A i \in PageOf(s) : <<i, i>> \notin R
      BY <3>1, <1>2
    <3>3. \A i, k, l \in PageOf(s) : <<i, k>> \in R /\ <<k, l>> \in R => <<i, l>> \in R
      BY <3>1, <1>3
    <3>4. QED
      BY <1>1, <1>5, <3>2, <3>3, LastElement
  <2>2. \E i \in PageOf(s) : \A k \in PageOf(s) : ~Precedes(Key(i), Key(k))
    BY <2>1, <1>1, <1>4
  <2>3. QED
    BY <2>2 DEF LastOf
<1>7. ASSUME NEW i \in After(s) \ PageOf(s), ~Precedes(Key(LastOf(s)), Key(i))
      PROVE  FALSE
  <2> DEFINE l == LastOf(s)
  <2>1. i \in Item /\ l \in Item /\ i # l /\ l \in After(s)
    BY <1>1, <1>6, <1>7
  <2>2. Precedes(Key(i), Key(l))
    BY <2>1, <1>7, RowOrder
  <2>3. Earlier(i) \subseteq Earlier(l)
    BY <1>1, <2>1, <2>2, RowOrder
  <2>4. IsFiniteSet(Earlier(l)) /\ IsFiniteSet(Earlier(i))
    BY <1>1, FS_Subset
  <2>5. Cardinality(Earlier(i)) <= Cardinality(Earlier(l))
        /\ Cardinality(Earlier(l)) \in Nat /\ Cardinality(Earlier(i)) \in Nat
    BY <2>3, <2>4, FS_Subset, FS_CardinalityType
  <2>6. Cardinality(Earlier(l)) < PageSize
    BY <1>6 DEF PageOf
  <2>7. ~(Cardinality(Earlier(i)) < PageSize)
    BY <1>7 DEF PageOf
  <2>8. QED
    BY <2>5, <2>6, <2>7, ReadSyncAssumption
<1>8. QED
  BY <1>6, <1>7

(* maxServerUpdatedAt is a time of one of the rows, or what it was.        *)
LEMMA NewestIs ==
  ASSUME Types, ClockInv, NEW s \in Poll
  PROVE  NewestOf(s) \in Time \cup {NoAnchor} /\ NewestOf(s) <= now
<1> DEFINE S == {server[i].at : i \in PageOf(s)} \cup {polls[s].newest}
<1>1. PageOf(s) \subseteq Item /\ \A i \in PageOf(s) : Exists(i)
  BY DEF PageOf, After
<1>2. IsFiniteSet(S)
  <2>1. IsFiniteSet(PageOf(s))
    BY <1>1, ReadSyncAssumption, FS_Subset
  <2>2. IsFiniteSet({server[i].at : i \in PageOf(s)})
    <3> DEFINE f == [i \in PageOf(s) |-> server[i].at]
    <3>1. f \in Surjection(PageOf(s), {server[i].at : i \in PageOf(s)})
      BY DEF Surjection
    <3>2. QED
      BY <3>1, <2>1, FS_Surjection
  <2>3. QED
    BY <2>2, FS_AddElement
<1>3. S \subseteq Time \cup {NoAnchor} /\ \A n \in S : n <= now
  BY <1>1 DEF Types, ClockInv, PollRecord, Row
<1>4. Max(S) \in S
  BY <1>2, <1>3, TimeIsInt, MaxIsLast
<1>5. QED
  BY <1>3, <1>4 DEF NewestOf

(* A poll that has had an answer.                                          *)
LEMMA PageLeaves ==
  ASSUME Types, ClockInv, NEW s \in Poll, Page(s)
  PROVE  \E p \in PollRecord :
           /\ polls' = [polls EXCEPT ![s] = p]
           /\ p.current = polls[s].current /\ p.since = polls[s].since
           /\ p.newest <= now
           /\ p.copy = [i \in Item |-> IF polls[s].current /\ i \in PageOf(s)
                                       THEN server[i].is ELSE polls[s].copy[i]]
           /\ \/ /\ PageOf(s) = After(s) /\ p.phase = "answered"
                 /\ p.cursor = IdlePoll.cursor
              \/ /\ PageOf(s) # After(s) /\ p.phase = "asking"
                 /\ p.cursor = Key(LastOf(s)) /\ LastOf(s) \in After(s)
<1> DEFINE q == polls[s]
           p == [q EXCEPT
              !.copy = [i \in Item |-> IF q.current /\ i \in PageOf(s)
                                       THEN server[i].is ELSE q.copy[i]],
              !.newest = NewestOf(s),
              !.phase = IF PageOf(s) = After(s) THEN "answered" ELSE "asking",
              !.cursor = IF PageOf(s) = After(s) THEN IdlePoll.cursor ELSE Key(LastOf(s))]
<1>1. q \in PollRecord
  BY DEF Types
<1>2. polls' = [polls EXCEPT ![s] = p]
  BY PageIs, Zenon
<1>3. [i \in Item |-> IF q.current /\ i \in PageOf(s) THEN server[i].is ELSE q.copy[i]] \in Copy
  <2>1. q.copy \in Copy
    BY <1>1 DEF PollRecord
  <2>2. QED
    BY <2>1 DEF Types, Row, Copy
<1>4. PageOf(s) # After(s) => LastOf(s) \in After(s)
  BY PageEnds DEF PageOf
<1>5. (IF PageOf(s) = After(s) THEN IdlePoll.cursor ELSE Key(LastOf(s)))
        \in (Time \cup {NoAnchor}) \X (Item \cup {0})
  BY <1>4 DEF IdlePoll, Key, Types, Row, After
<1>6. p \in PollRecord
  BY <1>1, <1>3, <1>5, NewestIs DEF PollRecord
<1>7. /\ p.current = q.current /\ p.since = q.since /\ p.newest = NewestOf(s)
      /\ p.copy = [i \in Item |-> IF q.current /\ i \in PageOf(s)
                                  THEN server[i].is ELSE q.copy[i]]
      /\ p.phase = IF PageOf(s) = After(s) THEN "answered" ELSE "asking"
      /\ p.cursor = IF PageOf(s) = After(s) THEN IdlePoll.cursor ELSE Key(LastOf(s))
  BY <1>1 DEF PollRecord
<1> HIDE DEF p
<1>8. QED
  BY <1>2, <1>4, <1>6, <1>7, NewestIs

(* What the first answer of the list does to the anchor.                   *)
LEMMA ListMoves ==
  ASSUME Types, ClockInv, ListItems
  PROVE  /\ itemsSince' \in Time /\ itemsSince' <= now
         /\ anchor' \in Time \cup {NoAnchor} /\ anchor' <= now
         /\ anchor # NoAnchor => anchor' = anchor
         /\ (\A i \in Item : ~Exists(i)) => itemsSince' = itemsSince
         /\ itemsSince = 0 /\ anchor' = NoAnchor => items' = items /\ itemsSince' = 0
<1> DEFINE listed == {i \in Item : Exists(i) /\ CreatedAt[i] >= itemsSince}
           S == {CreatedAt[i] : i \in listed} \cup {itemsSince}
           newest == Max(S)
<1>1. /\ items' = [i \in Item |-> IF i \in listed THEN server[i].is ELSE items[i]]
      /\ itemsSince' = newest
      /\ anchor' = IF anchor = NoAnchor /\ listed # {}
                   THEN Max({newest - Overlap, 0}) ELSE anchor
  BY DEF ListItems
<1>2. IsFiniteSet(S)
  <2>1. IsFiniteSet(listed)
    BY ReadSyncAssumption, FS_Subset
  <2>2. IsFiniteSet({CreatedAt[i] : i \in listed})
    <3> DEFINE f == [i \in listed |-> CreatedAt[i]]
    <3>1. f \in Surjection(listed, {CreatedAt[i] : i \in listed})
      BY DEF Surjection
    <3>2. QED
      BY <3>1, <2>1, FS_Surjection
  <2>3. QED
    BY <2>2, FS_AddElement
<1>3. S \subseteq Time /\ \A n \in S : n <= now
  BY ReadSyncAssumption DEF Types, ClockInv, Exists, Time
<1>4. newest \in S
  BY <1>2, <1>3, TimeIsInt, MaxIsLast
<1>5. newest \in Time /\ newest <= now
  BY <1>3, <1>4
<1>6. Max({newest - Overlap, 0}) \in {newest - Overlap, 0}
      /\ Max({newest - Overlap, 0}) >= 0
  <2>1. newest - Overlap \in Int
    BY <1>5, TimeIsInt, ReadSyncAssumption
  <2> HIDE DEF newest
  <2>2. IsFiniteSet({newest - Overlap, 0})
    <3>1. IsFiniteSet({newest - Overlap})
      BY FS_Singleton
    <3>2. {newest - Overlap, 0} = {newest - Overlap} \cup {0}
      OBVIOUS
    <3>3. QED
      BY <3>1, <3>2, FS_AddElement
  <2>3. QED
    BY <2>1, <2>2, MaxIsLast
<1>7. Max({newest - Overlap, 0}) \in Time /\ Max({newest - Overlap, 0}) <= now
  BY <1>5, <1>6, ReadSyncAssumption, TimeIsInt DEF Time, Types
<1>8. listed = {} => newest = itemsSince /\ items' = items
  <2>1. listed = {} => S = {itemsSince}
    OBVIOUS
  <2>2. listed = {} => items' = items
    BY <1>1 DEF Types, Copy
  <2>3. QED
    BY <1>4, <2>1, <2>2
<1>9. itemsSince = 0 /\ anchor' = NoAnchor => listed = {}
  BY <1>1, <1>7, TimeIsInt DEF NoAnchor, Types
<1> HIDE DEF listed, newest
<1>10. QED
  BY <1>1, <1>5, <1>7, <1>8, <1>9 DEF Types, ClockInv, listed

-----------------------------------------------------------------------------
(* One lemma per action: the invariant is inductive.                       *)

LEMMA InitInv == Init => ReadInv
<1> SUFFICES ASSUME Init PROVE ReadInv
  OBVIOUS
<1> USE ReadSyncAssumption
<1>1. Types
  BY InitTypes
<1>2. ClockInv
  BY TimeIsInt DEF Init, ClockInv, Exists, Time, NoAnchor, Empty, IdlePoll
<1>3. PollInv
  BY DEF Init, PollInv, IdlePoll
<1>4. UnsetInv
  BY DEF Init, UnsetInv, IdlePoll, InFlight
<1>5. ReadsRight
  BY TimeIsInt DEF Init, ReadsRight, Right, Empty
<1>6. PreviousRight
  BY DEF Init, PreviousRight, InFlight
<1>7. CopyRight
  BY DEF Init, CopyRight, IdlePoll
<1>8. QED
  BY <1>1, <1>2, <1>3, <1>4, <1>5, <1>6, <1>7 DEF ReadInv

(* The clock tells nothing from the past to the browser.                   *)
LEMMA TickInv == ReadInv /\ Tick => ReadInv'
<1> SUFFICES ASSUME ReadInv, Tick PROVE ReadInv'
  OBVIOUS
<1> USE ReadSyncAssumption DEF ReadInv, Tick, listVars
<1>1. Types'
  BY TimeIsInt DEF Types, Time
<1>2. ClockInv'
  <2>1. now' = now + 1 /\ now \in Int
    BY TimeIsInt DEF Types
  <2>2. itemsSince' <= now' /\ anchor' <= now'
    BY <2>1, Numbers DEF ClockInv
  <2>3. ASSUME NEW i \in Item
        PROVE  /\ CreatedAt[i] <= server'[i].at
               /\ IF Exists(i)' THEN server'[i].at <= now'
                  ELSE server'[i].at = CreatedAt[i]
               /\ items'[i] # "none" => Exists(i)'
    BY <2>1, Numbers DEF ClockInv, Exists
  <2>4. \A o \in Op : \A i \in ops'[o].ids : Exists(i)'
    <3>1. \A o \in Op : ops[o].ids \subseteq Item
      BY DEF Types, OpRecord
    <3>2. \A i \in Item : Exists(i) => Exists(i)'
      BY <2>1, Numbers DEF Exists
    <3>3. QED
      BY <3>1, <3>2 DEF ClockInv
  <2>5. ASSUME NEW s \in Poll
        PROVE  /\ polls'[s].since <= now' /\ polls'[s].newest <= now'
               /\ polls'[s].cursor[1] <= now'
    BY <2>1, Numbers DEF ClockInv
  <2>6. QED
    BY <2>2, <2>3, <2>4, <2>5 DEF ClockInv
<1>3. PollInv' /\ UnsetInv'
  BY DEF PollInv, UnsetInv, InFlight
<1>4. ReadsRight'
  BY DEF ReadsRight, Past, Sending, Right
<1>5. PreviousRight'
  BY DEF PreviousRight, Past, InFlight, Right
<1>6. CopyRight'
  BY DEF CopyRight, Past, Sending, Right, Ahead, Key
<1>7. QED
  BY <1>1, <1>2, <1>3, <1>4, <1>5, <1>6

(* A change of the server is newer than every anchor, and each poll has    *)
(* yet to read it, unless it comes in the second where its page ended.     *)
LEMMA Stamped ==
  ASSUME ReadInv, NEW ids \in SUBSET Item, NEW v \in State, SetItemRead(ids, v),
         \A i \in ids : Exists(i), disturbed' = disturbed \cup Overtaken(ids),
         UNCHANGED <<now, listVars, anchor, polls>>
  PROVE  /\ server' \in [Item -> Row] /\ disturbed' \in SUBSET Item
         /\ \A i \in Item : /\ CreatedAt[i] <= server'[i].at
                            /\ IF Exists(i) THEN server'[i].at <= now
                               ELSE server'[i].at = CreatedAt[i]
         /\ \A i \in ids : ~Past(i)'
         /\ \A i \in Item \ ids : server'[i] = server[i] /\ (Past(i)' <=> Past(i))
         /\ \A s \in Poll, i \in ids : i \notin disturbed' => Ahead(s, i)'
         /\ \A s \in Poll, i \in Item \ ids : Ahead(s, i)' <=> Ahead(s, i)
<1> USE DEF ReadInv, listVars
<1>1. server' \in [Item -> Row]
  BY SetItemReadType
<1>2. disturbed' \in SUBSET Item
  BY DEF Types, Overtaken
<1>3. \A i \in ids : server'[i].at = now
  BY DEF SetItemRead
<1>4. \A i \in Item \ ids : server'[i] = server[i]
  BY DEF SetItemRead, Types
<1>5. ASSUME NEW i \in Item
      PROVE  /\ CreatedAt[i] <= server'[i].at
             /\ IF Exists(i) THEN server'[i].at <= now ELSE server'[i].at = CreatedAt[i]
  <2>1. CASE i \in ids
    BY <1>3, <2>1, Numbers DEF Exists
  <2>2. CASE i \notin ids
    BY <1>4, <2>2 DEF ClockInv
  <2>3. QED
    BY <2>1, <2>2
<1>6. ASSUME NEW i \in ids PROVE ~Past(i)'
  BY <1>3, Numbers DEF ClockInv, Past
<1>7. ASSUME NEW i \in Item \ ids PROVE Past(i)' <=> Past(i)
  BY <1>4 DEF Past
<1>8. ASSUME NEW s \in Poll, NEW i \in ids, i \notin disturbed' PROVE Ahead(s, i)'
  <2>1. Key(i)' = <<now, i>>
    BY <1>3 DEF Key
  <2>2. polls[s].phase = "asking" =>
          polls[s].cursor[1] < now \/ (polls[s].cursor[1] = now /\ polls[s].cursor[2] < i)
    BY <1>8, Numbers DEF Overtaken, ClockInv
  <2>3. polls[s].newest <= now
    BY DEF ClockInv
  <2>4. QED
    BY <1>3, <1>6, <2>1, <2>2, <2>3 DEF Ahead, Precedes
<1>9. ASSUME NEW s \in Poll, NEW i \in Item \ ids PROVE Ahead(s, i)' <=> Ahead(s, i)
  BY <1>4, <1>7 DEF Ahead, Key
<1>10. QED
  BY <1>1, <1>2, <1>4, <1>5, <1>6, <1>7, <1>8, <1>9

(* Another browser changes a row.                                          *)
LEMMA OtherUpdateInv ==
  ASSUME ReadInv, NEW j \in Item, NEW v \in State, OtherUpdate(j, v)
  PROVE  ReadInv'
<1> USE DEF ReadInv, listVars
<1>1. /\ Exists(j) /\ SetItemRead({j}, v) /\ disturbed' = disturbed \cup Overtaken({j})
      /\ UNCHANGED <<now, items, itemsSince, anchor, reads, polls, ops>>
  BY DEF OtherUpdate
<1>2. /\ server' \in [Item -> Row] /\ disturbed' \in SUBSET Item
      /\ \A i \in Item : /\ CreatedAt[i] <= server'[i].at
                         /\ IF Exists(i) THEN server'[i].at <= now
                            ELSE server'[i].at = CreatedAt[i]
      /\ ~Past(j)'
      /\ \A i \in Item \ {j} : server'[i] = server[i] /\ (Past(i)' <=> Past(i))
      /\ \A s \in Poll : j \notin disturbed' => Ahead(s, j)'
      /\ \A s \in Poll, i \in Item \ {j} : Ahead(s, i)' <=> Ahead(s, i)
  <2>1. {j} \in SUBSET Item /\ \A i \in {j} : Exists(i)
    BY <1>1
  <2>2. /\ server' \in [Item -> Row] /\ disturbed' \in SUBSET Item
        /\ \A i \in Item : /\ CreatedAt[i] <= server'[i].at
                           /\ IF Exists(i) THEN server'[i].at <= now
                              ELSE server'[i].at = CreatedAt[i]
        /\ \A i \in {j} : ~Past(i)'
        /\ \A i \in Item \ {j} : server'[i] = server[i] /\ (Past(i)' <=> Past(i))
        /\ \A s \in Poll, i \in {j} : i \notin disturbed' => Ahead(s, i)'
        /\ \A s \in Poll, i \in Item \ {j} : Ahead(s, i)' <=> Ahead(s, i)
    BY <1>1, <2>1, Stamped
  <2>3. QED
    BY <2>2
<1>3. Types'
  BY <1>1, <1>2 DEF Types
<1>4. ClockInv'
  BY <1>1, <1>2 DEF ClockInv, Exists
<1>5. PollInv' /\ UnsetInv'
  BY <1>1 DEF PollInv, UnsetInv, InFlight
<1>6. \A i \in Item : i \notin disturbed' => i \notin disturbed
  BY <1>1
<1>7. \A i \in Item \ {j} : \A c : Right(c, i)' <=> Right(c, i)
  BY <1>1, <1>2 DEF Right
<1>8. \A i \in Item : Sending(i)' <=> Sending(i)
  BY <1>1 DEF Sending
<1>9. ReadsRight'
  BY <1>1, <1>2, <1>6, <1>7, <1>8 DEF ReadsRight
<1>10. PreviousRight'
  BY <1>1, <1>2, <1>6, <1>7 DEF PreviousRight, InFlight, Types, OpRecord
<1>11. CopyRight'
  BY <1>1, <1>2, <1>6, <1>7, <1>8 DEF CopyRight
<1>12. QED
  BY <1>3, <1>4, <1>5, <1>9, <1>10, <1>11

(* The server makes the change of an update.                               *)
LEMMA CommitInv ==
  ASSUME ReadInv, NEW o \in Op, Commit(o)
  PROVE  ReadInv'
<1> USE DEF ReadInv, listVars
<1> DEFINE ids == ops[o].ids
<1>1. /\ ops[o].phase = "sent" /\ SetItemRead(ids, ops[o].to)
      /\ ops' = [ops EXCEPT ![o].phase = "committed"]
      /\ disturbed' = disturbed \cup Overtaken(ids)
      /\ UNCHANGED <<now, items, itemsSince, anchor, reads, polls>>
  BY DEF Commit
<1>2. ids \in SUBSET Item /\ ops[o].to \in State /\ \A i \in ids : Exists(i)
  BY DEF Types, OpRecord, ClockInv
<1>3. /\ server' \in [Item -> Row] /\ disturbed' \in SUBSET Item
      /\ \A i \in Item : /\ CreatedAt[i] <= server'[i].at
                         /\ IF Exists(i) THEN server'[i].at <= now
                            ELSE server'[i].at = CreatedAt[i]
      /\ \A i \in ids : ~Past(i)'
      /\ \A i \in Item \ ids : server'[i] = server[i] /\ (Past(i)' <=> Past(i))
      /\ \A s \in Poll, i \in ids : i \notin disturbed' => Ahead(s, i)'
      /\ \A s \in Poll, i \in Item \ ids : Ahead(s, i)' <=> Ahead(s, i)
  <2> HIDE DEF ids
  <2>1. QED
    BY <1>1, <1>2, Stamped
<1>4. /\ ops' \in [Op -> OpRecord]
      /\ \A q \in Op : /\ ops'[q].ids = ops[q].ids /\ ops'[q].previous = ops[q].previous
                       /\ ops'[q].overlapped = ops[q].overlapped
                       /\ q # o => ops'[q].phase = ops[q].phase
      /\ ops'[o].phase = "committed"
  BY <1>1 DEF Types, OpRecord
<1> HIDE DEF ids
<1>5. Types'
  BY <1>1, <1>3, <1>4 DEF Types
<1>6. ClockInv'
  BY <1>1, <1>3, <1>4 DEF ClockInv, Exists
<1>7. PollInv' /\ UnsetInv'
  BY <1>1, <1>4 DEF PollInv, UnsetInv, InFlight
<1>8. \A i \in Item : i \notin disturbed' => i \notin disturbed
  BY <1>1
<1>9. \A i \in Item \ ids : \A c : Right(c, i)' <=> Right(c, i)
  BY <1>1, <1>3 DEF Right
<1>10. \A i \in Item \ ids : Sending(i)' <=> Sending(i)
  BY <1>1, <1>4 DEF Sending, ids
<1>11. ReadsRight'
  BY <1>1, <1>3, <1>8, <1>9, <1>10 DEF ReadsRight
<1>12. PreviousRight'
  <2> SUFFICES ASSUME NEW q \in Op, InFlight(q)', ~ops'[q].overlapped,
                      NEW i \in ops'[q].ids \ disturbed', Past(i)'
               PROVE  (ops[q].phase = "sent" /\ Right(ops[q].previous[i], i))'
    BY DEF PreviousRight
  <2>1. i \in Item \ ids /\ Past(i) /\ i \notin disturbed
    BY <1>3, <1>4, <1>8 DEF Types, OpRecord
  <2>2. q # o
    BY <1>4, <2>1 DEF ids
  <2>3. QED
    <3>1. /\ InFlight(q) /\ ~ops[q].overlapped /\ i \in ops[q].ids \ disturbed
          /\ ops'[q].phase = ops[q].phase /\ ops'[q].previous = ops[q].previous
      BY <1>4, <2>1, <2>2 DEF InFlight
    <3>2. ops[q].phase = "sent" /\ Right(ops[q].previous[i], i)
      BY <2>1, <3>1 DEF PreviousRight
    <3>3. QED
      BY <1>1, <1>3, <2>1, <3>1, <3>2 DEF Right
<1>13. CopyRight'
  BY <1>1, <1>3, <1>8, <1>9, <1>10 DEF CopyRight
<1>14. QED
  BY <1>5, <1>6, <1>7, <1>11, <1>12, <1>13

(* An answer of the list makes what it lists right, and the first one sets *)
(* the anchor below all that it does not list.                             *)
LEMMA ListItemsInv == ReadInv /\ ListItems => ReadInv'
<1> SUFFICES ASSUME ReadInv, ListItems PROVE ReadInv'
  OBVIOUS
<1> USE DEF ReadInv
<1> DEFINE listed == {i \in Item : Exists(i) /\ CreatedAt[i] >= itemsSince}
<1>1. /\ items' = [i \in Item |-> IF i \in listed THEN server[i].is ELSE items[i]]
      /\ UNCHANGED <<now, server, reads, polls, ops, disturbed>>
  BY DEF ListItems
<1>2. /\ itemsSince' \in Time /\ itemsSince' <= now
      /\ anchor' \in Time \cup {NoAnchor} /\ anchor' <= now
      /\ anchor # NoAnchor => anchor' = anchor
      /\ itemsSince = 0 /\ anchor' = NoAnchor => items' = items /\ itemsSince' = 0
  BY ListMoves
<1>3. \A i \in Item : \A c : Right(c, i) => Right(c, i)'
  BY <1>1 DEF Right
<1>4. anchor # NoAnchor => \A i \in Item : Past(i)' <=> Past(i)
  BY <1>1, <1>2 DEF Past
<1>5. Types'
  <2>1. items' \in Copy
    BY <1>1 DEF Types, Copy, Row
  <2>2. QED
    BY <1>1, <1>2, <2>1 DEF Types
<1>6. ClockInv'
  BY <1>1, <1>2 DEF ClockInv, Exists
<1>7. PollInv'
  BY <1>1 DEF PollInv
<1>8. UnsetInv'
  <2> SUFFICES ASSUME anchor' = NoAnchor
               PROVE  /\ items' = Empty /\ reads' = Empty /\ itemsSince' = 0
                      /\ \A s \in Poll : polls'[s].phase = "idle"
                      /\ \A o \in Op : ~InFlight(o)'
    BY DEF UnsetInv, Empty
  <2>1. anchor = NoAnchor
    BY <1>2
  <2>2. QED
    BY <1>1, <1>2, <2>1 DEF UnsetInv, InFlight
<1>9. ReadsRight'
  <2> SUFFICES ASSUME NEW i \in Item, Past(i)', ~Sending(i)', i \notin disturbed'
               PROVE  Right(reads[i], i)'
    BY DEF ReadsRight
  <2>1. CASE anchor # NoAnchor
    <3>1. Past(i) /\ ~Sending(i) /\ i \notin disturbed
      BY <1>1, <1>4, <2>1 DEF Sending
    <3>2. Right(reads[i], i)
      BY <3>1 DEF ReadsRight
    <3>3. QED
      BY <1>1, <3>2 DEF Right
  <2>2. CASE anchor = NoAnchor
    <3>1. reads[i] = "none" /\ itemsSince = 0 /\ \A s \in Poll : polls[s].since = NoAnchor
      BY <2>2 DEF UnsetInv, Empty, PollInv, IdlePoll
    <3>2. anchor' > server[i].at
      <4>1. \A s \in Poll : ~(polls[s].since > server[i].at)
        <5>1. server[i].at >= 0
          BY ReadSyncAssumption DEF Types, Row, Time
        <5>2. QED
          BY <3>1, <5>1, Numbers DEF NoAnchor
      <4>2. QED
        BY <1>1, <4>1 DEF Past
    <3>3. Exists(i)
      BY <1>2, <3>2, Numbers, TimeIsInt DEF ClockInv, Exists
    <3>4. i \in listed
      BY <3>1, <3>3, ReadSyncAssumption
    <3>5. items'[i] = server'[i].is
      BY <1>1, <3>4
    <3>6. QED
      BY <1>1, <3>1, <3>5 DEF Right
  <2>3. QED
    BY <2>1, <2>2
<1> HIDE DEF listed
<1>10. PreviousRight'
  <2> SUFFICES ASSUME NEW q \in Op, InFlight(q)', ~ops'[q].overlapped,
                      NEW i \in ops'[q].ids \ disturbed', Past(i)'
               PROVE  (ops[q].phase = "sent" /\ Right(ops[q].previous[i], i))'
    BY DEF PreviousRight
  <2>1. InFlight(q) /\ i \in Item
    BY <1>1 DEF InFlight, Types, OpRecord
  <2>2. anchor # NoAnchor
    BY <2>1 DEF UnsetInv
  <2>3. ops[q].phase = "sent" /\ Right(ops[q].previous[i], i)
    BY <1>1, <1>4, <2>1, <2>2 DEF PreviousRight
  <2>4. QED
    BY <1>1, <1>3, <2>1, <2>3 DEF Right
<1>11. CopyRight'
  <2> SUFFICES ASSUME NEW s \in Poll, polls'[s].current, NEW i \in Item,
                      i \notin disturbed', ~Sending(i)'
               PROVE  (Right(polls[s].copy[i], i) \/ Ahead(s, i))'
    BY DEF CopyRight
  <2>1. polls[s].current /\ i \notin disturbed /\ ~Sending(i)
    BY <1>1 DEF Sending
  <2>2. anchor # NoAnchor
    BY <2>1 DEF UnsetInv, PollInv, IdlePoll
  <2>3. Right(polls[s].copy[i], i) \/ Ahead(s, i)
    BY <2>1 DEF CopyRight
  <2>4. CASE Right(polls[s].copy[i], i)
    BY <1>1, <2>4 DEF Right
  <2>5. CASE Ahead(s, i)
    BY <1>1, <1>4, <2>2, <2>5 DEF Ahead, Key
  <2>6. QED
    BY <2>3, <2>4, <2>5
<1>12. QED
  BY <1>5, <1>6, <1>7, <1>8, <1>9, <1>10, <1>11

(* The user marks items of the list.                                       *)
LEMMA UpdateInv ==
  ASSUME ReadInv, NEW o \in Op, NEW ids \in SUBSET Marked, ids # {}, NEW v \in State,
         Update(o, ids, v)
  PROVE  ReadInv'
<1> USE DEF ReadInv
<1> DEFINE others == {q \in Op : InFlight(q) /\ ops[q].ids \cap ids # {}}
           previous == [i \in Item |-> IF i \in ids THEN reads[i] ELSE "none"]
           sent == [phase |-> "sent", ids |-> ids, to |-> v, previous |-> previous,
                    overlapped |-> others # {}]
<1>1. /\ ops[o].phase = "idle" /\ \A i \in ids : items[i] # "none"
      /\ ops' = [q \in Op |-> IF q = o THEN sent
                              ELSE [ops[q] EXCEPT !.overlapped = @ \/ q \in others]]
      /\ reads' = [i \in Item |-> IF i \in ids THEN v ELSE reads[i]]
      /\ UNCHANGED <<now, server, items, itemsSince, anchor, polls, disturbed>>
  BY DEF Update, listVars
<1>2. ids \subseteq Item
  BY ReadSyncAssumption
<1>3. sent \in OpRecord
  <2>1. previous \in Copy
    BY DEF Types, Copy
  <2> HIDE DEF previous, others
  <2>2. QED
    BY <1>2, <2>1 DEF OpRecord
<1>4. \A q \in Op : [ops[q] EXCEPT !.overlapped = @ \/ q \in others] \in OpRecord
  BY DEF Types, OpRecord
<1>5. /\ ops'[o].phase = "sent" /\ ops'[o].ids = ids /\ ops'[o].previous = previous
      /\ ~ops'[o].overlapped => others = {}
  BY <1>1
<1>6. \A q \in Op \ {o} : /\ ops'[q].phase = ops[q].phase /\ ops'[q].ids = ops[q].ids
                          /\ ops'[q].previous = ops[q].previous
                          /\ ~ops'[q].overlapped => ~ops[q].overlapped
  BY <1>1 DEF Types, OpRecord
<1>7. Types'
  <2>1. reads' \in Copy
    BY <1>1 DEF Types, Copy
  <2>2. ops' \in [Op -> OpRecord]
    <3> HIDE DEF sent, others
    <3>1. QED
      BY <1>1, <1>3, <1>4
  <2>3. QED
    BY <1>1, <2>1, <2>2 DEF Types
<1> HIDE DEF sent, others, previous
<1>8. ClockInv'
  <2>1. \A q \in Op : \A i \in ops'[q].ids : Exists(i)
    BY <1>1, <1>2, <1>5, <1>6 DEF ClockInv
  <2>2. QED
    BY <1>1, <2>1 DEF ClockInv, Exists
<1>9. PollInv'
  BY <1>1 DEF PollInv
<1>10. UnsetInv'
  <2>1. anchor # NoAnchor
    BY <1>1, <1>2 DEF UnsetInv, Empty
  <2>2. QED
    BY <1>1, <2>1 DEF UnsetInv
<1>11. \A i \in Item : /\ Past(i)' <=> Past(i)
                       /\ Sending(i)' <=> Sending(i) \/ i \in ids
  BY <1>1, <1>5, <1>6 DEF Past, Sending
<1>12. \A i \in Item : \A c : Right(c, i)' <=> Right(c, i)
  BY <1>1 DEF Right
<1>13. ReadsRight'
  BY <1>1, <1>11, <1>12 DEF ReadsRight
<1>14. PreviousRight'
  <2> SUFFICES ASSUME NEW q \in Op, InFlight(q)', ~ops'[q].overlapped,
                      NEW i \in ops'[q].ids \ disturbed', Past(i)'
               PROVE  (ops[q].phase = "sent" /\ Right(ops[q].previous[i], i))'
    BY DEF PreviousRight
  <2>1. CASE q = o
    <3>1. i \in ids /\ i \in Item /\ others = {}
      BY <1>2, <1>5, <2>1
    <3>2. ~Sending(i)
      BY <3>1 DEF Sending, others, InFlight
    <3>3. Right(reads[i], i)
      BY <1>1, <1>11, <3>1, <3>2 DEF ReadsRight
    <3>4. previous[i] = reads[i]
      BY <3>1 DEF previous
    <3>5. QED
      BY <1>1, <1>5, <2>1, <3>3, <3>4 DEF Right
  <2>2. CASE q # o
    <3>1. /\ InFlight(q) /\ ~ops[q].overlapped /\ i \in ops[q].ids \ disturbed
          /\ i \in Item /\ ops'[q].phase = ops[q].phase /\ ops'[q].previous = ops[q].previous
      BY <1>1, <1>6, <2>2 DEF InFlight, Types, OpRecord
    <3>2. ops[q].phase = "sent" /\ Right(ops[q].previous[i], i)
      BY <1>11, <3>1 DEF PreviousRight
    <3>3. QED
      BY <1>1, <3>1, <3>2 DEF Right
  <2>3. QED
    BY <2>1, <2>2
<1>15. CopyRight'
  <2>1. \A s \in Poll, i \in Item : Ahead(s, i)' <=> Ahead(s, i)
    BY <1>1, <1>11 DEF Ahead, Key
  <2>2. QED
    BY <1>1, <1>11, <1>12, <2>1 DEF CopyRight
<1>16. QED
  BY <1>7, <1>8, <1>9, <1>10, <1>13, <1>14, <1>15

(* The request of an update has an answer.                                 *)
LEMMA AcknowledgeInv ==
  ASSUME ReadInv, NEW o \in Op, Acknowledge(o)
  PROVE  ReadInv'
<1> USE DEF ReadInv
<1>1. /\ ops[o].phase = "committed" /\ ops' = [ops EXCEPT ![o] = Done]
      /\ UNCHANGED <<now, server, items, itemsSince, anchor, reads, polls, disturbed>>
  BY DEF Acknowledge, listVars
<1>2. ops'[o] = Done /\ \A q \in Op \ {o} : ops'[q] = ops[q]
  BY <1>1 DEF Types
<1>3. Types'
  BY <1>1, IdleType DEF Types
<1>4. ClockInv'
  <2>1. \A q \in Op : \A i \in ops'[q].ids : Exists(i)
    BY <1>2 DEF ClockInv, Done
  <2>2. QED
    BY <1>1, <2>1 DEF ClockInv, Exists
<1>5. PollInv'
  BY <1>1 DEF PollInv
<1>6. UnsetInv'
  BY <1>1, <1>2 DEF UnsetInv, InFlight, Done
<1>7. \A i \in Item : (Past(i)' <=> Past(i)) /\ (Sending(i)' <=> Sending(i))
  BY <1>1, <1>2 DEF Past, Sending, Done
<1>8. ReadsRight'
  BY <1>1, <1>7 DEF ReadsRight, Right
<1>9. PreviousRight'
  <2> SUFFICES ASSUME NEW q \in Op, InFlight(q)', ~ops'[q].overlapped,
                      NEW i \in ops'[q].ids \ disturbed', Past(i)'
               PROVE  (ops[q].phase = "sent" /\ Right(ops[q].previous[i], i))'
    BY DEF PreviousRight
  <2>1. q # o /\ InFlight(q) /\ ops'[q] = ops[q] /\ i \in Item
    BY <1>2 DEF InFlight, Done, Types, OpRecord
  <2>2. ops[q].phase = "sent" /\ Right(ops[q].previous[i], i)
    BY <1>1, <1>7, <2>1 DEF PreviousRight
  <2>3. QED
    BY <1>1, <2>1, <2>2 DEF Right
<1>10. CopyRight'
  <2>1. \A s \in Poll, i \in Item : Ahead(s, i)' <=> Ahead(s, i)
    BY <1>1, <1>7 DEF Ahead, Key
  <2>2. QED
    BY <1>1, <1>7, <2>1 DEF CopyRight, Right
<1>11. QED
  BY <1>3, <1>4, <1>5, <1>6, <1>8, <1>9, <1>10

(* An update fails and is rolled back.                                     *)
LEMMA FailInv ==
  ASSUME ReadInv, NEW o \in Op, Fail(o)
  PROVE  ReadInv'
<1> USE DEF ReadInv
<1> DEFINE ids == ops[o].ids
<1>1. /\ InFlight(o) /\ reads' = RolledBack(o) /\ ops' = [ops EXCEPT ![o] = Done]
      /\ UNCHANGED <<now, server, items, itemsSince, anchor, polls>>
      /\ disturbed \subseteq disturbed' /\ disturbed' \subseteq disturbed \cup ids
      /\ ops[o].overlapped \/ (\E s \in Poll : polls[s].current) => ids \subseteq disturbed'
  BY DEF Fail, listVars
<1>2. /\ ops'[o] = Done /\ \A q \in Op \ {o} : ops'[q] = ops[q]
      /\ ids \in SUBSET Item /\ ops[o].previous \in Copy
  BY <1>1 DEF Types, OpRecord
<1>3. Types'
  <2>1. reads' \in Copy
    BY <1>1, <1>2 DEF RolledBack, Types, Copy
  <2>2. ops' \in [Op -> OpRecord]
    BY <1>1, IdleType DEF Types
  <2>3. disturbed' \in SUBSET Item
    BY <1>1, <1>2 DEF Types
  <2>4. QED
    BY <1>1, <2>1, <2>2, <2>3 DEF Types
<1> HIDE DEF ids
<1>4. ClockInv'
  <2>1. \A q \in Op : \A i \in ops'[q].ids : Exists(i)
    BY <1>2 DEF ClockInv, Done
  <2>2. QED
    BY <1>1, <2>1 DEF ClockInv, Exists
<1>5. PollInv'
  BY <1>1 DEF PollInv
<1>6. UnsetInv'
  BY <1>1 DEF UnsetInv
<1>7. \A i \in Item : /\ Past(i)' <=> Past(i)
                      /\ Sending(i) => Sending(i)' \/ i \in ids
  BY <1>1, <1>2 DEF Past, Sending, Done, ids
<1>8. ReadsRight'
  <2> SUFFICES ASSUME NEW i \in Item, Past(i)', ~Sending(i)', i \notin disturbed'
               PROVE  Right(reads[i], i)'
    BY DEF ReadsRight
  <2>1. CASE i \in ids
    <3>1. ~ops[o].overlapped /\ i \notin disturbed
      BY <1>1, <2>1
    <3>2. Right(ops[o].previous[i], i)
      BY <1>1, <1>7, <2>1, <3>1 DEF PreviousRight, ids
    <3>3. reads'[i] = ops[o].previous[i]
      BY <1>1, <2>1 DEF RolledBack, ids
    <3>4. QED
      BY <1>1, <3>2, <3>3 DEF Right
  <2>2. CASE i \notin ids
    <3>1. Right(reads[i], i)
      BY <1>1, <1>7, <2>2 DEF ReadsRight
    <3>2. reads'[i] = reads[i]
      BY <1>1, <2>2 DEF RolledBack, ids
    <3>3. QED
      BY <1>1, <3>1, <3>2 DEF Right
  <2>3. QED
    BY <2>1, <2>2
<1>9. PreviousRight'
  <2> SUFFICES ASSUME NEW q \in Op, InFlight(q)', ~ops'[q].overlapped,
                      NEW i \in ops'[q].ids \ disturbed', Past(i)'
               PROVE  (ops[q].phase = "sent" /\ Right(ops[q].previous[i], i))'
    BY DEF PreviousRight
  <2>1. q # o /\ InFlight(q) /\ ops'[q] = ops[q] /\ i \in Item
    BY <1>2 DEF InFlight, Done, Types, OpRecord
  <2>2. ops[q].phase = "sent" /\ Right(ops[q].previous[i], i)
    BY <1>1, <1>7, <2>1 DEF PreviousRight
  <2>3. QED
    BY <1>1, <2>1, <2>2 DEF Right
<1>10. CopyRight'
  <2> SUFFICES ASSUME NEW s \in Poll, polls'[s].current, NEW i \in Item,
                      i \notin disturbed', ~Sending(i)'
               PROVE  (Right(polls[s].copy[i], i) \/ Ahead(s, i))'
    BY DEF CopyRight
  <2>1. polls[s].current /\ i \notin ids /\ i \notin disturbed /\ ~Sending(i)
    BY <1>1, <1>7
  <2>2. Right(polls[s].copy[i], i) \/ Ahead(s, i)
    BY <2>1 DEF CopyRight
  <2>3. Ahead(s, i)' <=> Ahead(s, i)
    BY <1>1, <1>7 DEF Ahead, Key
  <2>4. QED
    BY <1>1, <2>2, <2>3 DEF Right
<1>11. QED
  BY <1>3, <1>4, <1>5, <1>6, <1>8, <1>9, <1>10

-----------------------------------------------------------------------------
(* The runs of the query.                                                  *)

(* What is past is so for the anchor or for a poll that began at it.       *)
LEMMA PastStays ==
  ASSUME Types, UNCHANGED <<server, anchor>>,
         \A s \in Poll : \/ polls'[s].since \in {anchor, NoAnchor}
                         \/ \E t \in Poll : polls'[s].since = polls[t].since,
         NEW i \in Item, Past(i)'
  PROVE  Past(i)
<1>1. server[i].at >= 0
  BY ReadSyncAssumption DEF Types, Row, Time
<1>2. CASE anchor' > server'[i].at
  BY <1>2 DEF Past
<1>3. CASE \E s \in Poll : polls'[s].since > server'[i].at
  <2>1. PICK s \in Poll : polls'[s].since > server[i].at
    BY <1>3
  <2>2. polls'[s].since # NoAnchor
    BY <1>1, <2>1, Numbers DEF NoAnchor
  <2>3. QED
    BY <2>1, <2>2 DEF Past
<1>4. QED
  BY <1>2, <1>3 DEF Past

(* What the steps of polls have in common that leave the copy alone.       *)
LEMMA QuietPoll ==
  ASSUME ReadInv, polls' \in [Poll -> PollRecord], PollInv', CopyRight',
         UNCHANGED <<now, server, items, itemsSince, anchor, reads, ops, disturbed>>,
         anchor = NoAnchor => \A s \in Poll : polls'[s].phase = "idle",
         \A s \in Poll : /\ polls'[s].newest <= now /\ polls'[s].cursor[1] <= now
                         /\ \/ polls'[s].since \in {anchor, NoAnchor}
                            \/ \E t \in Poll : polls'[s].since = polls[t].since
  PROVE  ReadInv'
<1> USE DEF ReadInv
<1>1. Types'
  BY DEF Types
<1>2. \A s \in Poll : polls'[s].since <= now
  BY Numbers DEF ClockInv, NoAnchor, Types, Time
<1>3. ClockInv'
  BY <1>2 DEF ClockInv, Exists
<1>4. UnsetInv'
  BY DEF UnsetInv, InFlight
<1>5. \A i \in Item : Past(i)' => Past(i)
  BY PastStays
<1>6. ReadsRight'
  BY <1>5 DEF ReadsRight, Sending, Right
<1>7. PreviousRight'
  BY <1>5 DEF PreviousRight, InFlight, Right, Types, OpRecord
<1>8. QED
  BY <1>1, <1>3, <1>4, <1>6, <1>7

(* A run begins at the anchor: what it does not ask for, the copy has.     *)
LEMMA BegunRight ==
  ASSUME ReadInv, NEW i \in Item, i \notin disturbed, ~Sending(i)
  PROVE  Right(reads[i], i) \/ Precedes(<<anchor, 0>>, Key(i))
<1>1. CASE Past(i)
  BY <1>1 DEF ReadInv, ReadsRight
<1>2. CASE ~Past(i)
  <2>1. anchor <= server[i].at /\ 0 < i
    BY <1>2, Numbers DEF ReadInv, Past
  <2>2. QED
    BY <2>1, Numbers DEF ReadInv, Precedes, Key
<1>3. QED
  BY <1>1, <1>2

(* The query is due.                                                       *)
LEMMA StartPollInv ==
  ASSUME ReadInv, NEW s \in Poll, StartPoll(s)
  PROVE  ReadInv'
<1> USE DEF ReadInv
<1>1. CASE anchor = NoAnchor
  <2>1. UNCHANGED vars
    BY <1>1 DEF StartPoll, UnsetInv, vars
  <2>2. QED
    BY <2>1 DEF vars, listVars, Types, ClockInv, PollInv, UnsetInv, ReadsRight, PreviousRight,
                CopyRight, Past, Right, Sending, Ahead, Key, InFlight, Exists
<1>2. CASE anchor # NoAnchor
  <2>1. /\ polls' = [polls EXCEPT ![s] = Begun] /\ \A t \in Poll : ~polls[t].current
        /\ UNCHANGED <<now, server, items, itemsSince, anchor, reads, ops, disturbed>>
    BY <1>2 DEF StartPoll, listVars
  <2>2. /\ polls'[s] = Begun /\ \A t \in Poll \ {s} : polls'[t] = polls[t]
        /\ polls' \in [Poll -> PollRecord]
    BY <2>1, BegunIs DEF Types
  <2>3. anchor \in Time /\ anchor <= now
    BY <1>2 DEF Types, ClockInv
  <2>4. PollInv'
    BY <2>1, <2>2, <2>3, BegunIs DEF PollInv
  <2>5. \A t \in Poll : /\ polls'[t].newest <= now /\ polls'[t].cursor[1] <= now
                        /\ \/ polls'[t].since \in {anchor, NoAnchor}
                           \/ \E u \in Poll : polls'[t].since = polls[u].since
    <3>1. NoAnchor <= now
      BY <2>3, TimeIsInt, Numbers DEF NoAnchor, Time
    <3>2. QED
      BY <2>2, <2>3, <3>1, BegunIs DEF ClockInv
  <2>6. CopyRight'
    <3> SUFFICES ASSUME NEW t \in Poll, polls'[t].current, NEW i \in Item,
                        i \notin disturbed', ~Sending(i)'
                 PROVE  (Right(polls[t].copy[i], i) \/ Ahead(t, i))'
      BY DEF CopyRight
    <3>1. t = s
      BY <2>1, <2>2
    <3>2. Right(reads[i], i) \/ Precedes(<<anchor, 0>>, Key(i))
      BY <2>1, BegunRight DEF Sending
    <3>3. QED
      BY <2>1, <2>2, <3>1, <3>2, BegunIs DEF Right, Ahead, Key
  <2>7. QED
    BY <1>2, <2>1, <2>2, <2>4, <2>5, <2>6, QuietPoll
<1>3. QED
  BY <1>1, <1>2

(* A run is cancelled and another takes its place.                         *)
LEMMA InvalidateInv ==
  ASSUME ReadInv, NEW s \in Poll, NEW t \in Poll, Invalidate(s, t)
  PROVE  ReadInv'
<1> USE DEF ReadInv
<1> DEFINE dropped == [polls[t] EXCEPT !.current = FALSE, !.copy = Empty]
<1>1. /\ polls[s].phase = "idle" /\ polls[t].current
      /\ polls' = [polls EXCEPT ![s] = Begun, ![t] = dropped]
      /\ UNCHANGED <<now, server, items, itemsSince, anchor, reads, ops, disturbed>>
  BY DEF Invalidate, listVars
<1>2. s # t /\ polls[t].phase # "idle"
  BY <1>1 DEF PollInv, IdlePoll
<1>3. /\ dropped \in PollRecord /\ dropped.current = FALSE
      /\ dropped.phase = polls[t].phase /\ dropped.since = polls[t].since
      /\ dropped.newest = polls[t].newest /\ dropped.cursor = polls[t].cursor
  BY IdleType DEF Types, PollRecord
<1>4. anchor # NoAnchor
  BY <1>2 DEF UnsetInv
<1> HIDE DEF dropped
<1>5. /\ polls'[s] = Begun /\ polls'[t] = dropped
      /\ \A u \in Poll \ {s, t} : polls'[u] = polls[u] /\ ~polls'[u].current
      /\ polls' \in [Poll -> PollRecord]
  BY <1>1, <1>2, <1>3, BegunIs DEF Types, PollInv
<1>6. anchor \in Time /\ anchor <= now
  BY <1>4 DEF Types, ClockInv
<1>7. PollInv'
  <2>1. \A u, v \in Poll : polls'[u].current /\ polls'[v].current => u = v
    BY <1>3, <1>5
  <2>2. ASSUME NEW u \in Poll
        PROVE  IF polls'[u].phase = "idle" THEN polls'[u] = IdlePoll
               ELSE polls'[u].since \in Time
    BY <1>2, <1>3, <1>5, <1>6, BegunIs DEF PollInv
  <2>3. QED
    BY <2>1, <2>2 DEF PollInv, IdlePoll
<1>8. \A u \in Poll : /\ polls'[u].newest <= now /\ polls'[u].cursor[1] <= now
                      /\ \/ polls'[u].since \in {anchor, NoAnchor}
                         \/ \E w \in Poll : polls'[u].since = polls[w].since
  <2>1. NoAnchor <= now
    BY <1>6, TimeIsInt, Numbers DEF NoAnchor, Time
  <2>2. QED
    BY <1>3, <1>5, <1>6, <2>1, BegunIs DEF ClockInv
<1>9. CopyRight'
  <2> SUFFICES ASSUME NEW u \in Poll, polls'[u].current, NEW i \in Item,
                      i \notin disturbed', ~Sending(i)'
               PROVE  (Right(polls[u].copy[i], i) \/ Ahead(u, i))'
    BY DEF CopyRight
  <2>1. u = s
    BY <1>3, <1>5
  <2>2. Right(reads[i], i) \/ Precedes(<<anchor, 0>>, Key(i))
    BY <1>1, BegunRight DEF Sending
  <2>3. QED
    BY <1>1, <1>5, <2>1, <2>2, BegunIs DEF Right, Ahead, Key
<1>10. QED
  BY <1>1, <1>4, <1>5, <1>7, <1>8, <1>9, QuietPoll

(* A request fails.                                                        *)
LEMMA PollFailsInv ==
  ASSUME ReadInv, NEW s \in Poll, PollFails(s)
  PROVE  ReadInv'
<1> USE DEF ReadInv
<1>1. /\ polls' = [polls EXCEPT ![s] = IdlePoll]
      /\ UNCHANGED <<now, server, items, itemsSince, anchor, reads, ops, disturbed>>
  BY DEF PollFails, listVars
<1>2. /\ polls'[s] = IdlePoll /\ \A u \in Poll \ {s} : polls'[u] = polls[u]
      /\ polls' \in [Poll -> PollRecord]
  BY <1>1, IdleType DEF Types
<1>3. PollInv'
  BY <1>2 DEF PollInv, IdlePoll
<1>4. NoAnchor <= now
  BY TimeIsInt DEF NoAnchor, Types, Time
<1>5. \A u \in Poll : /\ polls'[u].newest <= now /\ polls'[u].cursor[1] <= now
                      /\ \/ polls'[u].since \in {anchor, NoAnchor}
                         \/ \E w \in Poll : polls'[u].since = polls[w].since
  BY <1>2, <1>4 DEF ClockInv, IdlePoll
<1>6. \A i \in Item : Past(i)' => Past(i)
  BY <1>1, <1>5, PastStays
<1>7. CopyRight'
  BY <1>1, <1>2, <1>6 DEF CopyRight, Right, Ahead, Key, Sending, IdlePoll
<1>8. anchor = NoAnchor => \A u \in Poll : polls'[u].phase = "idle"
  BY <1>2 DEF UnsetInv, IdlePoll
<1>9. QED
  BY <1>1, <1>2, <1>3, <1>5, <1>7, <1>8, QuietPoll

(* A request is answered.                                                  *)
LEMMA PageInv ==
  ASSUME ReadInv, NEW s \in Poll, Page(s)
  PROVE  ReadInv'
<1> USE DEF ReadInv
<1>1. /\ polls[s].phase = "asking"
      /\ UNCHANGED <<now, server, items, itemsSince, anchor, reads, ops, disturbed>>
  BY PageIs DEF listVars
<1>2. PICK p \in PollRecord :
        /\ polls' = [polls EXCEPT ![s] = p]
        /\ p.current = polls[s].current /\ p.since = polls[s].since
        /\ p.newest <= now
        /\ p.copy = [i \in Item |-> IF polls[s].current /\ i \in PageOf(s)
                                    THEN server[i].is ELSE polls[s].copy[i]]
        /\ \/ /\ PageOf(s) = After(s) /\ p.phase = "answered"
              /\ p.cursor = IdlePoll.cursor
           \/ /\ PageOf(s) # After(s) /\ p.phase = "asking"
              /\ p.cursor = Key(LastOf(s)) /\ LastOf(s) \in After(s)
  BY PageLeaves
<1>3. /\ polls'[s] = p /\ \A u \in Poll \ {s} : polls'[u] = polls[u]
      /\ polls' \in [Poll -> PollRecord]
  BY <1>2 DEF Types
<1>4. p.cursor[1] <= now
  <2>1. CASE p.cursor = IdlePoll.cursor
    BY <2>1, TimeIsInt DEF IdlePoll, NoAnchor, Types, Time
  <2>2. CASE p.cursor = Key(LastOf(s)) /\ LastOf(s) \in After(s)
    BY <2>2 DEF After, Key, ClockInv
  <2>3. QED
    BY <1>2, <2>1, <2>2
<1>5. PollInv'
  BY <1>1, <1>2, <1>3 DEF PollInv
<1>6. \A u \in Poll : /\ polls'[u].newest <= now /\ polls'[u].cursor[1] <= now
                      /\ \/ polls'[u].since \in {anchor, NoAnchor}
                         \/ \E w \in Poll : polls'[u].since = polls[w].since
  BY <1>2, <1>3, <1>4 DEF ClockInv
<1>7. \A i \in Item : Past(i)' => Past(i)
  BY <1>1, <1>6, PastStays
<1>8. ASSUME NEW i \in Item, ~Exists(i)
      PROVE  /\ ~Past(i) /\ now < server[i].at
             /\ \A k \in Item : Exists(k) => Precedes(Key(k), Key(i))
  <2>1. now < server[i].at
    BY <1>8, Numbers DEF ClockInv, Exists
  <2>2. ~Past(i)
    BY <2>1, Numbers DEF ClockInv, Past
  <2>3. ASSUME NEW k \in Item, Exists(k) PROVE Precedes(Key(k), Key(i))
    <3>1. server[k].at <= now
      BY <2>3 DEF ClockInv
    <3>2. QED
      BY <2>1, <3>1, Numbers DEF Precedes, Key
  <2>4. QED
    BY <2>1, <2>2, <2>3
<1>9. CopyRight'
  <2> SUFFICES ASSUME NEW u \in Poll, polls'[u].current, NEW i \in Item,
                      i \notin disturbed', ~Sending(i)'
               PROVE  (Right(polls[u].copy[i], i) \/ Ahead(u, i))'
    BY DEF CopyRight
  <2>1. polls[u].current /\ i \notin disturbed /\ ~Sending(i)
    BY <1>1, <1>2, <1>3 DEF Sending
  <2>2. Right(polls[u].copy[i], i) \/ Ahead(u, i)
    BY <2>1 DEF CopyRight
  <2>3. CASE u # s
    BY <1>1, <1>3, <1>7, <2>2, <2>3 DEF Right, Ahead, Key
  <2>4. CASE u = s
    <3>1. CASE i \in PageOf(s)
      <4>1. p.copy[i] = server[i].is
        BY <1>2, <2>1, <2>4, <3>1
      <4>2. QED
        BY <1>1, <1>3, <2>4, <4>1 DEF Right
    <3>2. CASE i \notin PageOf(s) /\ Right(polls[s].copy[i], i)
      <4>1. p.copy[i] = polls[s].copy[i]
        BY <1>2, <3>2
      <4>2. QED
        BY <1>1, <1>3, <2>4, <3>2, <4>1 DEF Right
    <3>3. CASE i \notin PageOf(s) /\ Precedes(polls[s].cursor, Key(i))
      <4>1. i \notin After(s) => ~Exists(i)
        BY <3>3 DEF After
      <4>2. CASE PageOf(s) = After(s)
        <5>1. p.phase = "answered" /\ ~Exists(i)
          BY <1>2, <3>3, <4>1, <4>2
        <5>2. ~Past(i) /\ p.newest <= server[i].at
          <6>1. p.newest \in Int
            BY TimeIsInt DEF PollRecord
          <6>2. QED
            BY <1>2, <1>8, <5>1, <6>1, Numbers
        <5>3. QED
          BY <1>1, <1>3, <1>7, <2>4, <5>1, <5>2 DEF Ahead
      <4>3. CASE PageOf(s) # After(s)
        <5>1. p.phase = "asking" /\ p.cursor = Key(LastOf(s)) /\ LastOf(s) \in After(s)
          BY <1>2, <4>3
        <5>2. Precedes(Key(LastOf(s)), Key(i))
          <6>1. CASE i \in After(s)
            BY <3>3, <4>3, <6>1, PageEnds
          <6>2. CASE i \notin After(s)
            BY <1>8, <4>1, <5>1, <6>2 DEF After
          <6>3. QED
            BY <6>1, <6>2
        <5>3. QED
          BY <1>1, <1>3, <2>4, <5>1, <5>2 DEF Ahead, Key
      <4>4. QED
        BY <4>2, <4>3
    <3>4. QED
      BY <1>1, <2>2, <2>4, <3>1, <3>2, <3>3 DEF Ahead
  <2>5. QED
    BY <2>3, <2>4
<1>10. anchor = NoAnchor => \A u \in Poll : polls'[u].phase = "idle"
  BY <1>1 DEF UnsetInv
<1>11. QED
  BY <1>1, <1>3, <1>5, <1>6, <1>9, <1>10, QuietPoll

(* The loop of a run has ended.                                            *)
LEMMA DeliverInv ==
  ASSUME ReadInv, NEW s \in Poll, Deliver(s)
  PROVE  ReadInv'
<1> USE DEF ReadInv
<1> DEFINE p == polls[s]
<1>1. /\ p.phase = "answered" /\ anchor' = NextAnchor(p)
      /\ polls' = [polls EXCEPT ![s] = IdlePoll]
      /\ UNCHANGED <<now, server, items, itemsSince>>
  BY DEF Deliver, listVars
<1>2. /\ polls'[s] = IdlePoll /\ \A u \in Poll \ {s} : polls'[u] = polls[u]
      /\ polls' \in [Poll -> PollRecord]
  BY <1>1, IdleType DEF Types
<1>3. /\ p.since \in Time /\ p.newest \in Time \cup {NoAnchor} /\ p.newest <= now
      /\ p.copy \in Copy /\ anchor # NoAnchor
  BY <1>1 DEF PollInv, Types, PollRecord, ClockInv, UnsetInv
<1>4. anchor' \in Time /\ anchor' <= now
  <2>1. anchor \in Time /\ anchor <= now
    BY <1>3 DEF Types, ClockInv
  <2>2. p.newest > p.since => p.newest \in Time
    BY <1>3, TimeIsInt DEF NoAnchor, Time
  <2> HIDE DEF p
  <2>3. QED
    BY <1>1, <1>3, <2>1, <2>2 DEF NextAnchor
<1>5. ASSUME NEW i \in Item, Past(i)'
      PROVE  Past(i) \/ p.newest > server[i].at
  <2>1. server[i].at >= 0
    BY ReadSyncAssumption DEF Types, Row, Time
  <2>2. CASE anchor' > server'[i].at
    BY <1>1, <2>2 DEF NextAnchor, Past
  <2>3. CASE \E u \in Poll : polls'[u].since > server'[i].at
    BY <1>1, <1>2, <2>1, <2>3, Numbers DEF Past, IdlePoll, NoAnchor
  <2>4. QED
    BY <1>5, <2>2, <2>3 DEF Past
<1>6. /\ reads' \in Copy /\ ops' \in [Op -> OpRecord] /\ disturbed' \in SUBSET Item
      /\ \A o \in Op : ops'[o].ids = ops[o].ids /\ ops'[o].phase = ops[o].phase
  <2>1. reads' \in Copy /\ disturbed' \in SUBSET Item
    BY <1>3 DEF Deliver, Types
  <2>2. /\ ops' \in [Op -> OpRecord]
        /\ \A o \in Op : ops'[o].ids = ops[o].ids /\ ops'[o].phase = ops[o].phase
    <3>1. CASE ops' = ops
      BY <3>1 DEF Types
    <3>2. CASE ops' = [o \in Op |-> [ops[o] EXCEPT !.overlapped = @ \/ InFlight(o)]]
      BY <3>2 DEF Types, OpRecord, InFlight
    <3>3. QED
      BY <3>1, <3>2 DEF Deliver
  <2>3. QED
    BY <2>1, <2>2
<1>7. Types'
  BY <1>1, <1>2, <1>4, <1>6 DEF Types
<1>8. ClockInv'
  <2>1. NoAnchor <= now
    BY TimeIsInt DEF NoAnchor, Types, Time
  <2>2. \A u \in Poll : /\ polls'[u].since <= now /\ polls'[u].newest <= now
                        /\ polls'[u].cursor[1] <= now
    BY <1>2, <2>1 DEF ClockInv, IdlePoll
  <2>3. QED
    BY <1>1, <1>4, <1>6, <2>2 DEF ClockInv, Exists
<1>9. PollInv'
  BY <1>2 DEF PollInv, IdlePoll
<1>10. UnsetInv'
  BY <1>4, TimeIsInt DEF UnsetInv, NoAnchor, Time
<1>11. \A i \in Item : Sending(i)' <=> Sending(i)
  BY <1>6 DEF Sending
<1>12. \A i \in Item : \A c : Right(c, i)' <=> Right(c, i)
  BY <1>1 DEF Right
<1>13. CASE p.current
  <2>1. /\ reads' = p.copy
        /\ ops' = [o \in Op |-> [ops[o] EXCEPT !.overlapped = @ \/ InFlight(o)]]
        /\ disturbed' = disturbed \ {i \in Item : p.copy[i] = server[i].is}
    BY <1>13 DEF Deliver
  <2>2. ReadsRight'
    <3> SUFFICES ASSUME NEW i \in Item, Past(i)', ~Sending(i)', i \notin disturbed'
                 PROVE  Right(reads[i], i)'
      BY DEF ReadsRight
    <3>1. CASE p.copy[i] = server[i].is
      BY <1>1, <2>1, <3>1 DEF Right
    <3>2. CASE p.copy[i] # server[i].is
      <4>1. i \notin disturbed /\ ~Sending(i)
        BY <1>11, <2>1, <3>2
      <4>2. Right(p.copy[i], i) \/ (~Past(i) /\ p.newest <= server[i].at)
        BY <1>1, <1>13, <4>1 DEF CopyRight, Ahead
      <4>3. ~(~Past(i) /\ p.newest <= server[i].at)
        BY <1>5, Numbers
      <4>4. Right(p.copy[i], i)
        BY <4>2, <4>3
      <4>5. QED
        BY <1>1, <2>1, <4>4 DEF Right
    <3>3. QED
      BY <3>1, <3>2
  <2>3. PreviousRight'
    <3>1. ASSUME NEW o \in Op, InFlight(o)' PROVE ops'[o].overlapped
      <4>1. InFlight(o)
        BY <1>6, <3>1 DEF InFlight
      <4>2. ops'[o] = [ops[o] EXCEPT !.overlapped = @ \/ InFlight(o)]
        BY <2>1
      <4>3. ops'[o].overlapped = (ops[o].overlapped \/ InFlight(o))
        BY <4>2 DEF Types, OpRecord
      <4>4. QED
        BY <4>1, <4>3
    <3>2. QED
      BY <3>1 DEF PreviousRight
  <2>4. CopyRight'
    <3>1. \A u \in Poll : ~polls'[u].current
      BY <1>2, <1>13 DEF PollInv, IdlePoll
    <3>2. QED
      BY <3>1 DEF CopyRight
  <2>5. QED
    BY <1>7, <1>8, <1>9, <1>10, <2>2, <2>3, <2>4
<1>14. CASE ~p.current
  <2>1. /\ reads' = reads /\ ops' = ops
        /\ disturbed' = disturbed \cup {i \in Item : server[i].at \in p.since .. p.newest}
    BY <1>14 DEF Deliver
  <2>2. ASSUME NEW i \in Item, i \notin disturbed', Past(i)'
        PROVE  Past(i)
    <3>1. p.newest > server[i].at => p.since > server[i].at
      BY <1>3, <2>1, <2>2, Numbers
    <3>2. QED
      BY <1>5, <2>2, <3>1 DEF Past
  <2>3. ReadsRight'
    BY <1>11, <1>12, <2>1, <2>2 DEF ReadsRight
  <2>4. PreviousRight'
    <3> SUFFICES ASSUME NEW q \in Op, InFlight(q)', ~ops'[q].overlapped,
                        NEW i \in ops'[q].ids \ disturbed', Past(i)'
                 PROVE  (ops[q].phase = "sent" /\ Right(ops[q].previous[i], i))'
      BY DEF PreviousRight
    <3>1. InFlight(q) /\ ~ops[q].overlapped /\ i \in ops[q].ids \ disturbed /\ i \in Item
      BY <2>1 DEF InFlight, Types, OpRecord
    <3>2. ops[q].phase = "sent" /\ Right(ops[q].previous[i], i)
      BY <2>2, <3>1 DEF PreviousRight
    <3>3. QED
      BY <1>1, <2>1, <3>2 DEF Right
  <2>5. CopyRight'
    <3> SUFFICES ASSUME NEW u \in Poll, polls'[u].current, NEW i \in Item,
                        i \notin disturbed', ~Sending(i)'
                 PROVE  (Right(polls[u].copy[i], i) \/ Ahead(u, i))'
      BY DEF CopyRight
    <3>1. polls'[u] = polls[u] /\ polls[u].current /\ i \notin disturbed /\ ~Sending(i)
      BY <1>2, <1>11, <2>1 DEF IdlePoll
    <3>2. Right(polls[u].copy[i], i) \/ Ahead(u, i)
      BY <3>1 DEF CopyRight
    <3>3. QED
      BY <1>1, <2>2, <3>1, <3>2 DEF Right, Ahead, Key
  <2>6. QED
    BY <1>7, <1>8, <1>9, <1>10, <2>3, <2>4, <2>5
<1>15. QED
  BY <1>13, <1>14

-----------------------------------------------------------------------------
(* The theorems.                                                           *)

LEMMA ReadInvStep == ReadInv /\ [Next]_vars => ReadInv'
<1> SUFFICES ASSUME ReadInv, [Next]_vars PROVE ReadInv'
  OBVIOUS
<1>1. CASE Tick
  BY <1>1, TickInv
<1>2. ASSUME NEW i \in Item, NEW v \in State, OtherUpdate(i, v) PROVE ReadInv'
  BY <1>2, OtherUpdateInv
<1>3. ASSUME NEW o \in Op, NEW ids \in (SUBSET Marked) \ {{}}, NEW v \in State, Update(o, ids, v)
      PROVE  ReadInv'
  BY <1>3, UpdateInv
<1>4. CASE ListItems
  BY <1>4, ListItemsInv
<1>5. ASSUME NEW s \in Poll, StartPoll(s) \/ Page(s) \/ Deliver(s) \/ PollFails(s)
      PROVE  ReadInv'
  BY <1>5, StartPollInv, PageInv, DeliverInv, PollFailsInv
<1>6. ASSUME NEW s \in Poll, NEW t \in Poll, Invalidate(s, t) PROVE ReadInv'
  BY <1>6, InvalidateInv
<1>7. ASSUME NEW o \in Op, Commit(o) \/ Acknowledge(o) \/ Fail(o) PROVE ReadInv'
  BY <1>7, CommitInv, AcknowledgeInv, FailInv
<1>8. CASE UNCHANGED vars
  BY <1>8 DEF vars, listVars, ReadInv, Types, ClockInv, PollInv, UnsetInv, ReadsRight,
              PreviousRight, CopyRight, Past, Right, Sending, Ahead, Key, InFlight, Exists
<1>9. QED
  BY <1>1, <1>2, <1>3, <1>4, <1>5, <1>6, <1>7, <1>8 DEF Next, Polling

LEMMA ReadInvHolds == Spec => []ReadInv
  BY InitInv, ReadInvStep, PTL DEF Spec

\* The variables keep their types, and at most one run of the query counts
\* (item-read-db.ts:64, cancelled by invalidateQueries).
THEOREM TypeCorrect == Spec => []TypeOK
<1>1. ASSUME ReadInv PROVE TypeOK
  <2> DEFINE current == {s \in Poll : polls[s].current}
  <2>1. Cardinality(current) <= 1
    <3>1. CASE current = {}
      BY <3>1, FS_EmptySet
    <3>2. CASE current # {}
      <4>1. PICK s \in current : TRUE
        BY <3>2
      <4>2. current = {s}
        BY <1>1, <4>1 DEF ReadInv, PollInv
      <4>3. QED
        BY <4>2, FS_Singleton
    <3>3. QED
      BY <3>1, <3>2
  <2>2. QED
    BY <1>1, <2>1 DEF ReadInv, Types, PollRecord, OpRecord, TypeOK
<1>2. QED
  BY <1>1, ReadInvHolds, PTL

\* A change of the server that is older than the anchor is in the browser's
\* copy, for every item the code has not lost track of (item-read-db.ts:56-60):
\* no page, no cancelled run and no rollback leaves it behind.
THEOREM NoChangeMissed == Spec => []NothingMissed
<1>1. ASSUME ReadInv PROVE NothingMissed
  <2> SUFFICES ASSUME NEW i \in Item, anchor > server[i].at, items[i] # "none", Quiet(i),
                      i \notin disturbed
               PROVE  Shown(i) = server[i].is
    BY DEF NothingMissed
  <2>1. Past(i) /\ ~Sending(i)
    BY DEF Past, Sending, Quiet, InFlight
  <2>2. Right(reads[i], i) /\ server[i].is # "none"
    BY <1>1, <2>1 DEF ReadInv, ReadsRight, Types, Row, State
  <2>3. QED
    BY <2>2 DEF Right, Shown
<1>2. QED
  BY <1>1, ReadInvHolds, PTL
=============================================================================

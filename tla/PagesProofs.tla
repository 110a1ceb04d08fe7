----------------------------- MODULE PagesProofs -------------------------------
(***************************************************************************)
(* The page of the feeds, for any feeds, tags, number of requests and acts *)
(* of users: the types; the spinner is that of the feeds that are fetched; *)
(* what the queries delivered is what the tables hold, once all that was   *)
(* to be told is; and imports are whole.  The swipes, for any positions    *)
(* and however long a gesture lasts: a touch of the screen moves the       *)
(* dialog by one item at most.  And the list of items with its dialog, for *)
(* any items, tags and number of updates: copies of the read state agree   *)
(* with the server, nothing unread is missing, and the dialog leads        *)
(* through everything it was opened on.  Last, the types of all pages and  *)
(* widgets together.                                                       *)
(***************************************************************************)
EXTENDS MCPages, BlockRulesProofs, FiniteOrder, SequenceTheorems

-----------------------------------------------------------------------------
(* The inductive invariant.                                                *)

Kind == {"none", "create", "delete", "manage", "tagInsert", "tagDelete",
         "import", "refresh", "suspend"}
Phase == {"free", "sent", "working", "done", "refused", "telling"}

OpRecord ==
  [kind : Kind, phase : Phase, url : SUBSET Url, ids : SUBSET Id, add : SUBSET Tag,
   remove : SUBSET Tag, wrote : SUBSET Id, todo : Seq(SUBSET Query)]

\* StoreTypeOK, with all that is known of the records.
Types ==
  /\ db \in Tables /\ db.links \subseteq Stored(db) \X db.tags
  /\ used \in [feeds : 0 .. MaxId, tags : SUBSET Tag] /\ db.tags \subseteq used.tags
  /\ cached \in [Query -> Tables] /\ answer \in [Query -> Tables]
  /\ query \in [Query -> {"idle", "asked", "read"}]
  /\ ops \in [Op -> OpRecord]
  /\ marks \subseteq Id /\ errors \subseteq Id /\ crossed \subseteq Id
  /\ acts \in [done : 0 .. MaxActs, sent : 0 .. MaxSent] /\ behind \subseteq Query

\* How far requests of each kind get, and what they have with them there.
OpRight(r) ==
  /\ r.phase = "free" <=> r = Free
  /\ r.phase = "telling" => r.todo # <<>>
  /\ r.phase # "free" => r.kind # "none"
  /\ r.phase = "working" => r.kind \in {"create", "import"}
  /\ r.phase = "working" /\ r.kind = "create" => r.wrote # {}
  /\ r.kind = "refresh" => r.phase \in {"sent", "done"}
  /\ r.kind = "import" =>
       /\ r.phase \in {"sent", "working", "done", "refused"}
       /\ r.phase # "done" => r.wrote = {}
       /\ r.phase = "done" => Cardinality(r.wrote) = Cardinality(r.url)

OpsRight == \A o \in Op : OpRight(ops[o])

UrlsUnique == \A i, j \in Stored(db) : db.feeds[i] = db.feeds[j] => i = j

\* o is a refresh of i that is under way.
Under(o, i) ==
  ops[o].kind = "refresh" /\ i \in ops[o].ids /\ ops[o].phase \in {"sent", "done", "refused"}

MarksRight ==
  /\ \A i \in marks : i \notin errors /\ \E o \in Op : Under(o, i)
  /\ \A o \in Op, i \in Id : Under(o, i) => i \in marks \cup crossed
  /\ \A o, p \in Op, i \in Id : o # p /\ Under(o, i) /\ Under(p, i) => i \in crossed

\* The queries a request will make run again, or will leave behind.
Owed(r) ==
  IF r.phase = "free" THEN {}
  ELSE IF r.phase = "working" THEN {q \in Query : r.kind = "create"}
  ELSE IF r.phase = "telling" THEN UNION Range(r.todo)
  ELSE Changed(r)

\* What q has read and delivered is what the tables hold.
Fresh(q) ==
  /\ query[q] = "idle" => cached[q] = Answer(q, db)
  /\ query[q] = "read" => answer[q] = Answer(q, db)

QueriesRight ==
  \A q \in Query \ behind : Fresh(q) \/ \E o \in Op : q \in Owed(ops[o])

StoreInv == Types /\ OpsRight /\ UrlsUnique /\ MarksRight /\ QueriesRight

\* The page's own variables.
PageTypes ==
  /\ selected \subseteq Id /\ filter \in Tag \cup {"all", "untagged"}
  /\ staged \in [add : SUBSET Tag, remove : SUBSET Tag] /\ staged.add \cap staged.remove = {}
  /\ dialog \in {"none", "tags", "import"} /\ latest \in Op \cup {NoOp}
  /\ form \in [url : Url \cup {NoUrl}, tags : SUBSET Tag, pending : BOOLEAN, error : BOOLEAN]
  /\ imported \in {"choose", "pending", "result", "error"}
  /\ tagName \in Tag \cup {"none"} /\ deleteError \in BOOLEAN

-----------------------------------------------------------------------------
(* What the operators deliver.                                             *)

(* The empty tables are tables.                                            *)
LEMMA NothingIsTables == Nothing \in Tables /\ Stored(Nothing) = {}
  BY DEF Nothing, Tables, Stored

(* The three queries, of any tables.                                       *)
LEMMA Answers ==
  ASSUME NEW d \in Tables
  PROVE  /\ Answer("feeds", d) = [feeds |-> d.feeds, tags |-> {}, links |-> d.links]
         /\ Answer("tags", d) = [feeds |-> Nothing.feeds, tags |-> d.tags, links |-> d.links]
         /\ Answer("feed-tags", d) = [feeds |-> Nothing.feeds, tags |-> {}, links |-> d.links]
         /\ \A q \in Query : Answer(q, d) \in Tables
<1>1. d = [feeds |-> d.feeds, tags |-> d.tags, links |-> d.links]
  BY DEF Tables
<1>2. Nothing = [feeds |-> Nothing.feeds, tags |-> {}, links |-> {}]
  BY DEF Nothing
<1>3. Answer("feeds", d) = [feeds |-> d.feeds, tags |-> {}, links |-> d.links]
  BY <1>1 DEF Answer
<1>4. Answer("tags", d) = [feeds |-> Nothing.feeds, tags |-> d.tags, links |-> d.links]
  BY <1>1 DEF Answer
<1>5. Answer("feed-tags", d) = [feeds |-> Nothing.feeds, tags |-> {}, links |-> d.links]
  BY <1>2 DEF Answer
<1>6. \A q \in Query : Answer(q, d) \in Tables
  <2>1. Nothing.feeds \in [Id -> Url \cup {NoUrl}]
    BY NothingIsTables DEF Tables
  <2>2. d.feeds \in [Id -> Url \cup {NoUrl}] /\ d.tags \subseteq Tag /\ d.links \subseteq Id \X Tag
    BY DEF Tables
  <2>3. QED
    BY <1>3, <1>4, <1>5, <2>1, <2>2 DEF Query, Tables
<1>7. QED
  BY <1>3, <1>4, <1>5, <1>6

(* Two of them do not depend on the tags.                                  *)
LEMMA SameAnswers ==
  ASSUME NEW d \in Tables, NEW e \in Tables, d.feeds = e.feeds, d.links = e.links
  PROVE  Answer("feeds", d) = Answer("feeds", e) /\ Answer("feed-tags", d) = Answer("feed-tags", e)
<1>1. /\ Answer("feeds", d) = [feeds |-> d.feeds, tags |-> {}, links |-> d.links]
      /\ Answer("feed-tags", d) = [feeds |-> Nothing.feeds, tags |-> {}, links |-> d.links]
  BY Answers
<1>2. /\ Answer("feeds", e) = [feeds |-> e.feeds, tags |-> {}, links |-> e.links]
      /\ Answer("feed-tags", e) = [feeds |-> Nothing.feeds, tags |-> {}, links |-> e.links]
  BY Answers
<1>3. QED
  BY <1>1, <1>2

(* What a request invalidates is a list of sets of queries, one set for    *)
(* refreshes and imports.                                                  *)
LEMMA ToldList ==
  ASSUME NEW kind \in Kind \ {"none"}
  PROVE  /\ Told(kind) \in Seq(SUBSET Query) /\ Told(kind) # <<>>
         /\ kind \in {"refresh", "import"} => Len(Told(kind)) = 1
<1>1. /\ {"feeds"} \in SUBSET Query /\ {"tags"} \in SUBSET Query
      /\ {"feed-tags"} \in SUBSET Query /\ {"feeds", "tags"} \in SUBSET Query
      /\ Query \in SUBSET Query
  BY DEF Query
<1> DEFINE Lists == Seq(SUBSET Query)
<1>2. ASSUME NEW a \in SUBSET Query
      PROVE  <<a>> \in Lists /\ <<a>> # <<>> /\ Len(<<a>>) = 1
  OBVIOUS
<1>3. ASSUME NEW a \in SUBSET Query, NEW b \in SUBSET Query, NEW c \in SUBSET Query
      PROVE  <<a, b, c>> \in Lists /\ <<a, b, c>> # <<>>
  OBVIOUS
<1> HIDE DEF Lists
<1>4. CASE kind \in {"create", "delete"}
  <2>1. Told(kind) = <<{"feeds"}, {"tags"}, {"feed-tags"}>>
    BY <1>4 DEF Told
  <2>2. QED
    BY <1>1, <1>4, <1>3, <2>1 DEF Lists
<1>5. CASE kind = "manage"
  <2>1. Told(kind) = <<Query>>
    BY <1>5 DEF Told
  <2>2. QED
    BY <1>1, <1>5, <1>2, <2>1 DEF Lists
<1>6. CASE kind \in {"tagInsert", "tagDelete"}
  <2>1. Told(kind) = <<{"tags"}>>
    BY <1>6 DEF Told
  <2>2. QED
    BY <1>1, <1>6, <1>2, <2>1 DEF Lists
<1>7. CASE kind = "refresh"
  <2>1. Told(kind) = <<{"feeds", "tags"}>>
    BY <1>7 DEF Told
  <2>2. QED
    BY <1>1, <1>7, <1>2, <2>1 DEF Lists
<1>8. CASE kind \in {"import", "suspend"}
  <2>1. Told(kind) = <<{"feeds"}>>
    BY <1>8 DEF Told
  <2>2. QED
    BY <1>1, <1>8, <1>2, <2>1 DEF Lists
<1>9. QED
  BY <1>4, <1>5, <1>6, <1>7, <1>8 DEF Kind

(* What is not in the head of the list is in the rest.                     *)
LEMMA RestTold ==
  ASSUME NEW todo \in Seq(SUBSET Query), todo # <<>>, NEW q \in UNION Range(todo),
         q \notin Head(todo)
  PROVE  /\ Len(todo) # 1 /\ Tail(todo) # <<>> /\ Tail(todo) \in Seq(SUBSET Query)
         /\ q \in UNION Range(Tail(todo))
<1>1. PICK i \in 1 .. Len(todo) : q \in todo[i]
  BY DEF Range
<1>2. i # 1 /\ Len(todo) \in Nat
  BY <1>1
<1>3. Tail(todo) \in Seq(SUBSET Query) /\ Len(Tail(todo)) = Len(todo) - 1
  OBVIOUS
<1>4. i - 1 \in 1 .. Len(Tail(todo)) /\ Tail(todo)[i - 1] = todo[i]
  BY <1>1, <1>2, <1>3
<1>5. q \in UNION Range(Tail(todo))
  BY <1>1, <1>3, <1>4 DEF Range
<1>6. Len(todo) # 1 /\ Tail(todo) # <<>>
  BY <1>1, <1>2, <1>4
<1>7. QED
  BY <1>3, <1>5, <1>6

(* A record of a request, with other fields.                               *)
LEMMA FreeIsRecord == Free \in OpRecord /\ OpRight(Free)
<1>1. Free \in OpRecord
  BY DEF Free, OpRecord, Kind, Phase
<1>2. OpRight(Free)
  BY DEF Free, OpRight
<1>3. QED
  BY <1>1, <1>2

-----------------------------------------------------------------------------
(* Parts of the invariant that steps have in common.                       *)

(* One request changes.                                                    *)
LEMMA OneChanges ==
  ASSUME ops \in [Op -> OpRecord], OpsRight, NEW o \in Op, NEW r \in OpRecord, OpRight(r),
         ops' = [ops EXCEPT ![o] = r]
  PROVE  /\ ops' \in [Op -> OpRecord] /\ OpsRight'
         /\ ops'[o] = r /\ \A p \in Op \ {o} : ops'[p] = ops[p]
<1>1. /\ ops' \in [Op -> OpRecord]
      /\ ops'[o] = r /\ \A p \in Op \ {o} : ops'[p] = ops[p]
  OBVIOUS
<1>2. \A p \in Op : OpRight(ops'[p])
  BY <1>1 DEF OpsRight
<1>3. QED
  BY <1>1, <1>2 DEF OpsRight, OpRight

(* The refreshes under way stay the same.                                  *)
LEMMA MarksKept ==
  ASSUME MarksRight, marks \subseteq Id, UNCHANGED fetching,
         \A p \in Op, i \in Id : Under(p, i)' <=> Under(p, i)
  PROVE  MarksRight'
<1>1. marks' = marks /\ errors' = errors /\ crossed' = crossed
  BY DEF fetching
<1>2. ASSUME NEW i \in marks PROVE i \notin errors /\ \E o \in Op : Under(o, i)'
  BY DEF MarksRight
<1>3. QED
  BY <1>1, <1>2, Zenon DEF MarksRight

(* A request that is no refresh is none afterwards.                        *)
LEMMA NoRefresh ==
  ASSUME MarksRight, marks \subseteq Id, UNCHANGED fetching, NEW o \in Op,
         \A p \in Op \ {o} : ops'[p] = ops[p],
         ops[o].kind # "refresh", ops'[o].kind # "refresh"
  PROVE  MarksRight'
<1>1. ASSUME NEW p \in Op, NEW i \in Id PROVE Under(p, i)' <=> Under(p, i)
  BY DEF Under
<1>2. QED
  BY <1>1, MarksKept

(* No less is owed, and the queries and the tables stay.                   *)
LEMMA OwedKept ==
  ASSUME QueriesRight, UNCHANGED <<db, cached, query, answer, behind>>,
         \A p \in Op : Owed(ops[p]) \subseteq Owed(ops'[p])
  PROVE  QueriesRight'
<1>1. \A q : Fresh(q)' <=> Fresh(q)
  BY DEF Fresh
<1>2. QED
  BY <1>1 DEF QueriesRight

(* Every query is owed.                                                    *)
LEMMA AllOwed ==
  ASSUME NEW o \in Op, Query \subseteq Owed(ops'[o])
  PROVE  QueriesRight'
  BY DEF QueriesRight

-----------------------------------------------------------------------------
(* Initially.                                                              *)

(* Everything has been loaded, and nothing is under way.                   *)
LEMMA StartInv == Init => StoreInv /\ PageTypes
<1> SUFFICES ASSUME Init PROVE StoreInv /\ PageTypes
  OBVIOUS
<1> USE StoreAssumption
<1>1. 1 \in Id
  BY DEF Id
<1>2. /\ db \in Tables /\ db.links \subseteq Stored(db) \X db.tags
      /\ used \in [feeds : 0 .. MaxId, tags : SUBSET Tag] /\ db.tags \subseteq used.tags
      /\ UrlsUnique
  <2>1. CASE db = Nothing /\ used = [feeds |-> 0, tags |-> {}]
    <3>1. used \in [feeds : 0 .. MaxId, tags : SUBSET Tag]
      BY <2>1
    <3>2. db.links = {} /\ db.tags = {}
      BY <2>1 DEF Nothing
    <3>3. QED
      BY <2>1, <3>1, <3>2, NothingIsTables DEF UrlsUnique
  <2> DEFINE u == CHOOSE v \in Url : TRUE
             t == CHOOSE v \in Tag : TRUE
             One == /\ db = [feeds |-> [Nothing.feeds EXCEPT ![1] = u], tags |-> {t},
                             links |-> {<<1, t>>}]
                    /\ used = [feeds |-> 1, tags |-> {t}]
  <2>2. StoreInit
    BY DEF Init, LoadedInit
  <2>3. (db = Nothing /\ used = [feeds |-> 0, tags |-> {}]) \/ One
    BY <2>2 DEF StoreInit
  <2>4. u \in Url /\ t \in Tag
    OBVIOUS
  <2> HIDE DEF u, t
  <2>5. CASE One
    <3>1. db.feeds = [i \in Id |-> IF i = 1 THEN u ELSE NoUrl]
      BY <2>5 DEF Nothing
    <3>2. Stored(db) = {1}
      BY <1>1, <2>4, <3>1 DEF Stored
    <3>3. db \in Tables
      <4>1. [i \in Id |-> IF i = 1 THEN u ELSE NoUrl] \in [Id -> Url \cup {NoUrl}]
        BY <2>4
      <4>2. {t} \subseteq Tag /\ {<<1, t>>} \subseteq Id \X Tag
        BY <1>1, <2>4
      <4>3. /\ db = [feeds |-> db.feeds, tags |-> db.tags, links |-> db.links]
            /\ db.tags = {t} /\ db.links = {<<1, t>>}
        BY <2>5
      <4>4. QED
        BY <3>1, <4>1, <4>2, <4>3 DEF Tables
    <3>4. used \in [feeds : 0 .. MaxId, tags : SUBSET Tag]
      BY <2>4, <2>5
    <3>5. /\ db.tags = {t} /\ db.links = {<<1, t>>} /\ used.tags = {t}
      BY <2>5
    <3>6. db.links \subseteq Stored(db) \X db.tags
      BY <3>2, <3>5
    <3>7. UrlsUnique
      BY <3>2 DEF UrlsUnique
    <3>8. QED
      BY <3>3, <3>4, <3>5, <3>6, <3>7
  <2>6. QED
    BY <2>1, <2>3, <2>5
<1>3. /\ cached \in [Query -> Tables] /\ answer \in [Query -> Tables]
      /\ query \in [Query -> {"idle", "asked", "read"}]
  BY <1>2, Answers, NothingIsTables DEF Init, LoadedInit
<1>4. ops \in [Op -> OpRecord] /\ OpsRight
  BY FreeIsRecord DEF Init, LoadedInit, OpsRight
<1>5. acts \in [done : 0 .. MaxActs, sent : 0 .. MaxSent] /\ behind = {} /\ marks = {}
      /\ errors = {} /\ crossed = {}
  BY DEF Init, LoadedInit
<1>6. Types
  BY <1>2, <1>3, <1>4, <1>5 DEF Types
<1>7. MarksRight
  <2>1. \A o \in Op : ops[o].kind = "none"
    BY DEF Init, LoadedInit, Free
  <2>2. QED
    BY <1>5, <2>1 DEF MarksRight, Under
<1>8. QueriesRight
  BY DEF QueriesRight, Fresh, Init, LoadedInit
<1>9. PageTypes
  BY DEF PageTypes, Init, Unstaged, EmptyForm
<1>10. QED
  BY <1>2, <1>4, <1>6, <1>7, <1>8, <1>9 DEF StoreInv

-----------------------------------------------------------------------------
(* Requests are sent.                                                      *)

\* A new request: a record as it is sent.
Fits(r) == r \in OpRecord /\ r.phase = "sent" /\ r.kind # "none" /\ r.wrote = {}

(* What the pages send are such records.                                   *)
LEMMA NewFits ==
  ASSUME NEW kind \in Kind \ {"none"}
  PROVE  /\ Fits(New(kind)) /\ New(kind).kind = kind /\ New(kind).ids = {}
         /\ New(kind).url = {} /\ New(kind).add = {} /\ New(kind).remove = {}
         /\ New(kind).todo = <<>> /\ New(kind).phase = "sent" /\ New(kind).wrote = {}
<1>1. /\ New(kind).kind = kind /\ New(kind).phase = "sent" /\ New(kind).url = {}
      /\ New(kind).ids = {} /\ New(kind).add = {} /\ New(kind).remove = {}
      /\ New(kind).wrote = {} /\ New(kind).todo = <<>>
  BY DEF New, Free
<1>2. New(kind) \in OpRecord
  <2>1. Free \in OpRecord /\ kind \in Kind /\ "sent" \in Phase
    BY FreeIsRecord DEF Phase
  <2>2. QED
    BY <2>1 DEF New, OpRecord
<1>3. QED
  BY <1>1, <1>2 DEF Fits

(* A request is sent; the marks follow those that refresh.                 *)
LEMMA SentStays ==
  ASSUME StoreInv, NEW o \in Op, NEW r, Fits(r), ops[o].phase = "free", Sent(o, r),
         acts' \in [done : 0 .. MaxActs, sent : 0 .. MaxSent],
         UNCHANGED <<server, cache, behind>>,
         IF r.kind = "refresh" THEN StartFetching(o, r.ids) ELSE UNCHANGED fetching
  PROVE  StoreInv'
<1>1. OpRight(r)
  BY DEF Fits, OpRight, Free
<1>2. /\ ops' \in [Op -> OpRecord] /\ OpsRight'
      /\ ops'[o] = r /\ \A p \in Op \ {o} : ops'[p] = ops[p]
  BY <1>1, OneChanges DEF StoreInv, Types, Fits, Sent
<1>3. UNCHANGED <<db, used, cached, query, answer, behind>>
  BY DEF server, cache
<1>4. ops[o] = Free
  BY DEF StoreInv, OpsRight, OpRight
<1>5. QueriesRight'
  <2>1. Owed(ops[o]) = {}
    BY <1>4 DEF Owed, Free
  <2>2. QED
    BY <1>2, <1>3, <2>1, OwedKept DEF StoreInv
<1>6. MarksRight' /\ marks' \subseteq Id /\ errors' \subseteq Id /\ crossed' \subseteq Id
  <2>1. CASE r.kind # "refresh"
    <3>1. UNCHANGED fetching
      BY <2>1
    <3>2. ops[o].kind # "refresh"
      BY <1>4 DEF Free
    <3>3. MarksRight'
      BY <1>2, <2>1, <3>1, <3>2, NoRefresh DEF StoreInv, Types
    <3>4. QED
      BY <3>1, <3>3 DEF StoreInv, Types, fetching
  <2>2. CASE r.kind = "refresh"
    <3> DEFINE some == r.ids
               Met(i) == \E p \in Op \ {o} : Under(p, i)
    <3>1. /\ marks' = marks \cup some /\ errors' = errors \ some
          /\ crossed' = crossed \cup {i \in some : Met(i)}
      BY <2>2 DEF StartFetching, Refreshed, Under
    <3>2. some \subseteq Id
      BY DEF Fits, OpRecord
    <3>3. \A i : ~Under(o, i) /\ (Under(o, i)' <=> i \in some)
      BY <1>2, <1>4, <2>2 DEF Under, Free, Fits
    <3>4. \A p \in Op \ {o}, i \in Id : Under(p, i)' <=> Under(p, i)
      BY <1>2 DEF Under
    <3>5. /\ \A i \in marks : i \in Id /\ i \notin errors /\ \E p \in Op : Under(p, i)
          /\ \A p \in Op, i \in Id : Under(p, i) => i \in marks \cup crossed
          /\ \A p, q \in Op, i \in Id : p # q /\ Under(p, i) /\ Under(q, i) => i \in crossed
          /\ errors \subseteq Id /\ crossed \subseteq Id
      BY DEF StoreInv, MarksRight, Types
    <3> HIDE DEF some
    <3>6. ASSUME NEW i \in marks' PROVE i \notin errors' /\ \E p \in Op : Under(p, i)'
      <4>1. CASE i \in some
        BY <3>1, <3>3, <4>1
      <4>2. CASE i \notin some
        <5>1. i \in marks /\ i \notin errors
          BY <3>1, <3>5, <4>2
        <5>2. PICK p \in Op : Under(p, i)
          BY <3>5, <5>1
        <5>3. p # o /\ i \in Id
          BY <3>3, <3>5, <5>1, <5>2
        <5>4. Under(p, i)'
          BY <3>4, <5>2, <5>3
        <5>5. QED
          BY <3>1, <5>1, <5>4
      <4>3. QED
        BY <4>1, <4>2
    <3>7. ASSUME NEW p \in Op, NEW i \in Id, Under(p, i)' PROVE i \in marks' \cup crossed'
      BY <3>1, <3>3, <3>4, <3>5, <3>7
    <3>8. ASSUME NEW p \in Op, NEW q \in Op, NEW i \in Id, p # q, Under(p, i)', Under(q, i)'
          PROVE  i \in crossed'
      <4>1. CASE p # o /\ q # o
        BY <3>1, <3>4, <3>5, <3>8, <4>1
      <4>2. CASE p = o
        <5>1. i \in some /\ Met(i)
          BY <3>3, <3>4, <3>8, <4>2
        <5>2. QED
          BY <3>1, <5>1
      <4>3. CASE q = o
        <5>1. i \in some /\ Met(i)
          BY <3>3, <3>4, <3>8, <4>3
        <5>2. QED
          BY <3>1, <5>1
      <4>4. QED
        BY <4>1, <4>2, <4>3
    <3>9. MarksRight'
      BY <3>6, <3>7, <3>8, Zenon DEF MarksRight
    <3>10. QED
      BY <3>1, <3>2, <3>5, <3>9
  <2>3. QED
    BY <2>1, <2>2
<1>7. Types' /\ UrlsUnique'
  BY <1>2, <1>3, <1>6 DEF StoreInv, Types, UrlsUnique, Stored
<1>8. QED
  BY <1>2, <1>5, <1>6, <1>7 DEF StoreInv

-----------------------------------------------------------------------------
(* The server.                                                             *)

(* The tables get rows or lose them.                                       *)
LEMMA TablesChange ==
  ASSUME NEW f \in [Id -> Url \cup {NoUrl}], NEW t \in SUBSET Tag, NEW l \in SUBSET (Id \X Tag),
         NEW d, d = [feeds |-> f, tags |-> t, links |-> l],
         l \subseteq {i \in Id : f[i] # NoUrl} \X t
  PROVE  /\ d \in Tables /\ d.links \subseteq Stored(d) \X d.tags
         /\ d.feeds = f /\ d.tags = t /\ d.links = l
<1>1. d \in Tables /\ d.feeds = f /\ d.tags = t /\ d.links = l
  BY DEF Tables
<1>2. Stored(d) = {i \in Id : f[i] # NoUrl}
  BY <1>1 DEF Stored
<1>3. QED
  BY <1>1, <1>2

(* createFeedFromURL stores a URL that is not there, and owes every query. *)
LEMMA CreateStays ==
  ASSUME StoreInv, NEW o \in Op, CreateFeed(o)
  PROVE  StoreInv'
<1> DEFINE n == used.feeds + 1
           r == [ops[o] EXCEPT !.phase = "working", !.wrote = {n}]
<1> USE StoreAssumption
<1>1. /\ ops[o] \in OpRecord /\ OpRight(ops[o]) /\ ops \in [Op -> OpRecord] /\ OpsRight
      /\ ops[o].kind = "create" /\ ops[o].phase = "sent"
  BY DEF StoreInv, Types, OpsRight, CreateFeed
<1>2. n \in Id /\ used.feeds \in 0 .. MaxId /\ used.feeds < MaxId /\ used' = [used EXCEPT !.feeds = n]
  BY DEF StoreInv, Types, CreateFeed, Id
<1>3. used'.feeds = n /\ used'.tags = used.tags /\ used' \in [feeds : 0 .. MaxId, tags : SUBSET Tag]
  BY <1>2 DEF StoreInv, Types
<1>4. ops' = [ops EXCEPT ![o] = r]
  BY <1>3 DEF CreateFeed, Set
<1>5. PICK u \in ops[o].url : db' = [db EXCEPT !.feeds = [@ EXCEPT ![n] = u]]
  BY <1>3 DEF CreateFeed
<1>6. u \in Url /\ u # NoUrl /\ \A i \in Id : db.feeds[i] # u
  <2>1. ops[o].url \subseteq Url /\ Known(ops[o].url) = {}
    BY <1>1 DEF OpRecord, CreateFeed
  <2>2. QED
    BY <1>5, <2>1 DEF Known
<1> HIDE DEF n
<1>7. r \in OpRecord /\ r.kind = "create" /\ r.phase = "working" /\ r.wrote = {n}
  BY <1>1, <1>2 DEF OpRecord, Phase
<1> HIDE DEF r
<1>8. OpRight(r)
  BY <1>7 DEF OpRight, Free
<1>9. /\ ops' \in [Op -> OpRecord] /\ OpsRight'
      /\ ops'[o] = r /\ \A p \in Op \ {o} : ops'[p] = ops[p]
  BY <1>1, <1>4, <1>7, <1>8, OneChanges
<1>10. UNCHANGED <<cached, query, answer, acts, behind>> /\ UNCHANGED fetching
  BY DEF CreateFeed, cache
<1>11. QueriesRight'
  <2>1. Query \subseteq Owed(r)
    BY <1>7 DEF Owed
  <2>2. QED
    BY <1>9, <2>1, AllOwed
<1>12. MarksRight'
  BY <1>1, <1>7, <1>9, <1>10, NoRefresh DEF StoreInv, Types
<1> DEFINE f == [db.feeds EXCEPT ![n] = u]
<1>13. /\ db.feeds \in [Id -> Url \cup {NoUrl}] /\ db.tags \in SUBSET Tag
       /\ db.links \in SUBSET (Id \X Tag)
       /\ db.links \subseteq {i \in Id : db.feeds[i] # NoUrl} \X db.tags
       /\ db.tags \subseteq used.tags
  BY DEF StoreInv, Types, Tables, Stored
<1>14. db' = [feeds |-> f, tags |-> db.tags, links |-> db.links]
  BY <1>5 DEF StoreInv, Types, Tables
<1>15. f \in [Id -> Url \cup {NoUrl}] /\ \A i \in Id : f[i] = IF i = n THEN u ELSE db.feeds[i]
  BY <1>2, <1>6, <1>13
<1> HIDE DEF f
<1>16. db.links \subseteq {i \in Id : f[i] # NoUrl} \X db.tags
  BY <1>6, <1>13, <1>15
<1>17. /\ db' \in Tables /\ db'.links \subseteq Stored(db') \X db'.tags
       /\ db'.feeds = f /\ db'.tags = db.tags
  BY <1>13, <1>14, <1>15, <1>16, TablesChange
<1>18. UrlsUnique'
  <2>1. ASSUME NEW i \in Stored(db'), NEW j \in Stored(db'), f[i] = f[j] PROVE i = j
    <3>1. i \in Id /\ j \in Id /\ f[i] # NoUrl /\ f[j] # NoUrl
      BY <1>17 DEF Stored
    <3>2. CASE i = n \/ j = n
      BY <1>6, <1>15, <2>1, <3>1, <3>2
    <3>3. CASE i # n /\ j # n
      <4>1. db.feeds[i] = db.feeds[j] /\ i \in Stored(db) /\ j \in Stored(db)
        BY <1>15, <2>1, <3>1, <3>3 DEF Stored
      <4>2. QED
        BY <4>1 DEF StoreInv, UrlsUnique
    <3>4. QED
      BY <3>2, <3>3
  <2>2. QED
    BY <1>17, <2>1 DEF UrlsUnique
<1>19. Types'
  BY <1>3, <1>9, <1>10, <1>13, <1>17 DEF StoreInv, Types, fetching
<1>20. QED
  BY <1>9, <1>11, <1>12, <1>18, <1>19 DEF StoreInv

(* The server changes the tables, for a request that does not refresh.     *)
LEMMA ServerStays ==
  ASSUME StoreInv, NEW o \in Op, NEW r \in OpRecord, OpRight(r),
         ops' = [ops EXCEPT ![o] = r], ops[o].kind # "refresh", r.kind # "refresh",
         UNCHANGED <<cache, fetching, acts, behind>>,
         db' \in Tables, db'.links \subseteq Stored(db') \X db'.tags,
         used' \in [feeds : 0 .. MaxId, tags : SUBSET Tag], db'.tags \subseteq used'.tags,
         UrlsUnique',
         \/ Query \subseteq Owed(r)
         \/ /\ Owed(ops[o]) = {}
            /\ \A q \in Query : q \in Owed(r) \/ Answer(q, db') = Answer(q, db)
  PROVE  StoreInv'
<1>1. /\ ops' \in [Op -> OpRecord] /\ OpsRight'
      /\ ops'[o] = r /\ \A p \in Op \ {o} : ops'[p] = ops[p]
  BY OneChanges DEF StoreInv, Types
<1>2. UNCHANGED <<cached, query, answer, behind, acts>>
  BY DEF cache
<1>3. QueriesRight'
  <2>1. CASE Query \subseteq Owed(r)
    BY <1>1, <2>1, AllOwed
  <2>2. CASE /\ Owed(ops[o]) = {}
             /\ \A q \in Query : q \in Owed(r) \/ Answer(q, db') = Answer(q, db)
    <3>1. ASSUME NEW q \in Query \ behind', Answer(q, db') = Answer(q, db)
          PROVE  Fresh(q)' \/ \E p \in Op : q \in Owed(ops'[p])
      <4>1. Fresh(q) => Fresh(q)'
        BY <1>2, <3>1 DEF Fresh
      <4>2. Fresh(q) \/ \E p \in Op : q \in Owed(ops[p])
        BY <1>2, <3>1 DEF StoreInv, QueriesRight
      <4>3. ASSUME NEW p \in Op, q \in Owed(ops[p]) PROVE q \in Owed(ops'[p])
        BY <1>1, <2>2, <4>3
      <4>4. QED
        BY <4>1, <4>2, <4>3
    <3>2. ASSUME NEW q \in Query \ behind', q \in Owed(r)
          PROVE  \E p \in Op : q \in Owed(ops'[p])
      BY <1>1, <3>2
    <3>3. \A q \in Query \ behind' : Fresh(q)' \/ \E p \in Op : q \in Owed(ops'[p])
      BY <2>2, <3>1, <3>2
    <3>4. QED
      BY <3>3, Zenon DEF QueriesRight
  <2>3. QED
    BY <2>1, <2>2
<1>4. MarksRight'
  BY <1>1, NoRefresh DEF StoreInv, Types
<1>5. Types'
  BY <1>1, <1>2 DEF StoreInv, Types, fetching
<1>6. QED
  BY <1>1, <1>3, <1>4, <1>5 DEF StoreInv

(* SetFeedTags, or its refusal: every query is owed, as the feed is there. *)
LEMMA TagsStay ==
  ASSUME StoreInv, NEW o \in Op, SetFeedTags(o)
  PROVE  StoreInv'
<1> DEFINE new == ops[o].wrote
           Fit == new \subseteq Stored(db) /\ ops[o].add \subseteq db.tags
           r(phase) == [ops[o] EXCEPT !.phase = phase]
<1>1. /\ ops[o] \in OpRecord /\ OpRight(ops[o])
      /\ ops[o].kind = "create" /\ ops[o].phase = "working"
  BY DEF StoreInv, Types, OpsRight, SetFeedTags
<1>2. new # {} /\ new \subseteq Id /\ ops[o].add \subseteq Tag
  BY <1>1 DEF OpRight, OpRecord
<1>3. ASSUME NEW phase \in {"done", "refused"}
      PROVE  /\ r(phase) \in OpRecord /\ r(phase).kind = "create" /\ r(phase).phase = phase
             /\ r(phase).wrote = new
  BY <1>1, <1>3 DEF OpRecord, Phase
<1> HIDE DEF r
<1>4. ASSUME NEW phase \in {"done", "refused"}
      PROVE  OpRight(r(phase)) /\ Query \subseteq Owed(r(phase))
  <2>1. OpRight(r(phase))
    BY <1>3 DEF OpRight, Free
  <2>2. Query \subseteq Owed(r(phase))
    BY <1>2, <1>3 DEF Owed, Changed
  <2>3. QED
    BY <2>1, <2>2
<1>5. UNCHANGED <<used, cache, fetching, acts, behind>>
  BY DEF SetFeedTags
<1>6. CASE ~Fit
  <2>1. ops' = [ops EXCEPT ![o] = r("refused")] /\ UNCHANGED db
    BY <1>6 DEF SetFeedTags, r
  <2>2. /\ db' \in Tables /\ db'.links \subseteq Stored(db') \X db'.tags
        /\ db'.tags \subseteq used'.tags /\ UrlsUnique'
        /\ used' \in [feeds : 0 .. MaxId, tags : SUBSET Tag]
    BY <1>5, <2>1 DEF StoreInv, Types, UrlsUnique, Stored
  <2>3. QED
    BY <1>1, <1>3, <1>4, <1>5, <2>1, <2>2, ServerStays
<1>7. CASE Fit
  <2> DEFINE l == {k \in db.links : k[1] \notin new} \cup (new \X ops[o].add)
  <2>1. /\ ops' = [ops EXCEPT ![o] = r("done")] /\ db' = [db EXCEPT !.links = l]
    BY <1>7 DEF SetFeedTags, r
  <2>2. /\ db.feeds \in [Id -> Url \cup {NoUrl}] /\ db.tags \in SUBSET Tag
        /\ db.links \subseteq {i \in Id : db.feeds[i] # NoUrl} \X db.tags
        /\ db.tags \subseteq used.tags /\ used \in [feeds : 0 .. MaxId, tags : SUBSET Tag]
        /\ UrlsUnique
    BY DEF StoreInv, Types, Tables, Stored
  <2>3. db' = [feeds |-> db.feeds, tags |-> db.tags, links |-> l]
    BY <2>1 DEF StoreInv, Types, Tables
  <2>4. l \subseteq {i \in Id : db.feeds[i] # NoUrl} \X db.tags
    BY <1>7, <2>2 DEF Stored
  <2>5. l \in SUBSET (Id \X Tag)
    BY <2>2, <2>4
  <2> HIDE DEF l
  <2>6. /\ db' \in Tables /\ db'.links \subseteq Stored(db') \X db'.tags
        /\ db'.tags = db.tags /\ db'.feeds = db.feeds
    BY <2>2, <2>3, <2>4, <2>5, TablesChange
  <2>7. UrlsUnique'
    BY <2>2, <2>6 DEF UrlsUnique, Stored
  <2>8. db'.tags \subseteq used'.tags /\ used' \in [feeds : 0 .. MaxId, tags : SUBSET Tag]
    BY <1>5, <2>2, <2>6
  <2>9. QED
    BY <1>1, <1>3, <1>4, <1>5, <2>1, <2>6, <2>7, <2>8, ServerStays
<1>8. QED
  BY <1>6, <1>7

(* ImportSync has looked the URLs up and fetched them; nothing is stored.  *)
LEMMA ChecksStay ==
  ASSUME StoreInv, NEW o \in Op, ImportChecks(o)
  PROVE  StoreInv'
<1>1. /\ ops[o] \in OpRecord /\ OpRight(ops[o])
      /\ ops[o].kind = "import" /\ ops[o].phase = "sent"
  BY DEF StoreInv, Types, OpsRight, ImportChecks
<1>2. UNCHANGED <<server, cache, fetching, acts, behind>>
  BY DEF ImportChecks
<1>3. PICK failed \in SUBSET (ops[o].url \ Known(ops[o].url)) :
        LET answered == ops[o].url \ (Known(ops[o].url) \cup failed)
        IN ops' = [ops EXCEPT ![o] =
                     [@ EXCEPT !.phase = IF answered = {} THEN "done" ELSE "working",
                               !.url = answered]]
  BY DEF ImportChecks
<1> DEFINE answered == ops[o].url \ (Known(ops[o].url) \cup failed)
           phase == IF answered = {} THEN "done" ELSE "working"
           r == [ops[o] EXCEPT !.phase = phase, !.url = answered]
<1>4. ops' = [ops EXCEPT ![o] = r]
  BY <1>3
<1>5. answered \subseteq Url /\ phase \in Phase /\ ops[o].wrote = {}
  BY <1>1 DEF OpRecord, OpRight, Phase
<1>6. phase \in {"done", "working"} /\ (phase = "done" => answered = {})
  OBVIOUS
<1> HIDE DEF answered, phase
<1>7. /\ r \in OpRecord /\ r.kind = "import" /\ r.phase = phase /\ r.url = answered
      /\ r.wrote = {}
  BY <1>1, <1>5 DEF OpRecord
<1> HIDE DEF r
<1>8. OpRight(r)
  <2>1. r # Free /\ r.phase # "free"
    BY <1>6, <1>7 DEF Free
  <2>2. r.phase = "done" => Cardinality(r.wrote) = Cardinality(r.url)
    BY <1>6, <1>7
  <2>3. QED
    BY <1>6, <1>7, <2>1, <2>2 DEF OpRight
<1>9. Owed(ops[o]) = {}
  <2>1. Changed(ops[o]) = {}
    BY <1>1 DEF Changed
  <2>2. QED
    BY <1>1, <2>1 DEF Owed
<1>10. /\ db' \in Tables /\ db'.links \subseteq Stored(db') \X db'.tags
       /\ db'.tags \subseteq used'.tags /\ UrlsUnique' /\ UNCHANGED db
       /\ used' \in [feeds : 0 .. MaxId, tags : SUBSET Tag]
  BY <1>2 DEF StoreInv, Types, UrlsUnique, Stored, server
<1>11. QED
  BY <1>1, <1>2, <1>4, <1>7, <1>8, <1>9, <1>10, ServerStays

(* The transaction of an import stores a row per URL, or nothing.          *)
LEMMA ImportStays ==
  ASSUME StoreInv, NEW o \in Op, ImportStores(o)
  PROVE  StoreInv'
<1> DEFINE urls == ops[o].url
           tags == ops[o].add
           n == Cardinality(urls)
           new == used.feeds + 1 .. used.feeds + n
           r(phase, wrote) == [ops[o] EXCEPT !.phase = phase, !.wrote = wrote]
<1>1. /\ ops[o] \in OpRecord /\ OpRight(ops[o])
      /\ ops[o].kind = "import" /\ ops[o].phase = "working"
  BY DEF StoreInv, Types, OpsRight, ImportStores
<1>2. urls \subseteq Url /\ tags \subseteq Tag
  BY <1>1 DEF OpRecord
<1>3. UNCHANGED <<cache, fetching, acts, behind>>
  BY DEF ImportStores
<1>4. Owed(ops[o]) = {}
  BY <1>1 DEF Owed
<1>5. ASSUME NEW phase \in {"done", "refused"}, NEW wrote \in SUBSET Id
      PROVE  /\ r(phase, wrote) \in OpRecord /\ r(phase, wrote).kind = "import"
             /\ r(phase, wrote).phase = phase /\ r(phase, wrote).wrote = wrote
             /\ r(phase, wrote).url = urls
  BY <1>1, <1>5 DEF OpRecord, Phase
<1>6. ASSUME NEW wrote \in SUBSET Id, ops' = [ops EXCEPT ![o] = [@ EXCEPT !.phase = "done", !.wrote = wrote]]
      PROVE  ops' = [ops EXCEPT ![o] = r("done", wrote)]
  BY <1>6
<1>7. ASSUME Set(o, "refused", {}) PROVE ops' = [ops EXCEPT ![o] = r("refused", {})]
  BY <1>7 DEF Set
<1>8. /\ db.feeds \in [Id -> Url \cup {NoUrl}] /\ db.tags \in SUBSET Tag
      /\ db.links \subseteq {i \in Id : db.feeds[i] # NoUrl} \X db.tags
      /\ db.tags \subseteq used.tags /\ used \in [feeds : 0 .. MaxId, tags : SUBSET Tag]
      /\ UrlsUnique
  BY DEF StoreInv, Types, Tables, Stored
<1> HIDE DEF r
<1>9. CASE Set(o, "refused", {}) /\ UNCHANGED server
  <2>1. /\ r("refused", {}) \in OpRecord /\ r("refused", {}).kind = "import"
        /\ r("refused", {}).phase = "refused" /\ r("refused", {}).wrote = {}
    BY <1>5
  <2>2. OpRight(r("refused", {}))
    BY <2>1 DEF OpRight, Free
  <2>3. /\ db' \in Tables /\ db'.links \subseteq Stored(db') \X db'.tags
        /\ db'.tags \subseteq used'.tags /\ UrlsUnique' /\ UNCHANGED db
        /\ used' \in [feeds : 0 .. MaxId, tags : SUBSET Tag]
    BY <1>9 DEF StoreInv, Types, UrlsUnique, Stored, server
  <2>4. ops' = [ops EXCEPT ![o] = r("refused", {})]
    BY <1>7, <1>9
  <2>5. QED
    BY <1>1, <1>3, <1>4, <2>1, <2>2, <2>3, <2>4, ServerStays
<1>10. CASE /\ Known(urls) = {} /\ Storable(urls, tags) /\ used' = Given(urls, tags)
            /\ \E f \in NewIds(urls) :
                 /\ db' = [feeds |-> [i \in Id |-> IF i \in DOMAIN f THEN f[i] ELSE db.feeds[i]],
                           tags |-> db.tags \cup tags,
                           links |-> db.links \cup ((DOMAIN f) \X tags)]
                 /\ Set(o, "done", DOMAIN f)
  <2>1. PICK f \in NewIds(urls) :
               /\ db' = [feeds |-> [i \in Id |-> IF i \in DOMAIN f THEN f[i] ELSE db.feeds[i]],
                         tags |-> db.tags \cup tags,
                         links |-> db.links \cup ((DOMAIN f) \X tags)]
               /\ Set(o, "done", DOMAIN f)
    BY <1>10
  <2>2. IsFiniteSet(urls) /\ n \in Nat
    BY <1>2, StoreAssumption, FS_Subset, FS_CardinalityType
  <2> HIDE DEF n
  <2>3. /\ used.feeds \in Nat /\ used.feeds + n <= MaxId /\ used.feeds + n \in 0 .. MaxId
        /\ used'.feeds = used.feeds + n /\ used'.tags = used.tags \cup tags
        /\ used' \in [feeds : 0 .. MaxId, tags : SUBSET Tag]
    BY <1>2, <1>8, <1>10, <2>2, StoreAssumption DEF Storable, Given, n
  <2> DEFINE c == used.feeds
  <2>4. new \subseteq Id /\ IsFiniteSet(new) /\ Cardinality(new) = n
    <3>1. c \in Nat /\ c + n <= MaxId /\ n \in Nat /\ MaxId \in Nat /\ new = c + 1 .. c + n
      BY <2>2, <2>3, StoreAssumption
    <3> HIDE DEF c, new
    <3>2. new \subseteq Id
      BY <3>1 DEF Id
    <3>3. /\ IsFiniteSet(c + 1 .. c + n)
          /\ Cardinality(c + 1 .. c + n) = IF c + 1 > c + n THEN 0 ELSE (c + n) - (c + 1) + 1
      BY <3>1, FS_Interval
    <3>4. QED
      BY <3>1, <3>2, <3>3
  <2>5. IsFiniteSet(new) /\ Cardinality(new) = n
    BY <2>4
  <2>6. f \in [new -> urls] /\ Range(f) = urls
    BY <2>1 DEF NewIds, n
  <2> HIDE DEF new
  <2>7. f \in Surjection(new, urls)
    BY <2>6 DEF Surjection, Range
  <2>8. f \in Injection(new, urls)
    BY <2>2, <2>5, <2>7, FS_SurjSameCardinalityImpliesInj DEF n
  <2>9. \A i, j \in new : f[i] = f[j] => i = j
    BY <2>8 DEF Injection, IsInjective
  <2>10. DOMAIN f = new /\ \A i \in new : f[i] \in Url /\ f[i] # NoUrl
    BY <1>2, <2>6, StoreAssumption
  <2> DEFINE g == [i \in Id |-> IF i \in new THEN f[i] ELSE db.feeds[i]]
             t == db.tags \cup tags
             l == db.links \cup (new \X tags)
  <2>11. db' = [feeds |-> g, tags |-> t, links |-> l]
    BY <2>1, <2>10
  <2>12. g \in [Id -> Url \cup {NoUrl}]
    BY <1>8, <2>10
  <2>13. \A i \in Id : g[i] = IF i \in new THEN f[i] ELSE db.feeds[i]
    OBVIOUS
  <2> HIDE DEF g
  <2>14. l \subseteq {i \in Id : g[i] # NoUrl} \X t /\ t \in SUBSET Tag
    BY <1>2, <1>8, <2>4, <2>10, <2>13
  <2>15. l \in SUBSET (Id \X Tag)
    BY <2>14
  <2> HIDE DEF l, t
  <2>16. /\ db' \in Tables /\ db'.links \subseteq Stored(db') \X db'.tags
         /\ db'.feeds = g /\ db'.tags = t
    BY <2>11, <2>12, <2>14, <2>15, TablesChange
  <2>17. UrlsUnique'
    <3>1. ASSUME NEW i \in Stored(db'), NEW j \in Stored(db'), g[i] = g[j] PROVE i = j
      <4>1. i \in Id /\ j \in Id /\ g[i] # NoUrl /\ g[j] # NoUrl
        BY <2>16 DEF Stored
      <4>2. \A k \in Id : db.feeds[k] \notin urls
        BY <1>10 DEF Known
      <4>3. \A k \in new : f[k] \in urls
        BY <2>6
      <4>4. CASE i \in new /\ j \in new
        BY <2>9, <2>13, <3>1, <4>1, <4>4
      <4>5. CASE i \notin new /\ j \notin new
        <5>1. db.feeds[i] = db.feeds[j] /\ i \in Stored(db) /\ j \in Stored(db)
          BY <2>13, <3>1, <4>1, <4>5 DEF Stored
        <5>2. QED
          BY <1>8, <5>1 DEF UrlsUnique
      <4>6. QED
        BY <2>13, <3>1, <4>1, <4>2, <4>3, <4>4, <4>5
    <3>2. QED
      BY <2>16, <3>1 DEF UrlsUnique
  <2> DEFINE s == r("done", new)
  <2>18. /\ s \in OpRecord /\ s.kind = "import" /\ s.phase = "done" /\ s.wrote = new
         /\ s.url = urls
    BY <1>5, <2>4
  <2>19. ops' = [ops EXCEPT ![o] = s]
    BY <1>6, <2>1, <2>4, <2>10 DEF Set
  <2> HIDE DEF s
  <2>20. Cardinality(s.wrote) = Cardinality(s.url)
    BY <2>5, <2>18 DEF n
  <2>21. OpRight(s)
    BY <2>18, <2>20 DEF OpRight, Free
  <2>22. Query \subseteq Owed(s)
    <3>1. Changed(s) = Query
      BY <2>18 DEF Changed
    <3>2. QED
      BY <2>18, <3>1 DEF Owed
  <2>23. db'.tags \subseteq used'.tags
    BY <1>8, <2>3, <2>16 DEF t
  <2>24. QED
    BY <1>1, <1>3, <2>3, <2>16, <2>17, <2>18, <2>19, <2>21, <2>22, <2>23, ServerStays
<1>11. QED
  BY <1>9, <1>10 DEF ImportStores

(* What the other requests make of the tables: feeds go, tags come and go, *)
(* links come only where both ends are there.                              *)
LEMMA RowsRight ==
  ASSUME StoreInv, NEW o \in Op, Execute(o)
  PROVE  /\ db' \in Tables /\ db'.links \subseteq Stored(db') \X db'.tags /\ UrlsUnique'
         /\ used' \in [feeds : 0 .. MaxId, tags : SUBSET Tag] /\ db'.tags \subseteq used'.tags
<1> DEFINE r == ops[o]
<1>1. /\ r.kind \in {"delete", "manage", "tagInsert", "tagDelete", "refresh", "suspend"}
      /\ r.ids \subseteq Id /\ r.add \subseteq Tag /\ r.remove \subseteq Tag
  BY DEF Execute, StoreInv, Types, OpRecord
<1>2. /\ db.feeds \in [Id -> Url \cup {NoUrl}] /\ db.tags \in SUBSET Tag
      /\ db.links \subseteq {i \in Id : db.feeds[i] # NoUrl} \X db.tags
      /\ used \in [feeds : 0 .. MaxId, tags : SUBSET Tag]
      /\ UrlsUnique /\ db = [feeds |-> db.feeds, tags |-> db.tags, links |-> db.links]
  BY DEF StoreInv, Types, Tables, Stored
<1>3. ASSUME NEW f \in [Id -> Url \cup {NoUrl}], NEW t \in SUBSET Tag, NEW l,
             \A i \in Id : f[i] \in {db.feeds[i], NoUrl},
             l \subseteq {i \in Id : f[i] # NoUrl} \X t,
             db' = [feeds |-> f, tags |-> t, links |-> l]
      PROVE  db' \in Tables /\ db'.links \subseteq Stored(db') \X db'.tags /\ UrlsUnique'
  <2>1. l \in SUBSET (Id \X Tag)
    BY <1>3
  <2>2. /\ db' \in Tables /\ db'.links \subseteq Stored(db') \X db'.tags
        /\ db'.feeds = f
    BY <1>3, <2>1, TablesChange
  <2>3. \A i \in Stored(db') : i \in Stored(db) /\ f[i] = db.feeds[i]
    BY <1>3, <2>2 DEF Stored
  <2>4. QED
    BY <1>2, <2>2, <2>3 DEF UrlsUnique
<1>4. db' \in Tables /\ db'.links \subseteq Stored(db') \X db'.tags /\ UrlsUnique'
  <2>1. CASE r.kind = "delete"
    <3> DEFINE f == [i \in Id |-> IF i \in r.ids THEN NoUrl ELSE db.feeds[i]]
               l == {k \in db.links : k[1] \notin r.ids}
    <3>1. db' = [db EXCEPT !.feeds = f, !.links = l]
      BY <2>1 DEF Execute, Deleted
    <3>2. db' = [feeds |-> f, tags |-> db.tags, links |-> l]
      BY <1>2, <3>1
    <3>3. f \in [Id -> Url \cup {NoUrl}] /\ \A i \in Id : f[i] = IF i \in r.ids THEN NoUrl ELSE db.feeds[i]
      BY <1>2
    <3> HIDE DEF f
    <3>4. l \subseteq {i \in Id : f[i] # NoUrl} \X db.tags
      BY <1>2, <3>3
    <3> HIDE DEF l
    <3>5. \A i \in Id : f[i] \in {db.feeds[i], NoUrl}
      BY <3>3
    <3>6. QED
      BY <1>2, <1>3, <3>2, <3>3, <3>4, <3>5
  <2>2. CASE r.kind = "manage"
    <3> DEFINE l == (db.links \ (r.ids \X r.remove)) \cup (r.ids \X r.add)
    <3>1. db' = [db EXCEPT !.links = l]
      BY <2>2 DEF Execute, Managed
    <3>2. db' = [feeds |-> db.feeds, tags |-> db.tags, links |-> l]
      BY <1>2, <3>1
    <3>3. r.add = {} \/ (r.ids \subseteq Stored(db) /\ r.add \subseteq db.tags)
      BY <2>2 DEF Execute, Possible
    <3>4. l \subseteq {i \in Id : db.feeds[i] # NoUrl} \X db.tags
      BY <1>2, <3>3 DEF Stored
    <3> HIDE DEF l
    <3>5. QED
      BY <1>2, <1>3, <3>2, <3>4
  <2>3. CASE r.kind = "tagInsert"
    <3> DEFINE t == db.tags \cup r.add
    <3>1. db' = [db EXCEPT !.tags = t]
      BY <2>3 DEF Execute, TagInserted
    <3>2. db' = [feeds |-> db.feeds, tags |-> t, links |-> db.links]
      BY <1>2, <3>1
    <3>3. t \in SUBSET Tag /\ db.links \subseteq {i \in Id : db.feeds[i] # NoUrl} \X t
      BY <1>1, <1>2
    <3> HIDE DEF t
    <3>4. QED
      BY <1>2, <1>3, <3>2, <3>3
  <2>4. CASE r.kind = "tagDelete"
    <3> DEFINE t == db.tags \ r.remove
               l == {k \in db.links : k[2] \notin r.remove}
    <3>1. db' = [db EXCEPT !.tags = t, !.links = l]
      BY <2>4 DEF Execute, TagDeleted
    <3>2. db' = [feeds |-> db.feeds, tags |-> t, links |-> l]
      BY <1>2, <3>1
    <3>3. t \in SUBSET Tag /\ l \subseteq {i \in Id : db.feeds[i] # NoUrl} \X t
      BY <1>2
    <3> HIDE DEF t, l
    <3>4. QED
      BY <1>2, <1>3, <3>2, <3>3
  <2>5. CASE r.kind \in {"refresh", "suspend"}
    <3>1. db' = db
      BY <2>5 DEF Execute
    <3>2. QED
      BY <3>1 DEF StoreInv, Types, UrlsUnique, Stored
  <2>6. QED
    BY <1>1, <2>1, <2>2, <2>3, <2>4, <2>5
<1>5. db'.tags \subseteq Tag
  BY <1>4 DEF Tables
<1>6. used' = [used EXCEPT !.tags = @ \cup db'.tags]
  BY DEF Execute
<1>7. used' \in [feeds : 0 .. MaxId, tags : SUBSET Tag] /\ db'.tags \subseteq used'.tags
  BY <1>2, <1>5, <1>6
<1>8. QED
  BY <1>4, <1>7

(* What is changed is owed to the queries it shows in.                     *)
LEMMA ExecuteStays ==
  ASSUME StoreInv, NEW o \in Op, Execute(o)
  PROVE  StoreInv'
<1> DEFINE r == [ops[o] EXCEPT !.phase = "done"]
<1>1. /\ ops[o] \in OpRecord /\ OpRight(ops[o]) /\ ops[o].phase = "sent"
      /\ ops[o].kind \in {"delete", "manage", "tagInsert", "tagDelete", "refresh", "suspend"}
      /\ ops' = [ops EXCEPT ![o] = r] /\ UNCHANGED <<cache, fetching, acts, behind>>
  BY DEF StoreInv, Types, OpsRight, Execute
<1>2. /\ r \in OpRecord /\ r.kind = ops[o].kind /\ r.phase = "done" /\ r.ids = ops[o].ids
  BY <1>1 DEF OpRecord, Phase
<1> HIDE DEF r
<1>3. OpRight(r)
  BY <1>1, <1>2 DEF OpRight, Free
<1>4. Owed(ops[o]) = {}
  <2>1. Changed(ops[o]) = {}
    BY <1>1 DEF Changed
  <2>2. QED
    BY <1>1, <2>1 DEF Owed
<1>5. Owed(r) = Changed(r)
  BY <1>2 DEF Owed
<1>6. /\ db' \in Tables /\ db'.links \subseteq Stored(db') \X db'.tags /\ UrlsUnique'
      /\ used' \in [feeds : 0 .. MaxId, tags : SUBSET Tag] /\ db'.tags \subseteq used'.tags
  BY RowsRight
<1>7. CASE r.kind \in {"delete", "manage", "tagDelete"}
  <2>1. Changed(r) = Query
    BY <1>2, <1>7 DEF Changed
  <2>2. QED
    BY <1>1, <1>2, <1>3, <1>5, <1>6, <1>7, <2>1, ServerStays
<1>8. CASE r.kind = "tagInsert"
  <2>1. Changed(r) = {"tags"}
    BY <1>2, <1>8 DEF Changed
  <2>2. db' = TagInserted(ops[o].add) /\ db \in Tables
    BY <1>2, <1>8 DEF Execute, StoreInv, Types
  <2>3. db'.feeds = db.feeds /\ db'.links = db.links
    BY <2>2 DEF TagInserted, Tables
  <2>4. /\ Answer("feeds", db') = Answer("feeds", db)
        /\ Answer("feed-tags", db') = Answer("feed-tags", db)
    BY <1>6, <2>2, <2>3, SameAnswers
  <2>5. \A q \in Query : q \in Owed(r) \/ Answer(q, db') = Answer(q, db)
    BY <1>5, <2>1, <2>4 DEF Query
  <2>6. QED
    BY <1>1, <1>2, <1>3, <1>4, <1>6, <1>8, <2>5, ServerStays
<1>9. CASE r.kind = "suspend"
  <2>1. db' = db
    BY <1>2, <1>9 DEF Execute
  <2>2. \A q \in Query : Answer(q, db') = Answer(q, db)
    BY <2>1
  <2>3. QED
    BY <1>1, <1>2, <1>3, <1>4, <1>6, <1>9, <2>2, ServerStays
<1>10. CASE r.kind = "refresh"
  <2>1. db' = db
    BY <1>2, <1>10 DEF Execute
  <2>2. /\ ops' \in [Op -> OpRecord] /\ OpsRight'
        /\ ops'[o] = r /\ \A p \in Op \ {o} : ops'[p] = ops[p]
    BY <1>1, <1>2, <1>3, OneChanges DEF StoreInv, Types
  <2>3. UNCHANGED <<cached, query, answer, acts, behind>>
    BY <1>1 DEF cache
  <2>4. ASSUME NEW p \in Op, NEW i \in Id PROVE Under(p, i)' <=> Under(p, i)
    BY <1>1, <1>2, <2>2 DEF Under
  <2>5. MarksRight'
    BY <1>1, <2>4, MarksKept DEF StoreInv, Types
  <2>6. \A p \in Op : Owed(ops[p]) \subseteq Owed(ops'[p])
    BY <1>4, <2>2
  <2>7. QueriesRight'
    BY <2>1, <2>3, <2>6, OwedKept DEF StoreInv
  <2>8. Types'
    BY <1>1, <1>6, <2>2, <2>3 DEF StoreInv, Types, fetching
  <2>9. QED
    BY <1>6, <2>2, <2>5, <2>7, <2>8 DEF StoreInv
<1>11. QED
  BY <1>1, <1>2, <1>7, <1>8, <1>9, <1>10

(* A query reads, or delivers; what it has read holds as long as the       *)
(* tables do.                                                              *)
LEMMA ReadStays ==
  ASSUME StoreInv, NEW q \in Query, Read(q)
  PROVE  StoreInv'
<1>1. /\ query' = [query EXCEPT ![q] = "read"] /\ answer' = [answer EXCEPT ![q] = Answer(q, db)]
      /\ UNCHANGED <<db, used, cached, ops, acts, behind>> /\ UNCHANGED fetching
  BY DEF Read, server
<1>2. db \in Tables /\ query \in [Query -> {"idle", "asked", "read"}] /\ answer \in [Query -> Tables]
  BY DEF StoreInv, Types
<1>3. Answer(q, db) \in Tables
  BY <1>2, Answers
<1>4. /\ query' \in [Query -> {"idle", "asked", "read"}] /\ answer' \in [Query -> Tables]
      /\ query'[q] = "read" /\ answer'[q] = Answer(q, db)
      /\ \A s \in Query \ {q} : query'[s] = query[s] /\ answer'[s] = answer[s]
  BY <1>1, <1>2, <1>3
<1>5. Types' /\ OpsRight' /\ UrlsUnique'
  BY <1>1, <1>4 DEF StoreInv, Types, OpsRight, UrlsUnique, Stored, fetching
<1>6. MarksRight'
  <2>1. ASSUME NEW p \in Op, NEW i \in Id PROVE Under(p, i)' <=> Under(p, i)
    BY <1>1 DEF Under
  <2>2. QED
    BY <1>1, <2>1, MarksKept DEF StoreInv, Types
<1>7. QueriesRight'
  <2>1. Fresh(q)'
    BY <1>1, <1>4 DEF Fresh
  <2>2. ASSUME NEW s \in Query \ {q} PROVE Fresh(s)' <=> Fresh(s)
    BY <1>1, <1>4 DEF Fresh
  <2>3. QED
    BY <1>1, <2>1, <2>2, Zenon DEF StoreInv, QueriesRight
<1>8. QED
  BY <1>5, <1>6, <1>7 DEF StoreInv

(* A query delivers.                                                       *)
LEMMA DeliverStays ==
  ASSUME StoreInv, NEW q \in Query, Deliver(q)
  PROVE  StoreInv'
<1>1. /\ query' = [query EXCEPT ![q] = "idle"] /\ answer' = [answer EXCEPT ![q] = Nothing]
      /\ cached' = [cached EXCEPT ![q] = answer[q]] /\ query[q] = "read"
      /\ UNCHANGED <<db, used, ops, acts, behind>> /\ UNCHANGED fetching
  BY DEF Deliver, server
<1>2. /\ query \in [Query -> {"idle", "asked", "read"}] /\ answer \in [Query -> Tables]
      /\ cached \in [Query -> Tables]
  BY DEF StoreInv, Types
<1>3. /\ query' \in [Query -> {"idle", "asked", "read"}] /\ answer' \in [Query -> Tables]
      /\ cached' \in [Query -> Tables]
      /\ query'[q] = "idle" /\ cached'[q] = answer[q]
      /\ \A s \in Query \ {q} : /\ query'[s] = query[s] /\ answer'[s] = answer[s]
                                /\ cached'[s] = cached[s]
  BY <1>1, <1>2, NothingIsTables
<1>4. Types' /\ OpsRight' /\ UrlsUnique'
  BY <1>1, <1>3 DEF StoreInv, Types, OpsRight, UrlsUnique, Stored, fetching
<1>5. MarksRight'
  <2>1. ASSUME NEW p \in Op, NEW i \in Id PROVE Under(p, i)' <=> Under(p, i)
    BY <1>1 DEF Under
  <2>2. QED
    BY <1>1, <2>1, MarksKept DEF StoreInv, Types
<1>6. QueriesRight'
  <2>1. Fresh(q) => Fresh(q)'
    BY <1>1, <1>3 DEF Fresh
  <2>2. ASSUME NEW s \in Query \ {q} PROVE Fresh(s)' <=> Fresh(s)
    BY <1>1, <1>3 DEF Fresh
  <2>3. QED
    BY <1>1, <2>1, <2>2, Zenon DEF StoreInv, QueriesRight
<1>7. QED
  BY <1>4, <1>5, <1>6 DEF StoreInv

-----------------------------------------------------------------------------
(* Answers.                                                                *)

(* A refresh that is over takes its marks along, and the overlaps that     *)
(* were with no other one.                                                 *)
LEMMA FetchedRight ==
  ASSUME StoreInv, NEW o \in Op, NEW failing \in BOOLEAN, Fetched(o, failing),
         ops[o].phase \in {"sent", "done", "refused"},
         \A p \in Op \ {o} : ops'[p] = ops[p],
         ops[o].kind = "refresh" => ops'[o] = Free,
         ops'[o].kind \in {ops[o].kind, "none"}
  PROVE  MarksRight' /\ marks' \subseteq Id /\ errors' \subseteq Id /\ crossed' \subseteq Id
<1>1. CASE ops[o].kind # "refresh"
  <2>1. UNCHANGED fetching
    BY <1>1 DEF Fetched
  <2>2. MarksRight'
    BY <1>1, <2>1, NoRefresh DEF StoreInv, Types
  <2>3. QED
    BY <2>1, <2>2 DEF StoreInv, Types, fetching
<1>2. CASE ops[o].kind = "refresh"
  <2> DEFINE some == ops[o].ids
             Met(i) == \E p \in Op \ {o} : Under(p, i)
  <2>1. PICK failed \in SUBSET some : FinishFetching(some, failed)
    BY <1>2 DEF Fetched
  <2>2. /\ marks' = marks \ some /\ errors' = (errors \ some) \cup failed
        /\ crossed' = crossed \ {i \in some : ~Met(i)}
    BY <1>2, <2>1 DEF FinishFetching, Fetched, Refreshed, Under
  <2>3. some \subseteq Id
    BY DEF StoreInv, Types, OpRecord
  <2>4. \A i : (Under(o, i) <=> i \in some) /\ ~Under(o, i)'
    BY <1>2 DEF Under, Free
  <2>5. \A p \in Op \ {o}, i \in Id : Under(p, i)' <=> Under(p, i)
    BY DEF Under
  <2>6. /\ \A i \in marks : i \in Id /\ i \notin errors /\ \E p \in Op : Under(p, i)
        /\ \A p \in Op, i \in Id : Under(p, i) => i \in marks \cup crossed
        /\ \A p, q \in Op, i \in Id : p # q /\ Under(p, i) /\ Under(q, i) => i \in crossed
        /\ errors \subseteq Id /\ crossed \subseteq Id
    BY DEF StoreInv, MarksRight, Types
  <2> HIDE DEF some
  <2>7. ASSUME NEW i \in marks' PROVE i \notin errors' /\ \E p \in Op : Under(p, i)'
    <3>1. i \in marks /\ i \notin some /\ i \notin errors /\ i \in Id
      BY <2>2, <2>6
    <3>2. PICK p \in Op : Under(p, i)
      BY <2>6, <3>1
    <3>3. p # o
      BY <2>4, <3>1, <3>2
    <3>4. Under(p, i)'
      BY <2>5, <3>1, <3>2, <3>3
    <3>5. QED
      BY <2>2, <3>1, <3>4
  <2>8. ASSUME NEW p \in Op, NEW i \in Id, Under(p, i)'
        PROVE  p # o /\ Under(p, i) /\ (i \in crossed => i \in crossed')
    <3>1. p # o /\ Under(p, i)
      BY <2>4, <2>5, <2>8
    <3>2. Met(i)
      BY <3>1
    <3> HIDE DEF Met
    <3>3. QED
      BY <2>2, <3>1, <3>2
  <2>9. ASSUME NEW p \in Op, NEW i \in Id, Under(p, i)' PROVE i \in marks' \cup crossed'
    <3>1. p # o /\ Under(p, i) /\ (i \in crossed => i \in crossed')
      BY <2>8, <2>9
    <3>2. CASE i \in some
      <4>1. i \in crossed
        BY <2>4, <2>6, <3>1, <3>2
      <4>2. QED
        BY <3>1, <4>1
    <3>3. CASE i \notin some
      BY <2>2, <2>6, <3>1, <3>3
    <3>4. QED
      BY <3>2, <3>3
  <2>10. ASSUME NEW p \in Op, NEW q \in Op, NEW i \in Id, p # q, Under(p, i)', Under(q, i)'
         PROVE  i \in crossed'
    <3>1. Under(p, i) /\ Under(q, i) /\ (i \in crossed => i \in crossed')
      BY <2>8, <2>10
    <3>2. QED
      BY <2>6, <2>10, <3>1
  <2>11. MarksRight'
    BY <2>7, <2>9, <2>10, Zenon DEF MarksRight
  <2>12. QED
    BY <2>2, <2>3, <2>6, <2>11
<1>3. QED
  BY <1>1, <1>2

(* What an answer tells about is asked for anew, and what it tells next is *)
(* still owed.                                                             *)
LEMMA TellStays ==
  ASSUME StoreInv, NEW o \in Op, NEW todo \in Seq(SUBSET Query), todo # <<>>,
         Tell(o, todo), UNCHANGED <<server, acts>>,
         ops[o].phase # "free", ops[o].kind \in {"refresh", "import"} => Last(todo),
         behind' \in SUBSET Query, behind \ Head(todo) \subseteq behind',
         Owed(ops[o]) \ behind' \subseteq UNION Range(todo),
         MarksRight', marks' \subseteq Id, errors' \subseteq Id, crossed' \subseteq Id
  PROVE  StoreInv'
<1> DEFINE r == IF Last(todo) THEN Free
                ELSE [ops[o] EXCEPT !.phase = "telling", !.todo = Tail(todo)]
<1>1. /\ ops' = [ops EXCEPT ![o] = r] /\ UNCHANGED cached
      /\ query' = [q \in Query |-> IF q \in Head(todo) THEN "asked" ELSE query[q]]
      /\ answer' = [q \in Query |-> IF q \in Head(todo) THEN Nothing ELSE answer[q]]
  BY DEF Tell, Invalidate
<1>2. UNCHANGED <<db, used, acts>>
  BY DEF server
<1>3. ops[o] \in OpRecord /\ OpRight(ops[o])
  BY DEF StoreInv, Types, OpsRight
<1>4. r \in OpRecord /\ OpRight(r)
  <2>1. CASE Last(todo)
    BY <2>1, FreeIsRecord
  <2>2. CASE ~Last(todo)
    <3>1. Tail(todo) \in Seq(SUBSET Query) /\ Len(todo) \in Nat \ {0} /\ Len(todo) # 1
      BY <2>2 DEF Last
    <3>2. Len(Tail(todo)) = Len(todo) - 1
      OBVIOUS
    <3>3. Tail(todo) # <<>>
      BY <3>1, <3>2
    <3>4. r = [ops[o] EXCEPT !.phase = "telling", !.todo = Tail(todo)]
      BY <2>2
    <3> HIDE DEF r
    <3>5. /\ r \in OpRecord /\ r.phase = "telling" /\ r.todo = Tail(todo)
          /\ r.kind = ops[o].kind
      BY <1>3, <3>1, <3>4 DEF OpRecord, Phase
    <3>6. r.kind \notin {"none", "refresh", "import"} /\ r # Free
      BY <1>3, <2>2, <3>5 DEF OpRight, Free
    <3>7. OpRight(r)
      BY <3>3, <3>5, <3>6 DEF OpRight
    <3>8. QED
      BY <3>5, <3>7
  <2>3. QED
    BY <2>1, <2>2
<1>5. ASSUME NEW q \in UNION Range(todo), q \notin Head(todo)
      PROVE  q \in Owed(r)
  <2>1. Len(todo) # 1 /\ q \in UNION Range(Tail(todo))
    BY <1>5, RestTold
  <2>2. r = [ops[o] EXCEPT !.phase = "telling", !.todo = Tail(todo)]
    BY <2>1 DEF Last
  <2>3. r.phase = "telling" /\ r.todo = Tail(todo)
    BY <1>3, <2>2 DEF OpRecord
  <2>4. QED
    BY <2>1, <2>3 DEF Owed
<1> HIDE DEF r
<1>6. /\ ops' \in [Op -> OpRecord] /\ OpsRight'
      /\ ops'[o] = r /\ \A p \in Op \ {o} : ops'[p] = ops[p]
  BY <1>1, <1>4, OneChanges DEF StoreInv, Types
<1>7. query' \in [Query -> {"idle", "asked", "read"}] /\ answer' \in [Query -> Tables]
  BY <1>1, NothingIsTables DEF StoreInv, Types
<1>8. QueriesRight'
  <2>1. ASSUME NEW q \in Query \ behind', q \in Head(todo) PROVE Fresh(q)'
    BY <1>1, <2>1 DEF Fresh
  <2>2. ASSUME NEW q \in Query \ behind', q \notin Head(todo)
        PROVE  Fresh(q)' \/ \E p \in Op : q \in Owed(ops'[p])
    <3>1. q \notin behind
      BY <2>2
    <3>2. CASE Fresh(q)
      BY <1>1, <1>2, <2>2, <3>2 DEF Fresh
    <3>3. ASSUME NEW p \in Op, q \in Owed(ops[p]) PROVE q \in Owed(ops'[p])
      <4>1. CASE p = o
        <5>1. q \in UNION Range(todo)
          BY <3>3, <4>1
        <5>2. q \in Owed(r)
          BY <1>5, <2>2, <5>1
        <5>3. QED
          BY <1>6, <4>1, <5>2
      <4>2. CASE p # o
        BY <1>6, <3>3, <4>2
      <4>3. QED
        BY <4>1, <4>2
    <3>4. QED
      BY <3>1, <3>2, <3>3 DEF StoreInv, QueriesRight
  <2>3. QED
    BY <2>1, <2>2, Zenon DEF QueriesRight
<1>9. Types' /\ UrlsUnique'
  BY <1>1, <1>2, <1>6, <1>7 DEF StoreInv, Types, UrlsUnique, Stored
<1>10. QED
  BY <1>6, <1>8, <1>9 DEF StoreInv

(* The answer arrives; what a request changed and does not tell is left    *)
(* behind.                                                                 *)
LEMMA SettleStays ==
  ASSUME StoreInv, NEW o \in Op, Settle(o)
  PROVE  StoreInv'
<1> DEFINE todo == Told(ops[o].kind)
<1>1. /\ ops[o] \in OpRecord /\ OpRight(ops[o]) /\ ops[o].phase = "done"
      /\ Fetched(o, FALSE) /\ Tell(o, todo) /\ UNCHANGED <<server, acts>>
      /\ behind' = (behind \cup (Changed(ops[o]) \ UNION Range(todo))) \ Head(todo)
  BY DEF Settle, StoreInv, Types, OpsRight
<1>2. ops[o].kind \in Kind \ {"none"}
  BY <1>1 DEF OpRecord, OpRight
<1>3. /\ todo \in Seq(SUBSET Query) /\ todo # <<>>
      /\ ops[o].kind \in {"refresh", "import"} => Last(todo)
  BY <1>2, ToldList DEF Last
<1> HIDE DEF todo
<1>4. Changed(ops[o]) \subseteq Query /\ Owed(ops[o]) = Changed(ops[o])
  <2>1. Changed(ops[o]) \in {{}, {"tags"}, Query}
    BY <1>1 DEF Changed
  <2>2. {"tags"} \subseteq Query
    BY DEF Query
  <2>3. QED
    BY <1>1, <2>1, <2>2 DEF Owed
<1>5. behind \subseteq Query
  BY DEF StoreInv, Types
<1>6. Head(todo) \subseteq UNION Range(todo)
  <2>1. 1 \in DOMAIN todo /\ Head(todo) = todo[1]
    BY <1>3
  <2>2. QED
    BY <2>1 DEF Range
<1>7. /\ behind' \in SUBSET Query /\ behind \ Head(todo) \subseteq behind'
      /\ Owed(ops[o]) \ behind' \subseteq UNION Range(todo)
  BY <1>1, <1>4, <1>5, <1>6
<1>8. /\ \A p \in Op \ {o} : ops'[p] = ops[p]
      /\ ops[o].kind = "refresh" => ops'[o] = Free
      /\ ops'[o].kind \in {ops[o].kind, "none"}
  <2> DEFINE r == IF Last(todo) THEN Free
                  ELSE [ops[o] EXCEPT !.phase = "telling", !.todo = Tail(todo)]
  <2>1. ops' = [ops EXCEPT ![o] = r] /\ ops \in [Op -> OpRecord]
    BY <1>1 DEF Tell, StoreInv, Types
  <2>2. r.kind \in {ops[o].kind, "none"} /\ (Last(todo) => r = Free)
    BY <1>1 DEF Free, OpRecord
  <2> HIDE DEF r
  <2>3. QED
    BY <1>3, <2>1, <2>2
<1>9. MarksRight' /\ marks' \subseteq Id /\ errors' \subseteq Id /\ crossed' \subseteq Id
  BY <1>1, <1>8, FetchedRight
<1>10. QED
  BY <1>1, <1>3, <1>7, <1>9, TellStays

(* It goes on with the next queries.                                       *)
LEMMA TellNextStays ==
  ASSUME StoreInv, NEW o \in Op, TellNext(o)
  PROVE  StoreInv'
<1> DEFINE todo == ops[o].todo
<1>1. /\ ops[o] \in OpRecord /\ OpRight(ops[o]) /\ ops[o].phase = "telling"
      /\ Tell(o, todo) /\ UNCHANGED <<server, acts>> /\ UNCHANGED fetching
      /\ behind' = behind \ Head(todo)
  BY DEF TellNext, StoreInv, Types, OpsRight
<1>2. /\ todo \in Seq(SUBSET Query) /\ todo # <<>>
      /\ ops[o].kind \notin {"none", "refresh", "import"}
  BY <1>1 DEF OpRecord, OpRight
<1>3. Owed(ops[o]) = UNION Range(todo)
  BY <1>1 DEF Owed
<1> HIDE DEF todo
<1>4. /\ behind' \in SUBSET Query /\ behind \ Head(todo) \subseteq behind'
      /\ Owed(ops[o]) \ behind' \subseteq UNION Range(todo)
  BY <1>1, <1>3 DEF StoreInv, Types
<1>5. (\A p \in Op \ {o} : ops'[p] = ops[p]) /\ ops'[o].kind \in {ops[o].kind, "none"}
  <2> DEFINE r == IF Last(todo) THEN Free
                  ELSE [ops[o] EXCEPT !.phase = "telling", !.todo = Tail(todo)]
  <2>1. ops' = [ops EXCEPT ![o] = r] /\ ops \in [Op -> OpRecord]
    BY <1>1 DEF Tell, StoreInv, Types
  <2>2. r.kind \in {ops[o].kind, "none"}
    BY <1>1 DEF Free, OpRecord
  <2> HIDE DEF r
  <2>3. QED
    BY <2>1, <2>2
<1>6. MarksRight'
  BY <1>1, <1>2, <1>5, NoRefresh DEF StoreInv, Types
<1>7. marks' \subseteq Id /\ errors' \subseteq Id /\ crossed' \subseteq Id
  BY <1>1 DEF StoreInv, Types, fetching
<1>8. QED
  BY <1>1, <1>2, <1>4, <1>6, <1>7, TellStays

(* Nobody is told of a request that failed; what it changed is left        *)
(* behind.                                                                 *)
LEMMA FailStays ==
  ASSUME StoreInv, NEW o \in Op, Fail(o)
  PROVE  StoreInv'
<1>1. /\ ops[o].phase \in {"sent", "done", "refused"} /\ Fetched(o, TRUE)
      /\ ops' = [ops EXCEPT ![o] = Free] /\ behind' = behind \cup Changed(ops[o])
      /\ UNCHANGED <<db, used, cached, query, answer, acts>>
  BY DEF Fail, server, cache
<1>2. /\ ops' \in [Op -> OpRecord] /\ OpsRight'
      /\ ops'[o] = Free /\ \A p \in Op \ {o} : ops'[p] = ops[p]
  BY <1>1, OneChanges, FreeIsRecord DEF StoreInv, Types
<1>3. ops'[o].kind = "none"
  BY <1>2 DEF Free
<1>4. MarksRight' /\ marks' \subseteq Id /\ errors' \subseteq Id /\ crossed' \subseteq Id
  BY <1>1, <1>2, <1>3, FetchedRight
<1>5. Changed(ops[o]) \subseteq Query /\ Owed(ops[o]) = Changed(ops[o])
  <2>1. Changed(ops[o]) \in {{}, {"tags"}, Query}
    BY DEF Changed
  <2>2. {"tags"} \subseteq Query
    BY DEF Query
  <2>3. QED
    BY <1>1, <2>1, <2>2 DEF Owed
<1>6. QueriesRight'
  <2>1. ASSUME NEW q \in Query \ behind' PROVE Fresh(q)' \/ \E p \in Op : q \in Owed(ops'[p])
    <3>1. q \in Query \ behind /\ q \notin Owed(ops[o])
      BY <1>1, <1>5, <2>1
    <3>2. Fresh(q) => Fresh(q)'
      BY <1>1 DEF Fresh
    <3>3. ASSUME NEW p \in Op, q \in Owed(ops[p]) PROVE q \in Owed(ops'[p])
      BY <1>2, <3>1, <3>3
    <3>4. QED
      BY <3>1, <3>2, <3>3 DEF StoreInv, QueriesRight
  <2>2. QED
    BY <2>1, Zenon DEF QueriesRight
<1>7. Types' /\ UrlsUnique'
  BY <1>1, <1>2, <1>4, <1>5 DEF StoreInv, Types, UrlsUnique, Stored
<1>8. QED
  BY <1>2, <1>4, <1>6, <1>7 DEF StoreInv

-----------------------------------------------------------------------------
(* The pages.                                                              *)

(* The store stays while something else happens.                           *)
LEMMA StoreQuiet ==
  ASSUME StoreInv, UNCHANGED <<server, cache, ops, fetching, behind>>,
         acts' \in [done : 0 .. MaxActs, sent : 0 .. MaxSent]
  PROVE  StoreInv'
<1>1. UNCHANGED <<db, used, cached, query, answer, behind, ops>>
  BY DEF server, cache
<1>2. MarksRight'
  <2>1. ASSUME NEW p \in Op, NEW i \in Id PROVE Under(p, i)' <=> Under(p, i)
    BY <1>1 DEF Under
  <2>2. QED
    BY <2>1, MarksKept DEF StoreInv, Types
<1>3. QueriesRight'
  <2>1. \A p \in Op : Owed(ops[p]) \subseteq Owed(ops'[p])
    BY <1>1
  <2>2. QED
    BY <1>1, <2>1, OwedKept DEF StoreInv
<1>4. Types' /\ UrlsUnique' /\ OpsRight'
  BY <1>1 DEF StoreInv, Types, UrlsUnique, Stored, OpsRight, fetching
<1>5. QED
  BY <1>2, <1>3, <1>4 DEF StoreInv

(* What users do is counted up to the bounds.                              *)
LEMMA ActsRight ==
  ASSUME Types, Act \/ Ask
  PROVE  acts' \in [done : 0 .. MaxActs, sent : 0 .. MaxSent]
<1>1. /\ acts \in [done : 0 .. MaxActs, sent : 0 .. MaxSent] /\ acts.done < MaxActs
      /\ MaxActs \in Nat /\ MaxSent \in Nat
  BY StoreAssumption DEF Types, Act, Ask, Room
<1>2. acts.done + 1 \in 0 .. MaxActs
  BY <1>1
<1>3. CASE Act
  <2>1. acts' = [acts EXCEPT !.done = @ + 1]
    BY <1>3 DEF Act
  <2>2. QED
    BY <1>1, <1>2, <2>1
<1>4. CASE Ask
  <2>1. acts' = [done |-> acts.done + 1, sent |-> acts.sent + 1] /\ acts.sent < MaxSent
    BY <1>4 DEF Ask
  <2>2. acts.sent + 1 \in 0 .. MaxSent
    BY <1>1, <2>1
  <2>3. QED
    BY <1>2, <2>1, <2>2
<1>5. QED
  BY <1>3, <1>4

(* A request about some feeds.                                             *)
LEMMA IdsFit ==
  ASSUME NEW kind \in Kind \ {"none"}, NEW is \in SUBSET Id
  PROVE  LET r == [New(kind) EXCEPT !.ids = is]
         IN Fits(r) /\ r.kind = kind /\ r.ids = is
<1> DEFINE n == New(kind)
           r == [n EXCEPT !.ids = is]
<1>1. n \in OpRecord /\ n.phase = "sent" /\ n.kind = kind /\ kind # "none" /\ n.wrote = {}
  BY NewFits DEF Fits
<1> HIDE DEF n
<1>2. Fits(r) /\ r.kind = kind /\ r.ids = is
  BY <1>1 DEF Fits, OpRecord
<1>3. QED
  BY <1>2 DEF n

(* One that gives them tags and takes tags from them.                      *)
LEMMA ManageFits ==
  ASSUME NEW kind \in Kind \ {"none"}, NEW is \in SUBSET Id,
         NEW add \in SUBSET Tag, NEW remove \in SUBSET Tag
  PROVE  LET r == [New(kind) EXCEPT !.ids = is, !.add = add, !.remove = remove]
         IN Fits(r) /\ r.kind = kind
<1> DEFINE n == New(kind)
           r == [n EXCEPT !.ids = is, !.add = add, !.remove = remove]
<1>1. n \in OpRecord /\ n.phase = "sent" /\ n.kind = kind /\ kind # "none" /\ n.wrote = {}
  BY NewFits DEF Fits
<1> HIDE DEF n
<1>2. Fits(r) /\ r.kind = kind
  BY <1>1 DEF Fits, OpRecord
<1>3. QED
  BY <1>2 DEF n

(* One about URLs, and tags to give them.                                  *)
LEMMA UrlsFit ==
  ASSUME NEW kind \in Kind \ {"none"}, NEW urls \in SUBSET Url, NEW add \in SUBSET Tag
  PROVE  LET r == [New(kind) EXCEPT !.url = urls, !.add = add]
         IN Fits(r) /\ r.kind = kind
<1> DEFINE n == New(kind)
           r == [n EXCEPT !.url = urls, !.add = add]
<1>1. n \in OpRecord /\ n.phase = "sent" /\ n.kind = kind /\ kind # "none" /\ n.wrote = {}
  BY NewFits DEF Fits
<1> HIDE DEF n
<1>2. Fits(r) /\ r.kind = kind
  BY <1>1 DEF Fits, OpRecord
<1>3. QED
  BY <1>2 DEF n

(* One about a new tag.                                                    *)
LEMMA AddFits ==
  ASSUME NEW kind \in Kind \ {"none"}, NEW add \in SUBSET Tag
  PROVE  LET r == [New(kind) EXCEPT !.add = add]
         IN Fits(r) /\ r.kind = kind
<1> DEFINE n == New(kind)
           r == [n EXCEPT !.add = add]
<1>1. n \in OpRecord /\ n.phase = "sent" /\ n.kind = kind /\ kind # "none" /\ n.wrote = {}
  BY NewFits DEF Fits
<1> HIDE DEF n
<1>2. Fits(r) /\ r.kind = kind
  BY <1>1 DEF Fits, OpRecord
<1>3. QED
  BY <1>2 DEF n

(* One about a tag that goes.                                              *)
LEMMA RemoveFits ==
  ASSUME NEW kind \in Kind \ {"none"}, NEW remove \in SUBSET Tag
  PROVE  LET r == [New(kind) EXCEPT !.remove = remove]
         IN Fits(r) /\ r.kind = kind
<1> DEFINE n == New(kind)
           r == [n EXCEPT !.remove = remove]
<1>1. n \in OpRecord /\ n.phase = "sent" /\ n.kind = kind /\ kind # "none" /\ n.wrote = {}
  BY NewFits DEF Fits
<1> HIDE DEF n
<1>2. Fits(r) /\ r.kind = kind
  BY <1>1 DEF Fits, OpRecord
<1>3. QED
  BY <1>2 DEF n

(* A request that refreshes nothing is sent by a control.                  *)
LEMMA AskStays ==
  ASSUME StoreInv, NEW o \in Op, NEW r, Fits(r), r.kind # "refresh", IsFree(o), Ask, Sent(o, r),
         UNCHANGED <<server, cache, behind>>, UNCHANGED fetching
  PROVE  StoreInv'
<1>1. ops[o].phase = "free" /\ acts' \in [done : 0 .. MaxActs, sent : 0 .. MaxSent]
  BY ActsRight DEF IsFree, StoreInv
<1>2. QED
  BY <1>1, SentStays

(* Feeds are fetched.                                                      *)
LEMMA RefreshStays ==
  ASSUME StoreInv, NEW o \in Op, NEW is \in SUBSET Id, RefreshFeeds(o, is), Ask,
         UNCHANGED <<server, cache, behind>>
  PROVE  StoreInv'
<1> DEFINE r == [New("refresh") EXCEPT !.ids = is]
<1>1. ops[o].phase = "free" /\ acts' \in [done : 0 .. MaxActs, sent : 0 .. MaxSent]
  BY ActsRight DEF RefreshFeeds, IsFree, StoreInv
<1>2. "refresh" \in Kind \ {"none"}
  BY DEF Kind
<1>3. Fits(r) /\ r.kind = "refresh" /\ r.ids = is
  BY <1>2, IdsFit
<1>4. Sent(o, r) /\ StartFetching(o, is)
  BY DEF RefreshFeeds
<1> HIDE DEF r
<1>5. QED
  BY <1>1, <1>3, <1>4, SentStays

(* What is on the page is of the tables' kinds.                            *)
LEMMA ShownRight ==
  ASSUME Types
  PROVE  Feeds \subseteq Id /\ FeedList \subseteq Id /\ Tags \subseteq Tag
<1>1. cached["feeds"] \in Tables /\ cached["tags"] \in Tables
  BY DEF Types, Query
<1>2. QED
  BY <1>1 DEF Feeds, FeedList, Filtered, Tags, Stored, Tables

(* The list of feeds.                                                      *)
LEMMA ListStays == StoreInv /\ PageTypes /\ ListStep => StoreInv' /\ PageTypes'
<1> SUFFICES ASSUME StoreInv, PageTypes, ListStep PROVE StoreInv' /\ PageTypes'
  OBVIOUS
<1>1. Types /\ Feeds \subseteq Id /\ FeedList \subseteq Id /\ Tags \subseteq Tag
  BY ShownRight DEF StoreInv
<1>2. ASSUME NEW i \in Id, ToggleFeed(i) PROVE StoreInv' /\ PageTypes'
  BY <1>1, <1>2, StoreQuiet, ActsRight
     DEF ToggleFeed, PageTypes, dialogs, forms
<1>3. ASSUME ToggleSelectAll PROVE StoreInv' /\ PageTypes'
  BY <1>1, <1>3, StoreQuiet, ActsRight
     DEF ToggleSelectAll, PageTypes, dialogs, forms
<1>4. ASSUME ClearSelection PROVE StoreInv' /\ PageTypes'
  BY <1>1, <1>4, StoreQuiet, ActsRight
     DEF ClearSelection, PageTypes, dialogs, forms
<1>5. ASSUME NEW f \in Tag \cup {"all", "untagged"}, SetFilter(f) PROVE StoreInv' /\ PageTypes'
  BY <1>1, <1>5, StoreQuiet, ActsRight
     DEF SetFilter, PageTypes, dialogs, forms
<1>6. ASSUME NEW o \in Op, NEW i \in Id, RefreshRow(o, i) PROVE StoreInv' /\ PageTypes'
  <2>1. StoreInv'
    <3>1. {i} \in SUBSET Id
      BY <1>6
    <3>2. QED
      BY <1>6, <3>1, RefreshStays DEF RefreshRow
  <2>2. PageTypes'
    BY <1>6 DEF RefreshRow, PageTypes, list, dialogs, forms
  <2>3. QED
    BY <2>1, <2>2
<1>7. ASSUME NEW o \in Op, RefreshSelected(o) PROVE StoreInv' /\ PageTypes'
  <2>1. StoreInv'
    BY <1>7, RefreshStays DEF RefreshSelected, PageTypes
  <2>2. PageTypes'
    BY <1>7 DEF RefreshSelected, PageTypes, list, dialogs, forms
  <2>3. QED
    BY <2>1, <2>2
<1>8. ASSUME NEW o \in Op, NEW is \in SUBSET Id, NEW kind \in {"suspend", "delete"},
             IsFree(o), Ask, Sent(o, [New(kind) EXCEPT !.ids = is]),
             UNCHANGED <<server, cache, fetching, behind>>
      PROVE  StoreInv'
  <2> DEFINE r == [New(kind) EXCEPT !.ids = is]
  <2>1. kind \in Kind \ {"none"} /\ kind # "refresh"
    BY <1>8 DEF Kind
  <2>2. Fits(r) /\ r.kind # "refresh"
    BY <2>1, IdsFit
  <2> HIDE DEF r
  <2>3. Sent(o, r)
    BY <1>8 DEF r
  <2>4. QED
    BY <1>8, <2>2, <2>3, AskStays
<1>9. ASSUME NEW o \in Op, NEW i \in Id, SuspendRow(o, i) PROVE StoreInv' /\ PageTypes'
  <2>1. {i} \in SUBSET Id
    BY <1>9
  <2>2. StoreInv'
    BY <1>8, <1>9, <2>1 DEF SuspendRow
  <2>3. PageTypes'
    BY <1>9 DEF SuspendRow, PageTypes, page, list, dialogs, forms
  <2>4. QED
    BY <2>2, <2>3
<1>10. ASSUME NEW o \in Op, SuspendSelected(o) PROVE StoreInv' /\ PageTypes'
  <2>1. StoreInv'
    BY <1>8, <1>10 DEF SuspendSelected, PageTypes
  <2>2. PageTypes'
    BY <1>10 DEF SuspendSelected, PageTypes, dialogs, forms
  <2>3. QED
    BY <2>1, <2>2
<1>11. ASSUME NEW o \in Op, NEW i \in Id, DeleteFeed(o, i) PROVE StoreInv' /\ PageTypes'
  <2>1. {i} \in SUBSET Id
    BY <1>11
  <2>2. StoreInv'
    BY <1>8, <1>11, <2>1 DEF DeleteFeed
  <2>3. PageTypes'
    BY <1>11 DEF DeleteFeed, PageTypes, dialogs, forms
  <2>4. QED
    BY <2>2, <2>3
<1>12. QED
  BY <1>2, <1>3, <1>4, <1>5, <1>6, <1>7, <1>9, <1>10, <1>11 DEF ListStep

(* The dialogs.                                                            *)
LEMMA DialogStays == StoreInv /\ PageTypes /\ DialogStep => StoreInv' /\ PageTypes'
<1> SUFFICES ASSUME StoreInv, PageTypes, DialogStep PROVE StoreInv' /\ PageTypes'
  OBVIOUS
<1>1. Types /\ Feeds \subseteq Id /\ FeedList \subseteq Id /\ Tags \subseteq Tag
      /\ acts \in [done : 0 .. MaxActs, sent : 0 .. MaxSent]
  BY ShownRight DEF StoreInv, Types
<1>2. ASSUME NEW d \in {"tags", "import"}, OpenDialog(d) PROVE StoreInv' /\ PageTypes'
  BY <1>1, <1>2, StoreQuiet DEF OpenDialog, PageTypes, list, forms
<1>3. ASSUME CloseDialog PROVE StoreInv' /\ PageTypes'
  BY <1>1, <1>3, StoreQuiet DEF CloseDialog, PageTypes, forms
<1>4. ASSUME NEW t \in Tag, ToggleAddTag(t) PROVE StoreInv' /\ PageTypes'
  BY <1>1, <1>4, StoreQuiet, ActsRight DEF ToggleAddTag, Toggled, PageTypes, list, forms
<1>5. ASSUME NEW t \in Tag, ToggleRemoveTag(t) PROVE StoreInv' /\ PageTypes'
  BY <1>1, <1>5, StoreQuiet, ActsRight DEF ToggleRemoveTag, Toggled, PageTypes, list, forms
<1>6. ASSUME NEW o \in Op, SaveTags(o) PROVE StoreInv' /\ PageTypes'
  <2> DEFINE add == staged.add
             remove == staged.remove
             r == [New("manage") EXCEPT !.ids = selected, !.add = add, !.remove = remove]
  <2>1. "manage" \in Kind \ {"none"}
    BY DEF Kind
  <2>2. selected \in SUBSET Id /\ add \in SUBSET Tag /\ remove \in SUBSET Tag
    BY DEF PageTypes
  <2> HIDE DEF add, remove
  <2>3. Fits(r) /\ r.kind = "manage"
    BY <2>1, <2>2, ManageFits
  <2>4. Sent(o, r)
    BY <1>6 DEF SaveTags, add, remove
  <2> HIDE DEF r
  <2>5. StoreInv'
    BY <1>6, <2>3, <2>4, AskStays DEF SaveTags
  <2>6. PageTypes'
    BY <1>6 DEF SaveTags, PageTypes, page, list, dialogs, forms
  <2>7. QED
    BY <2>5, <2>6
<1>7. ASSUME NEW o \in Op, NEW urls \in (SUBSET Url) \ {{}}, NEW tags \in SUBSET Tag,
             ChooseFile(o, urls, tags)
      PROVE  StoreInv' /\ PageTypes'
  <2> DEFINE r == [New("import") EXCEPT !.url = urls, !.add = tags]
  <2>1. "import" \in Kind \ {"none"} /\ urls \in SUBSET Url
    BY DEF Kind
  <2>2. Fits(r) /\ r.kind = "import"
    BY <2>1, UrlsFit
  <2>3. Sent(o, r)
    BY <1>7 DEF ChooseFile
  <2> HIDE DEF r
  <2>4. StoreInv'
    BY <1>7, <2>2, <2>3, AskStays DEF ChooseFile
  <2>5. PageTypes'
    BY <1>7 DEF ChooseFile, PageTypes, list, forms
  <2>6. QED
    BY <2>4, <2>5
<1>8. QED
  BY <1>2, <1>3, <1>4, <1>5, <1>6, <1>7 DEF DialogStep

(* The forms.                                                              *)
LEMMA FormStays == StoreInv /\ PageTypes /\ FormStep => StoreInv' /\ PageTypes'
<1> SUFFICES ASSUME StoreInv, PageTypes, FormStep PROVE StoreInv' /\ PageTypes'
  OBVIOUS
<1>1. Types /\ Tags \subseteq Tag
  BY ShownRight DEF StoreInv
<1>2. ASSUME NEW u \in Url \cup {NoUrl}, TypeUrl(u) PROVE StoreInv' /\ PageTypes'
  BY <1>1, <1>2, StoreQuiet, ActsRight DEF TypeUrl, PageTypes, list, dialogs
<1>3. ASSUME NEW t \in Tag, ToggleTag(t) PROVE StoreInv' /\ PageTypes'
  BY <1>1, <1>3, StoreQuiet, ActsRight DEF ToggleTag, Toggled, PageTypes, list, dialogs
<1>4. ASSUME NEW t \in Tag, TypeTag(t) PROVE StoreInv' /\ PageTypes'
  BY <1>1, <1>4, StoreQuiet, ActsRight DEF TypeTag, PageTypes, list, dialogs
<1>5. ASSUME NEW o \in Op, NEW t \in Tag, DeleteTag(o, t) PROVE StoreInv' /\ PageTypes'
  <2> DEFINE r == [New("tagDelete") EXCEPT !.remove = {t}]
  <2>1. "tagDelete" \in Kind \ {"none"} /\ {t} \in SUBSET Tag
    BY DEF Kind
  <2>2. Fits(r) /\ r.kind = "tagDelete"
    BY <2>1, RemoveFits
  <2>3. Sent(o, r)
    BY <1>5 DEF DeleteTag
  <2> HIDE DEF r
  <2>4. StoreInv'
    BY <1>5, <2>2, <2>3, AskStays DEF DeleteTag
  <2>5. PageTypes'
    BY <1>5 DEF DeleteTag, PageTypes, page, list, dialogs, forms
  <2>6. QED
    BY <2>4, <2>5
<1>6. ASSUME NEW o \in Op, SubmitFeed(o) PROVE StoreInv' /\ PageTypes'
  <2> DEFINE r == [New("create") EXCEPT !.url = {form.url} \ {NoUrl}, !.add = form.tags \cap Tags]
  <2>1. "create" \in Kind \ {"none"}
    BY DEF Kind
  <2>2. {form.url} \ {NoUrl} \in SUBSET Url /\ form.tags \cap Tags \in SUBSET Tag
    BY <1>1 DEF PageTypes
  <2>3. Fits(r) /\ r.kind = "create"
    BY <2>1, <2>2, UrlsFit
  <2>4. Sent(o, r)
    BY <1>6 DEF SubmitFeed
  <2> HIDE DEF r
  <2>5. StoreInv'
    BY <1>6, <2>3, <2>4, AskStays DEF SubmitFeed
  <2>6. PageTypes'
    BY <1>6 DEF SubmitFeed, PageTypes, list, dialogs
  <2>7. QED
    BY <2>5, <2>6
<1>7. ASSUME NEW o \in Op, CreateTag(o) PROVE StoreInv' /\ PageTypes'
  <2> DEFINE r == [New("tagInsert") EXCEPT !.add = {tagName}]
  <2>1. "tagInsert" \in Kind \ {"none"} /\ {tagName} \in SUBSET Tag
    BY <1>7 DEF Kind, CreateTag, PageTypes
  <2>2. Fits(r) /\ r.kind = "tagInsert"
    BY <2>1, AddFits
  <2>3. Sent(o, r)
    BY <1>7 DEF CreateTag
  <2> HIDE DEF r
  <2>4. StoreInv'
    BY <1>7, <2>2, <2>3, AskStays DEF CreateTag
  <2>5. PageTypes'
    BY <1>7 DEF CreateTag, PageTypes, page, list, dialogs, forms
  <2>6. QED
    BY <2>4, <2>5
<1>8. QED
  BY <1>2, <1>3, <1>4, <1>5, <1>6, <1>7 DEF FormStep

(* The server, and the answers.                                            *)
LEMMA ServerStepStays == StoreInv /\ PageTypes /\ ServerStep => StoreInv' /\ PageTypes'
<1> SUFFICES ASSUME StoreInv, PageTypes, ServerStep PROVE StoreInv' /\ PageTypes'
  OBVIOUS
<1>1. StoreInv'
  BY CreateStays, TagsStay, ChecksStay, ImportStays, ExecuteStays, ReadStays DEF ServerStep
<1>2. PageTypes'
  BY DEF ServerStep, PageTypes, page, list, dialogs, forms
<1>3. QED
  BY <1>1, <1>2

(* What handlers leave on the page.                                        *)
LEMMA OverRight ==
  ASSUME PageTypes, NEW o \in Op, NEW ok \in BOOLEAN, Over(o, ok)
  PROVE  PageTypes'
<1> DEFINE kind == ops[o].kind
<1>1. form' \in [url : Url \cup {NoUrl}, tags : SUBSET Tag, pending : BOOLEAN, error : BOOLEAN]
  <2>1. CASE kind = "create" /\ ok
    BY <2>1 DEF Over, EmptyForm
  <2>2. CASE kind = "create" /\ ~ok
    <3>1. form' = [form EXCEPT !.pending = FALSE, !.error = TRUE]
      BY <2>2 DEF Over
    <3>2. QED
      BY <3>1 DEF PageTypes
  <2>3. CASE kind # "create"
    BY <2>3 DEF Over, PageTypes
  <2>4. QED
    BY <2>1, <2>2, <2>3
<1>2. imported' \in {"choose", "pending", "result", "error"}
  <2>1. CASE kind = "import" /\ ok
    BY <2>1 DEF Over
  <2>2. CASE kind = "import" /\ ~ok
    BY <2>2 DEF Over
  <2>3. CASE kind # "import"
    BY <2>3 DEF Over, PageTypes
  <2>4. QED
    BY <2>1, <2>2, <2>3
<1>3. staged' \in [add : SUBSET Tag, remove : SUBSET Tag] /\ staged'.add \cap staged'.remove = {}
  BY DEF Over, PageTypes, Unstaged
<1>4. /\ selected' \subseteq Id /\ filter' \in Tag \cup {"all", "untagged"}
      /\ dialog' \in {"none", "tags", "import"} /\ latest' \in Op \cup {NoOp}
      /\ tagName' \in Tag \cup {"none"}
  BY DEF Over, PageTypes
<1>5. deleteError' \in BOOLEAN
  BY DEF Over, PageTypes
<1>6. QED
  BY <1>1, <1>2, <1>3, <1>4, <1>5 DEF PageTypes

LEMMA AnswerStays == StoreInv /\ PageTypes /\ AnswerStep => StoreInv' /\ PageTypes'
<1> SUFFICES ASSUME StoreInv, PageTypes, AnswerStep PROVE StoreInv' /\ PageTypes'
  OBVIOUS
<1>1. UNCHANGED page => PageTypes'
  BY DEF PageTypes, page, list, dialogs, forms
<1>2. ASSUME NEW o \in Op, Answered(o) PROVE StoreInv' /\ PageTypes'
  BY <1>1, <1>2, SettleStays, OverRight DEF Answered
<1>3. ASSUME NEW o \in Op, GoesOn(o) PROVE StoreInv' /\ PageTypes'
  BY <1>1, <1>3, TellNextStays, OverRight DEF GoesOn
<1>4. ASSUME NEW o \in Op, Failed(o) PROVE StoreInv' /\ PageTypes'
  BY <1>4, FailStays, OverRight DEF Failed
<1>5. ASSUME NEW q \in Query, Shown(q) PROVE StoreInv' /\ PageTypes'
  <2>1. StoreInv'
    BY <1>5, DeliverStays DEF Shown
  <2>2. PageTypes'
    BY <1>5 DEF Shown, ValidFilter, PageTypes, dialogs, forms
  <2>3. QED
    BY <2>1, <2>2
<1>6. QED
  BY <1>2, <1>3, <1>4, <1>5 DEF AnswerStep

(* Every step keeps the invariant.                                         *)
LEMMA InvStays == StoreInv /\ PageTypes /\ [Next]_vars => StoreInv' /\ PageTypes'
<1> SUFFICES ASSUME StoreInv, PageTypes, [Next]_vars PROVE StoreInv' /\ PageTypes'
  OBVIOUS
<1>1. CASE UNCHANGED vars
  <2>1. StoreInv'
    BY <1>1, StoreQuiet DEF vars, StoreInv, Types
  <2>2. PageTypes'
    BY <1>1 DEF vars, PageTypes, page, list, dialogs, forms
  <2>3. QED
    BY <2>1, <2>2
<1>2. CASE Next
  BY <1>2, ListStays, DialogStays, FormStays, ServerStepStays, AnswerStays DEF Next
<1>3. QED
  BY <1>1, <1>2

-----------------------------------------------------------------------------
(* The theorems.                                                           *)

(* The invariant holds in every state.                                     *)
LEMMA AlwaysInv == Spec => [](StoreInv /\ PageTypes)
  BY StartInv, InvStays, PTL DEF Spec

(* Each variable of the store and of the pages has its type, and rows only *)
(* refer to rows that exist.                                               *)
THEOREM TypeCorrect == Spec => []TypeOK
<1>1. StoreInv /\ PageTypes => TypeOK
  <2> SUFFICES ASSUME StoreInv, PageTypes PROVE TypeOK
    OBVIOUS
  <2>1. ASSUME NEW o \in Op
        PROVE  /\ ops[o].kind \in Kind /\ ops[o].phase \in Phase
               /\ ops[o].url \subseteq Url /\ ops[o].ids \subseteq Id /\ ops[o].wrote \subseteq Id
               /\ ops[o].add \cup ops[o].remove \subseteq Tag
               /\ Range(ops[o].todo) \subseteq SUBSET Query
    <3>1. ops[o] \in OpRecord
      BY DEF StoreInv, Types
    <3>2. ops[o].todo \in Seq(SUBSET Query)
      BY <3>1 DEF OpRecord
    <3>3. Range(ops[o].todo) \subseteq SUBSET Query
      BY <3>2 DEF Range
    <3>4. QED
      BY <3>1, <3>3 DEF OpRecord
  <2>2. /\ used.feeds \in 0 .. MaxId /\ db.tags \subseteq used.tags /\ used.tags \subseteq Tag
        /\ db \in Tables /\ db.links \subseteq Stored(db) \X db.tags
        /\ cached \in [Query -> Tables] /\ answer \in [Query -> Tables]
        /\ query \in [Query -> {"idle", "asked", "read"}]
        /\ marks \subseteq Id /\ errors \subseteq Id /\ crossed \subseteq Id
        /\ acts \in [done : 0 .. MaxActs, sent : 0 .. MaxSent] /\ behind \subseteq Query
    BY DEF StoreInv, Types
  <2>3. StoreTypeOK
    BY <2>1, <2>2, Zenon DEF StoreTypeOK, Kind, Phase
  <2>4. staged.add \cup staged.remove \subseteq Tag
    BY DEF PageTypes
  <2>5. QED
    BY <2>3, <2>4, Zenon DEF TypeOK, PageTypes
<1>2. QED
  BY <1>1, AlwaysInv, PTL

(* A feed has the spinner only while it is fetched, and one that is        *)
(* fetched has it unless its fetches overlapped.                           *)
THEOREM SpinnersExact == Spec => []SpinnerExact
<1>1. StoreInv => SpinnerExact
  BY DEF StoreInv, MarksRight, SpinnerExact, Spinner, ErrorIcon, Under
<1>2. QED
  BY <1>1, AlwaysInv, PTL

(* Imports are whole, and no URL is stored twice.                          *)
THEOREM ImportsWhole == Spec => []NoHalfImport
<1>1. StoreInv => NoHalfImport
  BY DEF StoreInv, OpsRight, OpRight, UrlsUnique, NoHalfImport
<1>2. QED
  BY <1>1, AlwaysInv, PTL

(* Once every request is answered and every query has delivered, the pages *)
(* show what the tables hold, but for what nobody was told.                *)
THEOREM CachesFresh == Spec => []CacheFresh
<1>1. StoreInv => CacheFresh
  <2> SUFFICES ASSUME StoreInv, \A o \in Op : ops[o].phase = "free",
                      \A q \in Query : query[q] = "idle"
               PROVE  /\ "feeds" \notin behind =>
                           /\ Feeds = Stored(db)
                           /\ \A i \in DOMAIN Rows : Rows[i].badges = TagsOf(i, db)
                      /\ "tags" \notin behind =>
                           /\ {row.name : row \in TagRows} = db.tags
                           /\ \A row \in TagRows : row.feeds = Cardinality(FeedsOf(row.name, db))
                      /\ {"feeds", "feed-tags"} \cap behind = {} =>
                           DOMAIN Rows = Filtered(Stored(db), db)
    BY DEF CacheFresh
  <2>1. ASSUME NEW q \in Query \ behind PROVE cached[q] = Answer(q, db)
    <3>1. \A o \in Op : Owed(ops[o]) = {}
      BY DEF Owed
    <3>2. Fresh(q)
      BY <3>1 DEF StoreInv, QueriesRight
    <3>3. QED
      BY <3>2 DEF Fresh
  <2>2. db \in Tables
    BY DEF StoreInv, Types
  <2> DEFINE a(q) == Answer(q, db)
  <2>3. /\ a("feeds") = [feeds |-> db.feeds, tags |-> {}, links |-> db.links]
         /\ a("tags") = [feeds |-> Nothing.feeds, tags |-> db.tags, links |-> db.links]
         /\ a("feed-tags") = [feeds |-> Nothing.feeds, tags |-> {}, links |-> db.links]
    BY <2>2, Answers, Zenon
  <2>4. \A q \in Query \ behind : cached[q] = a(q)
    BY <2>1
  <2> HIDE DEF a
  <2>5. "feeds" \notin behind => /\ cached["feeds"].feeds = db.feeds
                                 /\ cached["feeds"].links = db.links
    BY <2>3, <2>4 DEF Query
  <2>6. "tags" \notin behind => /\ cached["tags"].tags = db.tags
                                /\ cached["tags"].links = db.links
    BY <2>3, <2>4 DEF Query
  <2>7. "feed-tags" \notin behind => cached["feed-tags"].links = db.links
    BY <2>3, <2>4 DEF Query
  <2>8. ASSUME "feeds" \notin behind
        PROVE  /\ Feeds = Stored(db)
               /\ \A i \in DOMAIN Rows : Rows[i].badges = TagsOf(i, db)
    <3>1. Feeds = Stored(db)
      BY <2>5, <2>8 DEF Feeds, Stored
    <3>2. ASSUME NEW i \in FeedList PROVE Rows[i].badges = TagsOf(i, db)
      <4>1. Rows[i] = Row(i)
        BY DEF Rows
      <4>2. Row(i).badges = RowBadges(i)
        BY DEF Row
      <4>3. RowBadges(i) = TagsOf(i, db)
        BY <2>5, <2>8 DEF RowBadges, TagsOf
      <4>4. QED
        BY <4>1, <4>2, <4>3
    <3>3. DOMAIN Rows = FeedList
      BY DEF Rows
    <3>4. QED
      BY <3>1, <3>2, <3>3
  <2>9. ASSUME "tags" \notin behind
        PROVE  /\ {row.name : row \in TagRows} = db.tags
               /\ \A row \in TagRows : row.feeds = Cardinality(FeedsOf(row.name, db))
    <3>1. Tags = db.tags
      BY <2>6, <2>9 DEF Tags
    <3>2. TagRows = {TagRow(t) : t \in Tags}
      BY DEF TagRows
    <3>3. ASSUME NEW t
          PROVE  TagRow(t).name = t /\ TagRow(t).feeds = Cardinality(FeedsOf(t, db))
      <4>1. FeedCount(t) = Cardinality(FeedsOf(t, db))
        <5>1. FeedsOf(t, cached["tags"]) = FeedsOf(t, db)
          BY <2>6, <2>9 DEF FeedsOf
        <5>2. QED
          BY <5>1 DEF FeedCount
      <4>2. QED
        BY <4>1 DEF TagRow
    <3>4. QED
      BY <3>1, <3>2, <3>3
  <2>10. ASSUME {"feeds", "feed-tags"} \cap behind = {}
        PROVE  DOMAIN Rows = Filtered(Stored(db), db)
    <3>1. Feeds = Stored(db) /\ cached["feed-tags"].links = db.links
      BY <2>7, <2>8, <2>10
    <3>2. /\ \A i : TagsOf(i, cached["feed-tags"]) = TagsOf(i, db)
          /\ FeedsOf(filter, cached["feed-tags"]) = FeedsOf(filter, db)
      BY <3>1 DEF TagsOf, FeedsOf
    <3>3. DOMAIN Rows = Filtered(Feeds, cached["feed-tags"])
      BY DEF Rows, FeedList
    <3>4. QED
      BY <3>1, <3>2, <3>3 DEF Filtered
  <2>11. QED
    BY <2>8, <2>9, <2>10
<1>2. QED
  BY <1>1, AlwaysInv, PTL

-----------------------------------------------------------------------------
(* The swipes.                                                             *)

\* TouchTypeOK in parts: the counters, what is a position or a set, and what is
\* true or false.
Counts == fingers \in 0 .. 2 /\ fired \in 0 .. 1

Values ==
  /\ Counts
  /\ finger \in [x : Spot, y : Spot] /\ start \in [x : Spot, y : Spot]
  /\ x \in Apart /\ y \in Apart
  /\ direction \in {"none", "horizontal", "vertical"}
  /\ low \in {"above", "lower 30%", "lowest 10%"}
  /\ ways \in SUBSET Way

Flags == swiping \in BOOLEAN /\ cancelled \in BOOLEAN /\ disabled \in BOOLEAN

\* A swipe ends the swiping, and only a finger that comes down on a clear
\* screen begins another.
AtRest == fingers = 0 => x = 0 /\ y = 0 /\ ~swiping
Unfired == swiping => fired = 0

Once == Values /\ Flags /\ AtRest /\ Unfired

(* A displacement of none is one that is possible.                         *)
LEMMA Displacements ==
  /\ 0 \in Apart /\ Origin \in [x : Spot, y : Spot]
  /\ \A p, q \in Spot : p - q \in Apart
<1>1. 0 - 0 \in Apart /\ \A p, q \in Spot : p - q \in Apart
  BY TouchAssumption DEF Apart
<1> QED
  BY <1>1, TouchAssumption DEF Origin

(* Initially nobody touches the screen.                                    *)
LEMMA OnceInit == TouchInit => Once
<1> SUFFICES ASSUME TouchInit PROVE Once
  OBVIOUS
<1>1. Values
  <2>1. /\ fingers = 0 /\ finger = Origin /\ start = Origin /\ x = 0 /\ y = 0
        /\ direction = "none" /\ low = "above" /\ ways \in SUBSET Way /\ fired = 0
    BY Zenon DEF TouchInit
  <2>2. Counts
    BY <2>1 DEF Counts
  <2> QED
    BY <2>1, <2>2, Displacements, Zenon DEF Values
<1>2. Flags /\ AtRest /\ Unfired
  BY Zenon DEF TouchInit, Flags, AtRest, Unfired
<1> QED
  BY <1>1, <1>2 DEF Once

(* A finger comes down.                                                    *)
LEMMA StartOnce == Once /\ TouchStart => Once'
<1> SUFFICES ASSUME Once, TouchStart PROVE Once'
  OBVIOUS
<1>0. Values /\ Counts /\ Flags /\ AtRest /\ Unfired
  BY Zenon DEF Once, Values
<1>1. fingers' = fingers + 1 /\ fingers \in 0 .. 1 /\ fingers' \in 1 .. 2
  <2>1. fingers < 2 /\ fingers' = fingers + 1
    BY Zenon DEF TouchStart
  <2> QED
    BY <1>0, <2>1 DEF Counts
<1>2. Values'
  <2>1. /\ finger' \in {finger, Origin} /\ start' \in {start, Origin}
        /\ low' \in {low, "above", "lower 30%", "lowest 10%"}
        /\ direction' \in {direction, "none"}
        /\ UNCHANGED <<x, y, ways>>
    BY Zenon DEF TouchStart
  <2>2. Counts'
    <3>1. fired' = 0 \/ fired' = fired
      BY Zenon DEF TouchStart
    <3> QED
      BY <1>0, <1>1, <3>1 DEF Counts
  <2> QED
    BY <1>0, <2>1, <2>2, Displacements DEF Values
<1>3. Flags'
  BY <1>0, Zenon DEF TouchStart, Flags
<1>4. AtRest'
  <2>1. fingers' # 0
    BY <1>1
  <2> QED
    BY <2>1, Zenon DEF AtRest
<1>5. Unfired'
  <2>1. CASE fingers = 0
    BY <2>1, Zenon DEF TouchStart, Unfired
  <2>2. CASE fingers # 0
    BY <1>0, <2>2, Zenon DEF TouchStart, Unfired
  <2> QED
    BY <2>1, <2>2
<1> QED
  BY <1>0, <1>2, <1>3, <1>4, <1>5, Zenon DEF Once

(* A finger moves: nothing is completed, and nothing begins.               *)
LEMMA MoveOnce ==
  ASSUME Once, NEW px \in Spot, NEW py \in Spot, TouchMove(px, py)
  PROVE  Once'
<1>0. Values /\ Counts /\ Flags /\ AtRest /\ Unfired
  BY Zenon DEF Once, Values
<1> DEFINE dx == px - start.x
           dy == py - start.y
<1>1. dx \in Apart /\ dy \in Apart /\ 0 \in Apart
  BY <1>0, Displacements DEF Values
<1>2. /\ fingers > 0 /\ finger' = [x |-> px, y |-> py]
      /\ UNCHANGED <<fingers, low, disabled, ways, fired>>
  BY Zenon DEF TouchMove
<1>3. direction' \in {"none", "horizontal", "vertical"}
  <2>1. direction' = direction \/ direction' = Course(dx, dy)
    BY Zenon DEF TouchMove
  <2>2. Course(dx, dy) \in {direction, "none", "horizontal", "vertical"}
    BY Zenon DEF Course
  <2> QED
    BY <1>0, <2>1, <2>2 DEF Values
<1> HIDE DEF dx, dy
<1>4. /\ x' \in {x, dx, 0} /\ y' \in {y, dy, 0} /\ swiping' = swiping
      /\ cancelled' = cancelled \/ cancelled' = TRUE
      /\ start' = start \/ start' = [start EXCEPT !.y = finger'.y]
  BY Zenon DEF TouchMove, Horizontal, Vertical, dx, dy
<1>5. start' \in [x : Spot, y : Spot]
  <2>1. finger'.y = py
    BY <1>2
  <2> QED
    BY <1>0, <1>4, <2>1 DEF Values
<1>6. Values'
  BY <1>0, <1>1, <1>2, <1>3, <1>4, <1>5 DEF Values, Counts
<1>7. Flags' /\ Unfired'
  BY <1>0, <1>2, <1>4, Zenon DEF Flags, Unfired
<1>8. AtRest'
  <2>1. fingers' # 0
    BY <1>0, <1>2 DEF Counts
  <2> QED
    BY <2>1, Zenon DEF AtRest
<1> QED
  BY <1>0, <1>6, <1>7, <1>8, Zenon DEF Once

(* A finger goes, or the browser takes some over.                          *)
LEMMA EndOnce == Once /\ (TouchEnd \/ TouchCancel) => Once'
<1> SUFFICES ASSUME Once, TouchEnd \/ TouchCancel PROVE Once'
  OBVIOUS
<1>0. Values /\ Counts /\ Flags /\ AtRest /\ Unfired
  BY Zenon DEF Once, Values
<1>1. fingers' \in 0 .. 2
  <2>1. (fingers > 0 /\ fingers' = fingers - 1) \/ fingers' \in 0 .. fingers - 1
    BY Zenon DEF TouchEnd, TouchCancel
  <2> QED
    BY <1>0, <2>1 DEF Counts
<1>2. /\ x' = 0 /\ y' = 0 /\ swiping' = FALSE /\ direction' = "none"
      /\ UNCHANGED <<finger, start, low, disabled>>
  BY Zenon DEF TouchEnd, TouchCancel, Reset
<1>3. ways' = ways \/ ways' \in SUBSET Way
  BY Zenon DEF TouchEnd, TouchCancel
<1>4. fired' = fired \/ (fired = 0 /\ fired' = fired + 1)
  BY <1>0, Zenon DEF TouchEnd, TouchCancel, Unfired
<1>5. fired' \in 0 .. 1
  BY <1>0, <1>4 DEF Counts
<1>6. Values'
  BY <1>0, <1>1, <1>2, <1>3, <1>5, Displacements DEF Values, Counts
<1>7. Flags'
  BY <1>0, <1>2, Zenon DEF TouchEnd, TouchCancel, Reset, Flags
<1>8. AtRest' /\ Unfired'
  BY <1>2, Zenon DEF AtRest, Unfired
<1> QED
  BY <1>0, <1>6, <1>7, <1>8, Zenon DEF Once

(* The invariant.                                                          *)
LEMMA OnceHolds == TouchSpec => []Once
<1>1. Once /\ [TouchNext]_touchVars => Once'
  <2>1. ASSUME Once, UNCHANGED touchVars PROVE Once'
    <3>1. UNCHANGED <<touch, x, y, swiping, cancelled, direction, disabled, ways, fired>>
      BY <2>1 DEF touchVars
    <3>2. Values'
      BY <2>1, <3>1 DEF touch, Once, Values, Counts
    <3>3. Flags' /\ AtRest' /\ Unfired'
      BY <2>1, <3>1, Zenon DEF touch, Once, Flags, AtRest, Unfired
    <3> QED
      BY <3>2, <3>3 DEF Once
  <2> QED
    BY <2>1, StartOnce, MoveOnce, EndOnce DEF TouchNext
<1> QED
  BY <1>1, OnceInit, PTL DEF TouchSpec

(* TouchTypeOK, for every set of positions.                                     *)
THEOREM TouchTypeCorrect == TouchSpec => []TouchTypeOK
<1>1. Once => TouchTypeOK
  <2> SUFFICES ASSUME Once PROVE TouchTypeOK
    OBVIOUS
  <2>0. Values /\ Counts /\ Flags
    BY Zenon DEF Once, Values
  <2>1. fired \in 0 .. 2 /\ fingers \in 0 .. 2
    BY <2>0 DEF Counts
  <2> QED
    BY <2>0, <2>1, Zenon DEF Values, Flags, TouchTypeOK
<1> QED
  BY <1>1, OnceHolds, PTL

(* GestureOnce: however many fingers come, move and go, the dialog moves   *)
(* by one item at most until the screen is clear, and is then in place.    *)
THEOREM OneSwipeAtMost == TouchSpec => []GestureOnce
<1>1. Once => GestureOnce
  <2> SUFFICES ASSUME Once PROVE GestureOnce
    OBVIOUS
  <2>0. Counts /\ AtRest
    BY Zenon DEF Once, Values
  <2>1. fired <= 1
    BY <2>0 DEF Counts
  <2> QED
    BY <2>0, <2>1, Zenon DEF AtRest, GestureOnce
<1> QED
  BY <1>1, OnceHolds, PTL

-----------------------------------------------------------------------------
(* The list and the dialog: the inductive invariant.                       *)

\* The dialog is still on what the list shows, and has shown everything of
\* what was offered up to there.
ShownListed ==
  origin = "list" /\ Open =>
    /\ offered \subseteq Visible
    /\ shown \in Item => shown \in Visible /\ \A j \in offered : j <= shown => j \in seen
    /\ IsEndOfList => offered \subseteq seen

\* What a copy may say of an item: nothing, or what the server says.
Exact(e, i) == e \in {"none", itemReads[i]}
RowsExact(i) == \A k \in Key : Exact(rows[k][i], i)

\* An entry of the read state; without one the other copies count.
EntryExact(e, i) ==
  \/ e = itemReads[i]
  \/ e = "none" /\ Exact(itemCache[i], i) /\ RowsExact(i)

SentFor(i) == \E o \in Update : updates[o].phase = "sent" /\ i \in updates[o].ids

CopyExact ==
  \A i \in Item \ (disturbed \cup unsynced) : SentFor(i) \/ EntryExact(reads[i], i)

\* What a failure of an update would go back to.
Alone(o) == \A q \in Update \ {o} : InFlight(q) => updates[q].ids \cap updates[o].ids = {}

BackTo(u, i) ==
  \/ u.before[i] = itemReads[i]
  \/ /\ u.before[i] = "none" /\ RowsExact(i)
     /\ u.by = "toggle" => Other(u.to) = itemReads[i]
     /\ u.by # "toggle" => Exact(itemCache[i], i)

BackOf(o) ==
  /\ Alone(o)
  /\ \A i \in updates[o].ids \ (disturbed \cup unsynced) :
       updates[o].phase = "sent" /\ BackTo(updates[o], i)

BackExact == \A o \in Update : InFlight(o) /\ ~updates[o].overlapped => BackOf(o)

ItemsInv == ItemsTypeOK /\ ShownListed /\ CopyExact /\ BackExact /\ ListComplete

-----------------------------------------------------------------------------
(* What the operators deliver.                                             *)

(* The items are positive numbers, and finitely many.                      *)
LEMMA ItemNumbers ==
  /\ Item \subseteq Int /\ Closed \notin Item /\ EndOfList \notin Item
  /\ \A S \in SUBSET Item : IsFiniteSet(S)
<1>1. Item \subseteq Nat \ {0} /\ IsFiniteSet(Item)
  BY ItemAssumption
<1>2. Closed = 0 /\ EndOfList = -1
  BY DEF Closed, EndOfList
<1>3. Item \subseteq Int /\ Closed \notin Item /\ EndOfList \notin Item
  BY <1>1, <1>2
<1>4. \A S \in SUBSET Item : IsFiniteSet(S)
  BY <1>1, FS_Subset
<1>5. QED
  BY <1>3, <1>4

(* Where the next item is.                                                 *)
LEMMA NextRight ==
  ASSUME CanNext
  PROVE  /\ shown \in Visible /\ shown \in Item
         /\ \/ NextItem = EndOfList /\ \A j \in Visible : j <= shown
            \/ /\ NextItem \in Visible /\ NextItem \in Item /\ NextItem > shown
               /\ \A j \in Visible : j > shown => NextItem <= j
<1>1. shown \in Item /\ shown \in Visible /\ InList
  BY DEF CanNext, NextItem, InList
<1>2. Visible \subseteq Item
  BY DEF Visible, Listed
<1>3. CASE After(shown) = {}
  <2>1. NextItem = EndOfList
    BY <1>1, <1>3 DEF NextItem
  <2>2. \A j \in Visible : j <= shown
    BY <1>1, <1>2, <1>3, ItemNumbers DEF After
  <2>3. QED
    BY <1>1, <2>1, <2>2
<1>4. CASE After(shown) # {}
  <2>1. NextItem = Min(After(shown))
    BY <1>1, <1>4 DEF NextItem
  <2>2. After(shown) \subseteq Visible
    BY DEF After
  <2>3. After(shown) \in SUBSET Int /\ IsFiniteSet(After(shown))
    BY <1>2, <2>2, ItemNumbers
  <2>4. Min(After(shown)) \in After(shown) /\ \A n \in After(shown) : Min(After(shown)) <= n
    BY <1>4, <2>3, MinIsFirst
  <2>5. NextItem \in Visible /\ NextItem > shown
    BY <2>1, <2>4 DEF After
  <2>6. \A j \in Visible : j > shown => NextItem <= j
    BY <2>1, <2>4 DEF After
  <2>7. QED
    BY <1>1, <1>2, <2>5, <2>6
<1>5. QED
  BY <1>3, <1>4

(* Where the one before is.                                                *)
LEMMA PrevRight ==
  ASSUME CanPrev
  PROVE  /\ PrevItem \in Visible /\ PrevItem \in Item
         /\ ~IsEndOfList => shown \in Visible /\ shown \in Item /\ PrevItem < shown
<1> DEFINE earlier == IF IsEndOfList THEN Visible
                      ELSE IF InList THEN {j \in Visible : j < shown} ELSE {}
<1>1. earlier # {} /\ PrevItem = Max(earlier)
  BY DEF CanPrev, PrevItem
<1>2. Visible \subseteq Item /\ earlier \subseteq Visible
  BY DEF Visible, Listed
<1>3. earlier \in SUBSET Int /\ IsFiniteSet(earlier)
  BY <1>2, ItemNumbers
<1>4. PrevItem \in earlier
  <2> HIDE DEF earlier
  <2>1. QED
    BY <1>1, <1>3, MaxIsLast
<1>5. ASSUME ~IsEndOfList PROVE shown \in Visible /\ shown \in Item /\ PrevItem < shown
  BY <1>1, <1>4, <1>5 DEF InList
<1>6. QED
  BY <1>2, <1>4, <1>5

(* A step from item to item keeps to the list.                             *)
LEMMA MovesListed ==
  ASSUME ItemsTypeOK, ShownListed, Visible' = Visible,
         UNCHANGED <<offered, origin>>,
         \/ CanNext /\ shown' = NextItem
         \/ CanPrev /\ shown' = PrevItem,
         seen' = IF shown' \in Item THEN seen \cup {shown'} ELSE seen
  PROVE  /\ ShownListed' /\ seen' \in SUBSET Item
         /\ shown' \in Item \cup {Closed, EndOfList}
<1>1. seen' \in SUBSET Item
  BY DEF ItemsTypeOK
<1>2. CASE CanNext /\ shown' = NextItem
  <2>1. shown' \in Item \cup {Closed, EndOfList}
    BY <1>2, NextRight
  <2>2. ASSUME (origin = "list" /\ Open)' PROVE
            /\ (offered \subseteq Visible)'
            /\ (shown \in Item => shown \in Visible /\ \A j \in offered : j <= shown => j \in seen)'
            /\ (IsEndOfList => offered \subseteq seen)'
    <3>1. origin = "list" /\ Open /\ shown \in Item /\ shown \in Visible
      BY <1>2, <2>2, NextRight, ItemNumbers DEF Open
    <3>2. offered \subseteq Visible /\ \A j \in offered : j <= shown => j \in seen
      BY <3>1 DEF ShownListed
    <3>3. Visible \subseteq Int /\ shown \in Int
      BY <3>1, ItemNumbers DEF Visible, Listed
    <3>4. CASE NextItem = EndOfList /\ \A j \in Visible : j <= shown
      <4>1. shown' \notin Item /\ seen' = seen
        BY <1>2, <3>4, ItemNumbers
      <4>2. \A j \in offered : j \in seen
        BY <3>2, <3>4
      <4>3. QED
        BY <3>2, <4>1, <4>2
    <3>5. CASE /\ NextItem \in Visible /\ NextItem \in Item /\ NextItem > shown
               /\ \A j \in Visible : j > shown => NextItem <= j
      <4>1. shown' # EndOfList /\ seen' = seen \cup {NextItem} /\ shown' \in Visible
        BY <1>2, <3>5, ItemNumbers
      <4>2. ASSUME NEW j \in offered, j <= NextItem PROVE j \in seen \cup {NextItem}
        <5>1. j \in Int /\ NextItem \in Int /\ j \in Visible
          BY <3>2, <3>3, <3>5
        <5>2. CASE j <= shown
          BY <3>2, <5>2
        <5>3. CASE j > shown
          BY <3>5, <4>2, <5>1, <5>3
        <5>4. QED
          BY <3>3, <5>1, <5>2, <5>3
      <4>3. \A j \in offered' : j <= shown' => j \in seen'
        BY <1>2, <4>1, <4>2
      <4>4. QED
        BY <3>2, <4>1, <4>3 DEF IsEndOfList
    <3>6. QED
      BY <1>2, <3>4, <3>5, NextRight
  <2>3. QED
    BY <1>1, <2>1, <2>2 DEF ShownListed
<1>3. CASE CanPrev /\ shown' = PrevItem
  <2>1. shown' \in Item \cup {Closed, EndOfList}
    BY <1>3, PrevRight
  <2>2. ASSUME (origin = "list" /\ Open)' PROVE
            /\ (offered \subseteq Visible)'
            /\ (shown \in Item => shown \in Visible /\ \A j \in offered : j <= shown => j \in seen)'
            /\ (IsEndOfList => offered \subseteq seen)'
    <3>1. origin = "list" /\ Open /\ PrevItem \in Visible /\ PrevItem \in Item
      BY <1>3, <2>2, PrevRight DEF CanPrev
    <3>2. offered \subseteq Visible /\ shown' # EndOfList /\ seen' = seen \cup {PrevItem}
      BY <1>3, <3>1, ItemNumbers DEF ShownListed
    <3>3. ASSUME NEW j \in offered, j <= PrevItem PROVE j \in seen
      <4>1. CASE IsEndOfList
        BY <3>1, <3>3, <4>1 DEF ShownListed
      <4>2. CASE ~IsEndOfList
        <5>1. shown \in Visible /\ shown \in Item /\ PrevItem < shown
          BY <1>3, <4>2, PrevRight
        <5>2. j \in Int /\ PrevItem \in Int /\ shown \in Int
          BY <3>1, <3>2, <5>1, ItemNumbers DEF Visible, Listed
        <5>3. j <= shown
          BY <3>3, <5>1, <5>2
        <5>4. QED
          BY <3>1, <3>3, <5>1, <5>3 DEF ShownListed
      <4>3. QED
        BY <4>1, <4>2
    <3>4. \A j \in offered' : j <= shown' => j \in seen'
      BY <1>3, <3>2, <3>3
    <3>5. QED
      BY <1>3, <3>1, <3>2, <3>4 DEF IsEndOfList
  <2>3. QED
    BY <1>1, <2>1, <2>2 DEF ShownListed
<1>4. QED
  BY <1>2, <1>3

-----------------------------------------------------------------------------
(* The copies of the read state.                                           *)

(* A record of an update, with other fields.                               *)
LEMMA UpdateFields ==
  /\ FreeUpdate \in UpdateRecord /\ FreeUpdate.phase = "free"
  /\ \A r \in UpdateRecord, b \in BOOLEAN : [r EXCEPT !.overlapped = b] \in UpdateRecord
  /\ \A r \in UpdateRecord : [r EXCEPT !.phase = "committed"] \in UpdateRecord
  /\ \A s \in SUBSET Item :
       [FreeUpdate EXCEPT !.phase = "yields", !.by = "bulk", !.ids = s] \in UpdateRecord
<1>1. Empty \in [Item -> Entry]
  BY DEF Empty, Entry, State
<1>2. FreeUpdate \in UpdateRecord /\ FreeUpdate.phase = "free"
  BY <1>1 DEF FreeUpdate, UpdateRecord, State
<1>3. \A r \in UpdateRecord, b \in BOOLEAN : [r EXCEPT !.overlapped = b] \in UpdateRecord
  BY DEF UpdateRecord
<1>4. \A r \in UpdateRecord : [r EXCEPT !.phase = "committed"] \in UpdateRecord
  BY DEF UpdateRecord
<1>5. \A s \in SUBSET Item :
        [FreeUpdate EXCEPT !.phase = "yields", !.by = "bulk", !.ids = s] \in UpdateRecord
  BY <1>2 DEF UpdateRecord
<1>6. QED
  BY <1>2, <1>3, <1>4, <1>5

(* Queries and caches that only take what the server says, or nothing.     *)
LEMMA CopiesFresher ==
  ASSUME ItemsTypeOK, CopyExact, BackExact,
         UNCHANGED <<itemReads, unsynced, reads, updates, disturbed>>,
         \A i \in Item : Exact(itemCache[i], i) => Exact(itemCache'[i], i),
         \A k \in Key, i \in Item : Exact(rows[k][i], i) => Exact(rows'[k][i], i)
  PROVE  CopyExact' /\ BackExact'
<1>1. ASSUME NEW i \in Item, RowsExact(i) PROVE RowsExact(i)'
  BY <1>1 DEF RowsExact, Exact
<1>2. ASSUME NEW i \in Item, NEW e, EntryExact(e, i)
      PROVE  \/ e = itemReads'[i]
             \/ e = "none" /\ Exact(itemCache[i], i)' /\ RowsExact(i)'
  BY <1>1, <1>2 DEF EntryExact, Exact
<1>3. \A i \in Item : SentFor(i)' <=> SentFor(i)
  BY DEF SentFor
<1>4. CopyExact'
  BY <1>2, <1>3 DEF CopyExact, EntryExact
<1>5. ASSUME NEW o \in Update, NEW i \in Item, BackTo(updates[o], i) PROVE BackTo(updates[o], i)'
  <2>1. updates'[o] = updates[o] /\ itemReads'[i] = itemReads[i]
    OBVIOUS
  <2>2. QED
    BY <1>1, <1>5, <2>1 DEF BackTo, Exact
<1>6. ASSUME NEW o \in Update, BackOf(o) PROVE BackOf(o)'
  <2>1. updates[o].ids \subseteq Item
    BY DEF ItemsTypeOK, ItemListTypeOK, UpdateRecord
  <2>2. Alone(o)'
    BY <1>6 DEF BackOf, Alone, InFlight
  <2>3. QED
    BY <1>5, <1>6, <2>1, <2>2 DEF BackOf
<1>7. BackExact'
  BY <1>6 DEF BackExact, InFlight
<1>8. QED
  BY <1>4, <1>7

(* Updates that wait to be sent, or are acknowledged.                      *)
LEMMA UpdateWaits ==
  ASSUME ItemsTypeOK, CopyExact, BackExact,
         UNCHANGED <<itemReads, unsynced, reads, disturbed, rows, itemCache>>,
         NEW o \in Update, updates[o].phase # "sent",
         NEW r, r.phase \notin {"sent", "committed"},
         updates' = [updates EXCEPT ![o] = r]
  PROVE  CopyExact' /\ BackExact'
<1>1. updates'[o] = r /\ \A q \in Update \ {o} : updates'[q] = updates[q]
  BY DEF ItemsTypeOK, ItemListTypeOK
<1>2. \A i \in Item : SentFor(i) => SentFor(i)'
  BY <1>1 DEF SentFor
<1>3. CopyExact'
  BY <1>2 DEF CopyExact, EntryExact, Exact, RowsExact
<1>4. ~InFlight(o)' /\ \A q \in Update \ {o} : InFlight(q)' <=> InFlight(q)
  BY <1>1 DEF InFlight
<1>5. ASSUME NEW q \in Update \ {o}, BackOf(q) PROVE BackOf(q)'
  <2>1. updates'[q] = updates[q]
    BY <1>1
  <2>2. Alone(q)'
    BY <1>1, <1>4, <1>5 DEF BackOf, Alone
  <2>3. QED
    BY <1>5, <2>1, <2>2 DEF BackOf, BackTo, Exact, RowsExact
<1>6. BackExact'
  BY <1>1, <1>4, <1>5 DEF BackExact
<1>7. QED
  BY <1>3, <1>6

(* The server takes new states of some items, which are polled later.      *)
LEMMA CommitsExact ==
  ASSUME ItemsTypeOK, CopyExact, BackExact, NEW o \in Update, Commit(o), UNCHANGED itemCache
  PROVE  CopyExact' /\ BackExact'
<1>1. /\ updates'[o] = [updates[o] EXCEPT !.phase = "committed"]
      /\ \A q \in Update \ {o} : updates'[q] = updates[q]
  BY DEF ItemsTypeOK, ItemListTypeOK, Commit
<1>2. updates[o] \in UpdateRecord
  BY DEF ItemsTypeOK, ItemListTypeOK
<1>3. updates'[o].ids = updates[o].ids /\ updates'[o].overlapped = updates[o].overlapped
      /\ updates'[o].phase = "committed" /\ updates[o].phase = "sent"
  BY <1>1, <1>2 DEF Commit, UpdateRecord
<1>4. /\ unsynced' = unsynced \cup updates[o].ids
      /\ \A i \in Item \ updates[o].ids : itemReads'[i] = itemReads[i]
      /\ UNCHANGED <<reads, disturbed, rows, itemCache>>
  BY DEF Commit, queries
<1>5. \A i \in Item \ updates[o].ids : SentFor(i) => SentFor(i)'
  BY <1>1 DEF SentFor
<1>6. CopyExact'
  BY <1>4, <1>5 DEF CopyExact, EntryExact, Exact, RowsExact
<1>7. \A q \in Update : updates'[q].ids = updates[q].ids /\ (InFlight(q)' <=> InFlight(q))
                        /\ updates'[q].overlapped = updates[q].overlapped
  BY <1>1, <1>3 DEF InFlight
<1>8. ASSUME NEW q \in Update, BackOf(q) PROVE BackOf(q)'
  <2>1. Alone(q)'
    BY <1>7, <1>8 DEF BackOf, Alone
  <2>2. CASE q = o
    BY <1>3, <1>4, <2>1, <2>2 DEF BackOf
  <2>3. CASE q # o
    <3>1. updates'[q] = updates[q] /\ updates[q].ids \subseteq Item
      BY <1>1, <2>3 DEF ItemsTypeOK, ItemListTypeOK, UpdateRecord
    <3>2. ASSUME NEW i \in updates[q].ids \ (disturbed \cup unsynced')
          PROVE  updates[q].phase = "sent" /\ BackTo(updates[q], i)'
      <4>1. i \in Item \ updates[o].ids /\ i \in updates[q].ids \ (disturbed \cup unsynced)
        BY <1>4, <3>1, <3>2
      <4>2. updates[q].phase = "sent" /\ BackTo(updates[q], i)
        BY <1>8, <4>1 DEF BackOf
      <4>3. QED
        BY <1>4, <3>1, <4>1, <4>2 DEF BackTo, Exact, RowsExact
    <3>3. QED
      BY <1>4, <2>1, <3>1, <3>2 DEF BackOf
  <2>4. QED
    BY <2>2, <2>3
<1>9. BackExact'
  BY <1>7, <1>8 DEF BackExact
<1>10. QED
  BY <1>6, <1>9

(* Another browser's change is polled later, too.                          *)
LEMMA OthersExact ==
  ASSUME ItemsTypeOK, CopyExact, BackExact, NEW j \in Item, NEW v \in State, OtherUpdate(j, v),
         UNCHANGED itemCache
  PROVE  CopyExact' /\ BackExact'
<1>1. /\ unsynced' = unsynced \cup {j}
      /\ \A i \in Item \ {j} : itemReads'[i] = itemReads[i]
      /\ UNCHANGED <<reads, disturbed, rows, itemCache, updates>>
  BY DEF OtherUpdate, queries, ItemsTypeOK, ItemListTypeOK
<1>2. \A i \in Item : SentFor(i)' <=> SentFor(i)
  BY <1>1 DEF SentFor
<1>3. CopyExact'
  BY <1>1, <1>2 DEF CopyExact, EntryExact, Exact, RowsExact
<1>4. ASSUME NEW q \in Update, BackOf(q) PROVE BackOf(q)'
  <2>1. Alone(q)'
    BY <1>1, <1>4 DEF BackOf, Alone, InFlight
  <2>2. updates'[q] = updates[q] /\ updates[q].ids \subseteq Item
    BY <1>1 DEF ItemsTypeOK, ItemListTypeOK, UpdateRecord
  <2>3. ASSUME NEW i \in updates[q].ids \ (disturbed \cup unsynced')
        PROVE  updates[q].phase = "sent" /\ BackTo(updates[q], i)'
    <3>1. i \in Item \ {j} /\ i \in updates[q].ids \ (disturbed \cup unsynced)
      BY <1>1, <2>2, <2>3
    <3>2. updates[q].phase = "sent" /\ BackTo(updates[q], i)
      BY <1>4, <3>1 DEF BackOf
    <3>3. QED
      BY <1>1, <2>2, <3>1, <3>2 DEF BackTo, Exact, RowsExact
  <2>4. QED
    BY <1>1, <2>1, <2>2, <2>3 DEF BackOf
<1>5. BackExact'
  BY <1>1, <1>4 DEF BackExact, InFlight
<1>6. QED
  BY <1>3, <1>5

(* A poll brings what has changed, and what fails after it is lost track of.*)
LEMMA PollsExact ==
  ASSUME ItemsTypeOK, CopyExact, Poll, UNCHANGED itemCache
  PROVE  CopyExact' /\ BackExact'
<1>1. /\ unsynced' = {} /\ UNCHANGED <<itemReads, disturbed, rows, itemCache>>
      /\ \A i \in Item : reads'[i] = IF i \in unsynced THEN itemReads[i] ELSE reads[i]
  BY DEF Poll, history
<1>2. ASSUME NEW o \in Update
      PROVE  /\ updates'[o].phase = updates[o].phase /\ updates'[o].ids = updates[o].ids
             /\ updates[o].phase # "free" => updates'[o].overlapped
  <2>1. updates'[o] = [updates[o] EXCEPT !.overlapped = @ \/ updates[o].phase # "free"]
    BY DEF Poll
  <2>2. updates[o] \in UpdateRecord
    BY DEF ItemsTypeOK, ItemListTypeOK
  <2>3. QED
    BY <2>1, <2>2 DEF UpdateRecord
<1>3. \A i \in Item : SentFor(i)' <=> SentFor(i)
  BY <1>2 DEF SentFor
<1>4. CopyExact'
  BY <1>1, <1>3 DEF CopyExact, EntryExact, Exact, RowsExact
<1>5. BackExact'
  BY <1>2 DEF BackExact, InFlight
<1>6. QED
  BY <1>4, <1>5

(* An update is sent: it may be undone by itself only where no other one   *)
(* of the same items is under way, and it finds the copies exact there.    *)
LEMMA SendsExact ==
  ASSUME ItemsTypeOK, CopyExact, BackExact,
         NEW o \in Update, ~InFlight(o), NEW by \in {"row", "bulk", "toggle", "leave"},
         NEW some \in SUBSET Item, NEW to \in State, Send(o, by, some, to),
         UNCHANGED <<itemReads, unsynced, disturbed, rows>>,
         \A i \in Item \ some : itemCache'[i] = itemCache[i],
         by # "toggle" => itemCache' = itemCache,
         by = "toggle" => \A i \in some : (reads[i] = "none" => itemCache[i] # "none")
                            /\ to = Other(IF reads[i] = "none" THEN itemCache[i] ELSE reads[i])
  PROVE  /\ updates' \in [Update -> UpdateRecord] /\ reads' \in [Item -> Entry]
         /\ CopyExact' /\ BackExact'
<1> DEFINE others == {q \in Update \ {o} : InFlight(q) /\ updates[q].ids \cap some # {}}
           before == [i \in Item |-> IF i \in some THEN reads[i] ELSE "none"]
           sent == [phase |-> "sent", by |-> by, ids |-> some, to |-> to, before |-> before,
                    overlapped |-> others # {}]
           marked(q) == [updates[q] EXCEPT !.overlapped = @ \/ q \in others]
<1>1. updates' = [q \in Update |-> IF q = o THEN sent ELSE marked(q)]
  BY Zenon DEF Send
<1>2. reads' = [i \in Item |-> IF i \in some THEN to ELSE reads[i]]
  BY Zenon DEF Send
<1>3. updates \in [Update -> UpdateRecord] /\ reads \in [Item -> Entry]
      /\ itemReads \in [Item -> State]
  BY Zenon DEF ItemsTypeOK, ItemListTypeOK
<1>4. reads' \in [Item -> Entry]
  BY <1>2, <1>3 DEF Entry
<1>5. before \in [Item -> Entry]
  BY <1>3 DEF Entry
<1>6. sent \in UpdateRecord
  <2> HIDE DEF before, others
  <2>1. (others # {}) \in BOOLEAN
    OBVIOUS
  <2>2. QED
    BY <1>5, <2>1 DEF UpdateRecord
<1>7. ASSUME NEW q \in Update
      PROVE  /\ marked(q) \in UpdateRecord /\ marked(q).phase = updates[q].phase
             /\ marked(q).ids = updates[q].ids /\ marked(q).by = updates[q].by
             /\ marked(q).to = updates[q].to /\ marked(q).before = updates[q].before
             /\ ~marked(q).overlapped => ~updates[q].overlapped /\ q \notin others
  <2> HIDE DEF others
  <2>1. updates[q] \in UpdateRecord
    BY <1>3
  <2>2. QED
    BY <2>1 DEF UpdateRecord
<1>8. updates' \in [Update -> UpdateRecord]
  <2> HIDE DEF sent, marked
  <2>1. QED
    BY <1>1, <1>6, <1>7
<1>9. updates'[o] = sent /\ \A q \in Update \ {o} : updates'[q] = marked(q)
  BY <1>1, Zenon
<1>10. sent.phase = "sent" /\ sent.ids = some /\ sent.before = before /\ sent.by = by /\ sent.to = to
       /\ (~sent.overlapped => others = {})
  OBVIOUS
<1> HIDE DEF sent, marked
<1>11. ASSUME NEW i \in Item, SentFor(i) PROVE SentFor(i)'
  <2>1. PICK q \in Update : updates[q].phase = "sent" /\ i \in updates[q].ids
    BY <1>11 DEF SentFor
  <2>2. q # o
    BY <2>1 DEF InFlight
  <2>3. updates'[q].phase = "sent" /\ i \in updates'[q].ids
    BY <1>7, <1>9, <2>1, <2>2
  <2>4. QED
    BY <2>3 DEF SentFor
<1>12. \A i \in some : SentFor(i)'
  BY <1>9, <1>10 DEF SentFor
<1>13. ASSUME NEW i \in Item \ (disturbed \cup unsynced), ~SentFor(i)'
       PROVE  EntryExact(reads[i], i)'
  <2>1. i \notin some /\ EntryExact(reads[i], i)
    BY <1>11, <1>12, <1>13 DEF CopyExact
  <2>2. reads'[i] = reads[i] /\ itemCache'[i] = itemCache[i]
    BY <1>2, <2>1
  <2>3. QED
    BY <2>1, <2>2 DEF EntryExact, Exact, RowsExact
<1>14. CopyExact'
  BY <1>13 DEF CopyExact
<1>15. \A q \in Update \ {o} : /\ InFlight(q)' <=> InFlight(q)
                               /\ updates'[q].ids = updates[q].ids
  BY <1>7, <1>9 DEF InFlight
<1>16. updates'[o].ids = some
  BY <1>9, <1>10
<1>17. ASSUME NEW q \in Update \ {o}, InFlight(q)', ~updates'[q].overlapped PROVE BackOf(q)'
  <2>1. InFlight(q) /\ BackOf(q) /\ q \notin others
    BY <1>7, <1>9, <1>15, <1>17 DEF BackExact
  <2>2. updates[q].ids \cap some = {}
    BY <2>1
  <2>3. Alone(q)'
    <3> HIDE DEF others
    <3>1. ASSUME NEW p \in Update \ {q}, InFlight(p)'
          PROVE  updates'[p].ids \cap updates'[q].ids = {}
      <4>1. CASE p = o
        BY <1>15, <1>16, <2>2, <4>1
      <4>2. CASE p # o
        BY <1>15, <2>1, <3>1, <4>2 DEF BackOf, Alone
      <4>3. QED
        BY <4>1, <4>2
    <3>2. QED
      BY <3>1 DEF Alone
  <2>4. ASSUME NEW i \in updates'[q].ids \ (disturbed' \cup unsynced')
        PROVE  updates'[q].phase = "sent" /\ BackTo(updates[q], i)'
    <3>1. i \in updates[q].ids \ (disturbed \cup unsynced) /\ i \in Item \ some
      <4>1. updates[q].ids \subseteq Item
        BY <1>3 DEF UpdateRecord
      <4>2. QED
        BY <1>15, <2>2, <2>4, <4>1
    <3>2. updates[q].phase = "sent" /\ BackTo(updates[q], i)
      BY <2>1, <3>1 DEF BackOf
    <3>3. /\ updates'[q].phase = updates[q].phase /\ updates'[q].by = updates[q].by
          /\ updates'[q].to = updates[q].to /\ updates'[q].before = updates[q].before
      BY <1>7, <1>9
    <3>4. itemCache'[i] = itemCache[i]
      BY <3>1
    <3>5. QED
      BY <3>2, <3>3, <3>4 DEF BackTo, Exact, RowsExact
  <2>5. QED
    BY <2>3, <2>4 DEF BackOf
<1>18. ASSUME ~updates'[o].overlapped PROVE BackOf(o)'
  <2>1. others = {}
    BY <1>9, <1>10, <1>18
  <2>2. \A q \in Update \ {o} : InFlight(q) => updates[q].ids \cap some = {}
    BY <2>1
  <2> HIDE DEF others
  <2>3. Alone(o)'
    BY <1>15, <1>16, <2>2 DEF Alone
  <2>4. ASSUME NEW i \in some \ (disturbed \cup unsynced) PROVE BackTo(updates[o], i)'
    <3>1. ~SentFor(i)
      BY <2>2, <2>4 DEF SentFor, InFlight
    <3>2. EntryExact(reads[i], i) /\ sent.before[i] = reads[i]
      BY <1>10, <2>4, <3>1 DEF CopyExact
    <3>3. itemReads'[i] = itemReads[i] /\ itemReads[i] \in State
      BY <1>3, <2>4
    <3>4. CASE reads[i] = itemReads[i]
      BY <1>9, <3>2, <3>3, <3>4 DEF BackTo
    <3>5. CASE reads[i] # itemReads[i]
      <4>1. reads[i] = "none" /\ Exact(itemCache[i], i) /\ RowsExact(i)
        BY <3>2, <3>5 DEF EntryExact
      <4>2. RowsExact(i)'
        BY <4>1 DEF RowsExact, Exact
      <4>3. CASE by = "toggle"
        <5>1. to = Other(itemReads[i])
          BY <2>4, <4>1, <4>3 DEF Exact
        <5>2. Other(to) = itemReads[i]
          BY <3>3, <5>1 DEF Other, State
        <5>3. QED
          BY <1>9, <1>10, <3>2, <3>3, <4>1, <4>2, <4>3, <5>2 DEF BackTo
      <4>4. CASE by # "toggle"
        <5>1. Exact(itemCache[i], i)'
          BY <4>1, <4>4 DEF Exact
        <5>2. QED
          BY <1>9, <1>10, <3>2, <3>3, <4>1, <4>2, <4>4, <5>1 DEF BackTo
      <4>5. QED
        BY <4>3, <4>4
    <3>6. QED
      BY <3>4, <3>5
  <2>5. QED
    BY <1>9, <1>10, <1>16, <2>3, <2>4 DEF BackOf
<1>19. BackExact'
  BY <1>17, <1>18 DEF BackExact
<1>20. QED
  BY <1>4, <1>8, <1>14, <1>19

(* An update that fails takes its items back to what the server has, or    *)
(* they are counted as lost track of.                                      *)
LEMMA FailuresExact ==
  ASSUME ItemsTypeOK, CopyExact, BackExact, NEW o \in Update, FailUpdate(o)
  PROVE  CopyExact' /\ BackExact'
<1> DEFINE u == updates[o]
           astray == u.by = "toggle" /\ {shown} \cap Item # u.ids
<1>1. /\ InFlight(o) /\ UNCHANGED <<itemReads, unsynced, rows>>
      /\ reads' = [i \in Item |-> IF i \in u.ids THEN u.before[i] ELSE reads[i]]
      /\ itemCache' = [i \in Item |->
           IF u.by = "toggle" /\ i = shown /\ itemCache[i] # "none"
           THEN Other(u.to) ELSE itemCache[i]]
      /\ updates' = [updates EXCEPT ![o] = FreeUpdate]
      /\ disturbed' = IF astray THEN disturbed \cup u.ids \cup ({shown} \cap Item)
                      ELSE IF u.overlapped THEN disturbed \cup u.ids
                      ELSE disturbed
  BY Zenon DEF FailUpdate, RolledBack, backend
<1>2. updates \in [Update -> UpdateRecord] /\ u \in UpdateRecord /\ u.ids \subseteq Item
  BY DEF ItemsTypeOK, ItemListTypeOK, UpdateRecord
<1>3. updates'[o] = FreeUpdate /\ \A q \in Update \ {o} : updates'[q] = updates[q]
  BY <1>1, <1>2
<1>4. ~InFlight(o)' /\ \A q \in Update \ {o} : InFlight(q)' <=> InFlight(q)
  BY <1>3, UpdateFields DEF InFlight
<1>5. disturbed \subseteq disturbed'
  BY <1>1
<1> HIDE DEF u
<1>6. ASSUME NEW i \in Item \ (disturbed' \cup unsynced), i \notin u.ids
      PROVE  itemCache'[i] = itemCache[i] /\ reads'[i] = reads[i]
  <2>1. ~(u.by = "toggle" /\ i = shown)
    <3>1. SUFFICES ASSUME u.by = "toggle", i = shown PROVE FALSE
      OBVIOUS
    <3>2. astray
      BY <1>6, <3>1
    <3>3. QED
      BY <1>1, <1>6, <3>1, <3>2
  <2>2. QED
    BY <1>1, <1>6, <2>1
<1>7. ASSUME NEW i \in u.ids \ (disturbed' \cup unsynced)
      PROVE  EntryExact(reads[i], i)' /\ ~SentFor(i)'
  <2>1. ~astray /\ ~u.overlapped
    BY <1>1, <1>7
  <2>2. Alone(o) /\ u.phase = "sent" /\ BackTo(u, i)
    BY <1>1, <1>5, <1>7, <2>1 DEF BackExact, BackOf, u
  <2>3. reads'[i] = u.before[i] /\ i \in Item
    BY <1>1, <1>2, <1>7
  <2>4. ASSUME u.before[i] = itemReads[i] PROVE EntryExact(reads[i], i)'
    BY <1>1, <2>3, <2>4 DEF EntryExact
  <2>5. ASSUME u.before[i] # itemReads[i] PROVE EntryExact(reads[i], i)'
    <3>1. /\ u.before[i] = "none" /\ RowsExact(i)
          /\ u.by = "toggle" => Other(u.to) = itemReads[i]
          /\ u.by # "toggle" => Exact(itemCache[i], i)
      BY <2>2, <2>5 DEF BackTo
    <3>2. Exact(itemCache'[i], i)
      <4>1. CASE u.by = "toggle"
        <5>1. i = shown
          BY <1>7, <2>1, <4>1
        <5>2. QED
          BY <1>1, <2>3, <3>1, <4>1, <5>1 DEF Exact
      <4>2. CASE u.by # "toggle"
        BY <1>1, <2>3, <3>1, <4>2 DEF Exact
      <4>3. QED
        BY <4>1, <4>2
    <3>3. QED
      BY <1>1, <2>3, <3>1, <3>2 DEF EntryExact, Exact, RowsExact
  <2>6. ~SentFor(i)'
    <3>1. SUFFICES ASSUME NEW q \in Update, updates'[q].phase = "sent", i \in updates'[q].ids
                   PROVE FALSE
      BY DEF SentFor
    <3>2. q # o
      BY <1>3, <3>1, UpdateFields
    <3>3. InFlight(q) /\ i \in updates[q].ids
      BY <1>3, <3>1, <3>2 DEF InFlight
    <3>4. QED
      BY <1>7, <2>2, <3>2, <3>3 DEF Alone, u
  <2>7. QED
    BY <2>4, <2>5, <2>6
<1>8. ASSUME NEW i \in Item \ (disturbed' \cup unsynced), i \notin u.ids, SentFor(i)
      PROVE  SentFor(i)'
  BY <1>3, <1>8 DEF SentFor, u
<1>9. CopyExact'
  <2>1. ASSUME NEW i \in Item \ (disturbed' \cup unsynced), ~SentFor(i)'
        PROVE  EntryExact(reads[i], i)'
    <3>1. CASE i \in u.ids
      BY <1>7, <2>1, <3>1
    <3>2. CASE i \notin u.ids
      <4>1. EntryExact(reads[i], i)
        BY <1>5, <1>8, <2>1, <3>2 DEF CopyExact
      <4>2. itemCache'[i] = itemCache[i] /\ reads'[i] = reads[i]
        BY <1>6, <2>1, <3>2
      <4>3. QED
        BY <1>1, <4>1, <4>2 DEF EntryExact, Exact, RowsExact
    <3>3. QED
      BY <3>1, <3>2
  <2>2. QED
    BY <1>1, <2>1 DEF CopyExact
<1>10. ASSUME NEW q \in Update, InFlight(q)', ~updates'[q].overlapped PROVE BackOf(q)'
  <2>1. q # o
    BY <1>4, <1>10
  <2>2. updates'[q] = updates[q] /\ InFlight(q) /\ BackOf(q)
    BY <1>3, <1>4, <1>10, <2>1 DEF BackExact
  <2>3. Alone(q)'
    BY <1>3, <1>4, <2>1, <2>2 DEF BackOf, Alone
  <2>4. ASSUME NEW i \in updates[q].ids \ (disturbed' \cup unsynced)
        PROVE  updates[q].phase = "sent" /\ BackTo(updates[q], i)'
    <3>1. updates[q].phase = "sent" /\ BackTo(updates[q], i)
      BY <1>5, <2>2, <2>4 DEF BackOf
    <3>2. i \notin u.ids
      BY <1>1, <2>1, <2>2, <2>4 DEF BackOf, Alone, u
    <3>3. updates[q].ids \subseteq Item
      BY <1>2 DEF UpdateRecord
    <3>4. itemCache'[i] = itemCache[i]
      BY <1>6, <2>4, <3>2, <3>3
    <3>5. QED
      BY <1>1, <2>2, <3>1, <3>4 DEF BackTo, Exact, RowsExact
  <2>5. QED
    BY <1>1, <2>2, <2>3, <2>4 DEF BackOf
<1>11. BackExact'
  BY <1>10 DEF BackExact
<1>12. QED
  BY <1>9, <1>11

-----------------------------------------------------------------------------
(* The steps of the list.                                                  *)

(* Whoever acts has acts left.                                             *)
LEMMA ItemActsRight ==
  ASSUME ItemsTypeOK, ItemAct PROVE itemActs' \in 0 .. MaxItemActs
<1>1. MaxItemActs \in Nat /\ itemActs \in 0 .. MaxItemActs
  BY ItemAssumption DEF ItemsTypeOK, ItemListTypeOK
<1>2. itemActs < MaxItemActs /\ itemActs' = itemActs + 1
  BY DEF ItemAct
<1>3. QED
  BY <1>1, <1>2

(* While nothing leaves the list, the dialog is on what it shows.          *)
LEMMA ListedStays ==
  ASSUME ShownListed, UNCHANGED <<shown, seen, offered, origin>>, Visible \subseteq Visible'
  PROVE  ShownListed'
  BY DEF ShownListed, Open, IsEndOfList

(* A closed dialog is on nothing.                                          *)
LEMMA ClosedListed ==
  ASSUME shown' = Closed PROVE ShownListed'
  BY DEF ShownListed, Open

(* The list is as complete as before.                                      *)
LEMMA CompleteStays ==
  ASSUME ListComplete, UNCHANGED <<here, itemReads, rows, fetched, gaps>>
  PROVE  ListComplete'
  BY DEF ListComplete

(* Steps of the page alone: the queries and the updates stay.              *)
LEMMA PageStepStays ==
  ASSUME ItemsInv, UNCHANGED <<backend, queries, updates, history, itemCache>>,
         itemActs' \in 0 .. MaxItemActs, itemFilter' \in Key, search' \in Search,
         removed' \in SUBSET Item, selectedItems' \in SUBSET Item,
         shown' \in Item \cup {Closed, EndOfList}, skip' \in SkipRecord,
         seen' \in SUBSET Item, offered' \in SUBSET Item, origin' \in {"list", "url"},
         ShownListed'
  PROVE  ItemsInv'
<1>1. /\ UNCHANGED <<here, itemReads, unsynced, rows, fetched, reads, updates, gaps, disturbed>>
      /\ UNCHANGED itemCache
  BY DEF backend, queries, history
<1>2. ItemsTypeOK'
  BY <1>1 DEF ItemsInv, ItemsTypeOK, ItemListTypeOK
<1>3. CopyExact' /\ BackExact'
  BY <1>1, CopiesFresher DEF ItemsInv
<1>4. ListComplete'
  BY <1>1, CompleteStays DEF ItemsInv
<1>5. QED
  BY <1>2, <1>3, <1>4 DEF ItemsInv

(* The date range of the list follows the URL.                             *)
LEMMA FollowsRight ==
  /\ \A s, t \in Search, f \in Key : Followed(s, t, f) \in Key
  /\ \A t \in ListTag \cup {"none"}, v \in Since \cup {"none"} : Validated(t, v) \in Search
  /\ \A f \in Key, v \in Since : [f EXCEPT !.since = v] \in Key
  /\ \A f \in Key : [f EXCEPT !.showRead = ~@] \in Key
  /\ \A s \in Search : [s EXCEPT !.since = "none"] \in Search
  /\ \A s \in Search : s.since \in Since \cup {"none"} /\ s.tag \in ListTag \cup {"none"}
<1>1. \A f \in Key, v \in Since : [f EXCEPT !.since = v] \in Key
  BY DEF Key
<1>2. \A f \in Key : [f EXCEPT !.showRead = ~@] \in Key
  BY DEF Key
<1>3. \A s \in Search : [s EXCEPT !.since = "none"] \in Search
  BY DEF Search
<1>4. \A s \in Search : s.since \in Since \cup {"none"} /\ s.tag \in ListTag \cup {"none"}
  BY DEF Search
<1>5. \A s, t \in Search, f \in Key : Followed(s, t, f) \in Key
  BY <1>1, <1>4 DEF Followed
<1>6. \A t \in ListTag \cup {"none"}, v \in Since \cup {"none"} : Validated(t, v) \in Search
  BY DEF Validated, Search, Since
<1>7. QED
  BY <1>1, <1>2, <1>3, <1>4, <1>5, <1>6

ControlStep ==
  \/ \E t \in ListTag \cup {"none"} : TagChip(t)
  \/ \E v \in Since : DateFilterSelect(v)
  \/ ShowReadToggle \/ ClearReadItems \/ ToggleAll \/ ClearSelected
  \/ \E i \in Item : ToggleItem(i)

(* The controls, chips and checkboxes.                                     *)
LEMMA ControlsStay ==
  ASSUME ItemsInv, ControlStep, UNCHANGED <<detail, dialogStory>> PROVE ItemsInv'
<1>1. ItemsTypeOK /\ ItemListTypeOK
  BY DEF ItemsInv, ItemsTypeOK
<1>2. shown = Closed /\ ItemAct /\ UNCHANGED <<backend, queries, updates, shown, history>>
  BY DEF ControlStep, TagChip, DateFilterSelect, ShowReadToggle, ClearReadItems, ToggleAll,
         ClearSelected, ToggleItem, ListReachable, settings, listPage
<1>3. UNCHANGED <<itemCache, skip, seen, offered, origin>>
  BY DEF detail, dialogStory
<1>4. itemFilter \in Key /\ search \in Search
  BY <1>1 DEF ItemListTypeOK
<1>5. itemFilter' \in Key /\ search' \in Search
  <2>1. ASSUME NEW t \in ListTag \cup {"none"}, TagChip(t)
        PROVE  itemFilter' \in Key /\ search' \in Search
    <3>1. search' \in Search
      BY <2>1, FollowsRight DEF TagChip
    <3>2. QED
      BY <1>4, <2>1, <3>1, FollowsRight DEF TagChip
  <2>2. ASSUME NEW v \in Since, DateFilterSelect(v)
        PROVE  itemFilter' \in Key /\ search' \in Search
    <3>1. search' = Validated(search.tag, IF v = "all" THEN "none" ELSE v)
          /\ itemFilter' = Followed(search, search', [itemFilter EXCEPT !.since = v])
      BY <2>2 DEF DateFilterSelect
    <3>2. search' \in Search
      BY <1>4, <3>1, FollowsRight
    <3>3. QED
      BY <1>4, <3>1, <3>2, FollowsRight
  <2>3. CASE ShowReadToggle
    BY <1>4, <2>3, FollowsRight DEF ShowReadToggle
  <2>4. CASE ClearReadItems \/ ToggleAll \/ ClearSelected \/ \E i \in Item : ToggleItem(i)
    BY <1>4, <2>4 DEF ClearReadItems, ToggleAll, ClearSelected, ToggleItem, settings
  <2>5. QED
    BY <2>1, <2>2, <2>3, <2>4 DEF ControlStep
<1>6. removed' \in SUBSET Item /\ selectedItems' \in SUBSET Item
  <2>1. Visible \subseteq Item /\ removed \in SUBSET Item /\ selectedItems \in SUBSET Item
    BY <1>1 DEF Visible, Listed, ItemListTypeOK
  <2>2. CASE ShowReadToggle \/ (\E t \in ListTag \cup {"none"} : TagChip(t))
             \/ (\E v \in Since : DateFilterSelect(v))
    BY <2>1, <2>2 DEF ShowReadToggle, TagChip, DateFilterSelect, listPage
  <2>3. CASE ClearReadItems
    BY <2>1, <2>3 DEF ClearReadItems
  <2>4. CASE ToggleAll
    BY <2>1, <2>4 DEF ToggleAll, SelectedBy
  <2>5. CASE ClearSelected \/ \E i \in Item : ToggleItem(i)
    BY <2>1, <2>5 DEF ClearSelected, ToggleItem
  <2>6. QED
    BY <2>2, <2>3, <2>4, <2>5 DEF ControlStep
<1>7. ShownListed'
  BY <1>2, ClosedListed
<1>8. itemActs' \in 0 .. MaxItemActs
  BY <1>1, <1>2, ItemActsRight
<1>9. /\ shown' \in Item \cup {Closed, EndOfList} /\ skip' \in SkipRecord
      /\ seen' \in SUBSET Item /\ offered' \in SUBSET Item /\ origin' \in {"list", "url"}
  BY <1>1, <1>2, <1>3 DEF ItemsTypeOK
<1>10. UNCHANGED <<backend, queries, updates, history, itemCache>>
  BY <1>2, <1>3
<1>11. QED
  BY <1>5, <1>6, <1>7, <1>8, <1>9, <1>10, PageStepStays

(* An anchor is the time of an item, or there is none.                     *)
LEMMA AnchorRight == ASSUME ItemListTypeOK, NEW k \in Key PROVE Anchor(k) \in -1 .. 2
<1> DEFINE known == {Created(i) : i \in Asked(k)}
<1>1. known \subseteq 0 .. 2
  BY DEF Created
<1>2. IsFiniteSet(known)
  <2>1. IsFiniteSet(({0} \cup {1}) \cup {2})
    BY FS_Singleton, FS_AddElement
  <2>2. known \subseteq ({0} \cup {1}) \cup {2}
    BY <1>1
  <2>3. QED
    BY <2>1, <2>2, FS_Subset
<1> HIDE DEF known
<1>3. known \cup {fetched[k]} \subseteq -1 .. 2
  <2>1. fetched[k] \in -1 .. 2
    BY DEF ItemListTypeOK
  <2>2. 0 .. 2 \subseteq -1 .. 2
    OBVIOUS
  <2>3. QED
    BY <1>1, <2>1, <2>2
<1>4. IsFiniteSet(known \cup {fetched[k]})
  BY <1>2, FS_AddElement
<1>5. Max(known \cup {fetched[k]}) \in known \cup {fetched[k]}
  BY <1>3, <1>4, MaxIsLast
<1>6. QED
  BY <1>3, <1>5 DEF known, Anchor

(* A run that is cancelled: what it has asked for may be missing, what it  *)
(* has not was asked for before.                                           *)
LEMMA ListItemsLostStays ==
  ASSUME ItemsInv, ListItemsLost, UNCHANGED <<detail, dialogStory>> PROVE ItemsInv'
<1> DEFINE k == itemFilter
           dropped == {i \in Asked(k) : rows[k][i] = "none"}
<1>1. ItemsTypeOK /\ ItemListTypeOK /\ k \in Key
  BY DEF ItemsInv, ItemsTypeOK, ItemListTypeOK
<1>2. /\ fetched[k] # -1
      /\ fetched' = [fetched EXCEPT ![k] = Anchor(k)]
      /\ gaps' = [gaps EXCEPT ![k] = gaps[k] \cup dropped]
      /\ UNCHANGED <<here, itemReads, unsynced, rows, reads, itemFilter, search, removed,
                     selectedItems, updates, shown, disturbed>>
      /\ UNCHANGED <<itemCache, skip, seen, offered, origin>>
  BY DEF ListItemsLost, backend, settings, listPage, detail, dialogStory
<1>3. itemActs' \in 0 .. MaxItemActs
  BY <1>1, ItemActsRight DEF ListItemsLost
<1>4. /\ fetched \in [Key -> -1 .. 2] /\ gaps \in [Key -> SUBSET Item]
      /\ Asked(k) \subseteq Item
  BY <1>1 DEF Asked, ItemListTypeOK
<1>5. fetched' \in [Key -> -1 .. 2] /\ gaps' \in [Key -> SUBSET Item]
  BY <1>1, <1>2, <1>4, AnchorRight
<1>6. ItemsTypeOK'
  BY <1>1, <1>2, <1>3, <1>5 DEF ItemsTypeOK, ItemListTypeOK
<1>7. CopyExact' /\ BackExact'
  BY <1>1, <1>2, CopiesFresher DEF ItemsInv, Exact
<1>8. ShownListed'
  <2>1. Visible \subseteq Visible'
    BY <1>2 DEF Visible, Listed
  <2>2. QED
    BY <1>2, <2>1, ListedStays DEF ItemsInv
<1>9. ListComplete'
  <2>1. ASSUME NEW q \in Key, NEW i \in here' \ gaps'[q], fetched'[q] >= Created(i)',
               itemReads'[i] = "unread", q.since = "all" \/ i \notin Old, rows'[q][i] = "none"
        PROVE  FALSE
    <3>1. i \in here \ gaps[q] /\ i \in Item /\ itemReads[i] = "unread" /\ rows[q][i] = "none"
      BY <1>1, <1>2, <1>4, <2>1 DEF ItemListTypeOK
    <3>2. fetched[q] >= Created(i)
      <4>1. CASE q # k
        BY <1>2, <1>4, <2>1, <4>1 DEF Created
      <4>2. CASE q = k
        <5>1. i \notin Asked(k)
          BY <1>2, <1>4, <2>1, <3>1, <4>2
        <5>2. ~(Created(i) >= fetched[k])
          BY <1>2, <3>1, <5>1 DEF Asked
        <5>3. Created(i) \in Int /\ fetched[k] \in Int
          BY <1>1, <1>4 DEF Created
        <5>4. QED
          BY <4>2, <5>2, <5>3
      <4>3. QED
        BY <4>1, <4>2
    <3>3. QED
      BY <2>1, <3>1, <3>2 DEF ItemsInv, ListComplete
  <2>2. QED
    BY <2>1 DEF ListComplete
<1>10. QED
  BY <1>6, <1>7, <1>8, <1>9 DEF ItemsInv

(* An answer of the items.  What is not in it was asked for before: the    *)
(* first answer of a key has everything in range.                          *)
LEMMA ListItemsStays ==
  ASSUME ItemsInv, ListItems, UNCHANGED <<detail, dialogStory>> PROVE ItemsInv'
<1> DEFINE k == itemFilter
<1>1. ItemsTypeOK /\ ItemListTypeOK /\ k \in Key
  BY DEF ItemsInv, ItemsTypeOK, ItemListTypeOK
<1>2. /\ rows' = [rows EXCEPT ![k] = Merged(k)]
      /\ fetched' = [fetched EXCEPT ![k] = Anchor(k)]
      /\ gaps' = [gaps EXCEPT ![k] = gaps[k] \ Asked(k)]
      /\ UNCHANGED <<here, itemReads, unsynced, reads, itemFilter, search, removed, selectedItems,
                     updates, shown, disturbed>>
      /\ UNCHANGED <<itemActs, itemCache, skip, seen, offered, origin>>
  BY DEF ListItems, backend, settings, listPage, detail, dialogStory
<1>3. UNCHANGED itemActs
  BY <1>2
<1>4. Asked(k) \subseteq Item /\ itemReads \in [Item -> State] /\ rows \in [Key -> [Item -> Entry]]
  BY <1>1 DEF Asked, ItemListTypeOK
<1>5. Merged(k) \in [Item -> Entry] /\ rows' \in [Key -> [Item -> Entry]]
  BY <1>1, <1>2, <1>4 DEF Merged, Entry
<1>6. fetched' \in [Key -> -1 .. 2]
  BY <1>1, <1>2, AnchorRight DEF ItemListTypeOK
<1>7. gaps' \in [Key -> SUBSET Item]
  BY <1>1, <1>2 DEF ItemListTypeOK
<1>8. ItemsTypeOK'
  BY <1>1, <1>2, <1>3, <1>5, <1>6, <1>7 DEF ItemsTypeOK, ItemListTypeOK
<1>9. ASSUME NEW q \in Key, NEW i \in Item
      PROVE  /\ rows'[q][i] = IF q = k /\ i \in Asked(k) THEN itemReads[i] ELSE rows[q][i]
             /\ rows[q][i] # "none" => rows'[q][i] # "none"
  <2>1. rows'[q][i] = IF q = k /\ i \in Asked(k) THEN itemReads[i] ELSE rows[q][i]
    BY <1>1, <1>2, <1>4 DEF Merged
  <2>2. itemReads[i] # "none"
    BY <1>4 DEF State
  <2>3. QED
    BY <2>1, <2>2
<1>10. CopyExact' /\ BackExact'
  <2>1. \A q \in Key, i \in Item : Exact(rows[q][i], i) => Exact(rows'[q][i], i)
    BY <1>9 DEF Exact
  <2>2. UNCHANGED <<itemReads, unsynced, reads, updates, disturbed>> /\ UNCHANGED itemCache
    BY <1>2
  <2>3. QED
    BY <1>1, <2>1, <2>2, CopiesFresher DEF ItemsInv
<1>11. ShownListed'
  <2>1. Visible \subseteq Visible'
    BY <1>1, <1>2, <1>9 DEF Visible, Listed
  <2>2. QED
    BY <1>2, <2>1, ListedStays DEF ItemsInv
<1>12. ListComplete'
  <2>1. ASSUME NEW q \in Key, NEW i \in here' \ gaps'[q], fetched'[q] >= Created(i)',
               itemReads'[i] = "unread", q.since = "all" \/ i \notin Old, rows'[q][i] = "none"
        PROVE  FALSE
    <3>1. i \in here \ gaps'[q] /\ i \in Item /\ itemReads[i] = "unread"
      BY <1>1, <1>2, <2>1 DEF ItemListTypeOK
    <3>2. CASE q # k
      <4>1. fetched'[q] = fetched[q] /\ gaps'[q] = gaps[q] /\ rows'[q][i] = rows[q][i]
        BY <1>1, <1>2, <1>9, <3>1, <3>2 DEF ItemListTypeOK
      <4>2. fetched[q] >= Created(i)
        BY <2>1, <4>1 DEF Created
      <4>3. QED
        BY <2>1, <3>1, <4>1, <4>2 DEF ItemsInv, ListComplete
    <3>3. CASE q = k
      <4>1. i \notin Asked(k) /\ rows[k][i] = "none"
        BY <1>4, <1>9, <2>1, <3>1, <3>3 DEF State
      <4>2. i \notin gaps[k]
        BY <1>1, <1>2, <3>1, <3>3, <4>1 DEF ItemListTypeOK
      <4>3. ~(IF fetched[k] = -1 THEN k.since = "all" \/ i \notin Old
              ELSE Created(i) >= fetched[k])
        BY <3>1, <4>1 DEF Asked
      <4>4. fetched[k] # -1 /\ ~(Created(i) >= fetched[k])
        BY <2>1, <3>3, <4>3
      <4>5. Created(i) \in Int /\ fetched[k] \in Int
        BY <1>1 DEF Created, ItemListTypeOK
      <4>6. fetched[k] >= Created(i)
        BY <4>4, <4>5
      <4>7. QED
        BY <1>1, <2>1, <3>1, <3>3, <4>1, <4>2, <4>6 DEF ItemsInv, ListComplete
    <3>4. QED
      BY <3>2, <3>3
  <2>2. QED
    BY <2>1 DEF ListComplete
<1>13. QED
  BY <1>8, <1>10, <1>11, <1>12 DEF ItemsInv

(* The cache drops a key that is not shown.                                *)
LEMMA CollectStays ==
  ASSUME ItemsInv, NEW k \in Key, Collect(k), UNCHANGED <<detail, dialogStory>> PROVE ItemsInv'
<1>1. ItemsTypeOK /\ ItemListTypeOK /\ itemFilter \in Key
  BY DEF ItemsInv, ItemsTypeOK, ItemListTypeOK
<1>2. /\ k # itemFilter /\ rows' = [rows EXCEPT ![k] = Empty] /\ gaps' = [gaps EXCEPT ![k] = Item]
      /\ UNCHANGED <<here, itemReads, unsynced, fetched, reads, itemFilter, search, removed,
                     selectedItems, updates, shown, disturbed>>
      /\ UNCHANGED <<itemCache, skip, seen, offered, origin>>
  BY DEF Collect, backend, settings, listPage, detail, dialogStory
<1>3. itemActs' \in 0 .. MaxItemActs
  BY <1>1, ItemActsRight DEF Collect
<1>4. /\ rows \in [Key -> [Item -> Entry]] /\ gaps \in [Key -> SUBSET Item]
      /\ Empty \in [Item -> Entry]
  BY <1>1 DEF ItemListTypeOK, Empty, Entry
<1>5. rows' \in [Key -> [Item -> Entry]] /\ gaps' \in [Key -> SUBSET Item]
  BY <1>2, <1>4
<1>6. ItemsTypeOK'
  BY <1>1, <1>2, <1>3, <1>5 DEF ItemsTypeOK, ItemListTypeOK
<1>7. CopyExact' /\ BackExact'
  <2>1. \A q \in Key, i \in Item : Exact(rows[q][i], i) => Exact(rows'[q][i], i)
    BY <1>2, <1>4 DEF Exact, Empty
  <2>2. UNCHANGED <<itemReads, unsynced, reads, updates, disturbed>> /\ UNCHANGED itemCache
    BY <1>2
  <2>3. QED
    BY <1>1, <2>1, <2>2, CopiesFresher DEF ItemsInv
<1>8. ShownListed'
  <2>1. rows'[itemFilter] = rows[itemFilter]
    BY <1>1, <1>2, <1>4
  <2>2. Visible \subseteq Visible'
    BY <1>2, <2>1 DEF Visible, Listed
  <2>3. QED
    BY <1>2, <2>2, ListedStays DEF ItemsInv
<1>9. ListComplete'
  <2>1. here \subseteq Item
    BY <1>1 DEF ItemListTypeOK
  <2>2. \A q \in Key : q = k => here' \ gaps'[q] = {}
    BY <1>2, <1>4, <2>1
  <2>3. \A q \in Key : q # k => gaps'[q] = gaps[q] /\ rows'[q] = rows[q]
    BY <1>2, <1>4
  <2>4. QED
    BY <1>2, <2>2, <2>3 DEF ListComplete, ItemsInv
<1>10. QED
  BY <1>6, <1>7, <1>8, <1>9 DEF ItemsInv

(* A poll of the read state.                                               *)
LEMMA PollStays ==
  ASSUME ItemsInv, Poll, UNCHANGED <<detail, dialogStory>> PROVE ItemsInv'
<1>1. ItemsTypeOK /\ ItemListTypeOK
  BY DEF ItemsInv, ItemsTypeOK
<1>2. /\ reads' = [i \in Item |-> IF i \in unsynced THEN itemReads[i] ELSE reads[i]]
      /\ unsynced' = {}
      /\ updates' = [o \in Update |->
                       [updates[o] EXCEPT !.overlapped = @ \/ updates[o].phase # "free"]]
      /\ UNCHANGED <<here, itemReads, rows, fetched, itemFilter, search, removed, selectedItems,
                     itemActs, shown, gaps, disturbed>>
      /\ UNCHANGED <<itemCache, skip, seen, offered, origin>>
  BY Zenon DEF Poll, settings, listPage, history, detail, dialogStory
<1>3. reads' \in [Item -> Entry]
  BY <1>1, <1>2 DEF ItemListTypeOK, Entry
<1>4. updates' \in [Update -> UpdateRecord]
  <2>1. ASSUME NEW o \in Update
        PROVE  [updates[o] EXCEPT !.overlapped = @ \/ updates[o].phase # "free"] \in UpdateRecord
    <3>1. updates[o] \in UpdateRecord
      BY <1>1 DEF ItemListTypeOK
    <3>2. QED
      BY <3>1 DEF UpdateRecord
  <2>2. QED
    BY <1>2, <2>1
<1>5. ItemsTypeOK'
  BY <1>1, <1>2, <1>3, <1>4 DEF ItemsTypeOK, ItemListTypeOK
<1>6. CopyExact' /\ BackExact'
  BY <1>1, <1>2, PollsExact DEF ItemsInv
<1>7. ShownListed'
  BY <1>2, ListedStays DEF ItemsInv, Visible, Listed
<1>8. ListComplete'
  BY <1>2, CompleteStays DEF ItemsInv
<1>9. QED
  BY <1>5, <1>6, <1>7, <1>8 DEF ItemsInv

(* The server does an update.                                              *)
LEMMA CommitStays ==
  ASSUME ItemsInv, NEW o \in Update, Commit(o), UNCHANGED <<detail, dialogStory>> PROVE ItemsInv'
<1>1. ItemsTypeOK /\ ItemListTypeOK
  BY DEF ItemsInv, ItemsTypeOK
<1> DEFINE u == updates[o]
<1>2. /\ itemReads' = [i \in Item |-> IF i \in u.ids THEN u.to ELSE itemReads[i]]
      /\ unsynced' = unsynced \cup u.ids
      /\ updates' = [updates EXCEPT ![o] = [u EXCEPT !.phase = "committed"]]
      /\ gaps' = [k \in Key |-> IF u.to = "unread" THEN gaps[k] \cup u.ids ELSE gaps[k]]
      /\ UNCHANGED <<here, rows, fetched, reads, itemFilter, search, removed, selectedItems,
                     itemActs, shown, disturbed>>
      /\ UNCHANGED <<itemCache, skip, seen, offered, origin>>
  BY DEF Commit, queries, settings, listPage, detail, dialogStory
<1>3. u \in UpdateRecord /\ u.ids \subseteq Item /\ u.to \in State
  BY <1>1 DEF ItemListTypeOK, UpdateRecord
<1>4. itemReads' \in [Item -> State] /\ unsynced' \in SUBSET Item
  BY <1>1, <1>2, <1>3 DEF ItemListTypeOK
<1>5. updates' \in [Update -> UpdateRecord]
  <2>1. [u EXCEPT !.phase = "committed"] \in UpdateRecord
    BY <1>3, UpdateFields
  <2>2. QED
    BY <1>1, <1>2, <2>1 DEF ItemListTypeOK
<1>6. gaps' \in [Key -> SUBSET Item]
  BY <1>1, <1>2, <1>3 DEF ItemListTypeOK
<1>7. ItemsTypeOK'
  BY <1>1, <1>2, <1>4, <1>5, <1>6 DEF ItemsTypeOK, ItemListTypeOK
<1>8. CopyExact' /\ BackExact'
  BY <1>1, <1>2, CommitsExact DEF ItemsInv
<1>9. ShownListed'
  BY <1>2, ListedStays DEF ItemsInv, Visible, Listed
<1>10. ListComplete'
  <2>1. here \subseteq Item
    BY <1>1 DEF ItemListTypeOK
  <2>2. ASSUME NEW k \in Key, NEW i \in here \ gaps'[k], itemReads'[i] = "unread"
        PROVE  i \notin gaps[k] /\ itemReads[i] = "unread"
    <3>1. gaps'[k] = IF u.to = "unread" THEN gaps[k] \cup u.ids ELSE gaps[k]
      BY <1>2
    <3>2. itemReads'[i] = IF i \in u.ids THEN u.to ELSE itemReads[i]
      BY <1>2, <2>1
    <3>3. QED
      BY <2>2, <3>1, <3>2
  <2>3. QED
    BY <1>2, <2>2 DEF ListComplete, ItemsInv, Created
<1>11. QED
  BY <1>7, <1>8, <1>9, <1>10 DEF ItemsInv

(* Another browser's update.                                               *)
LEMMA OtherStays ==
  ASSUME ItemsInv, NEW j \in Item, NEW v \in State, OtherUpdate(j, v),
         UNCHANGED <<detail, dialogStory>>
  PROVE  ItemsInv'
<1>1. ItemsTypeOK /\ ItemListTypeOK
  BY DEF ItemsInv, ItemsTypeOK
<1>2. /\ itemReads' = [itemReads EXCEPT ![j] = v]
      /\ unsynced' = unsynced \cup {j}
      /\ gaps' = [k \in Key |-> IF v = "unread" THEN gaps[k] \cup {j} ELSE gaps[k]]
      /\ UNCHANGED <<here, rows, fetched, reads, itemFilter, search, removed, selectedItems,
                     updates, shown, disturbed>>
      /\ UNCHANGED <<itemCache, skip, seen, offered, origin>>
  BY DEF OtherUpdate, queries, settings, listPage, detail, dialogStory
<1>3. itemActs' \in 0 .. MaxItemActs
  BY <1>1, ItemActsRight DEF OtherUpdate
<1>4. itemReads' \in [Item -> State] /\ unsynced' \in SUBSET Item /\ gaps' \in [Key -> SUBSET Item]
  BY <1>1, <1>2 DEF ItemListTypeOK
<1>5. ItemsTypeOK'
  BY <1>1, <1>2, <1>3, <1>4 DEF ItemsTypeOK, ItemListTypeOK
<1>6. CopyExact' /\ BackExact'
  BY <1>1, <1>2, OthersExact DEF ItemsInv
<1>7. ShownListed'
  BY <1>2, ListedStays DEF ItemsInv, Visible, Listed
<1>8. ListComplete'
  <2>1. here \subseteq Item /\ itemReads \in [Item -> State]
    BY <1>1 DEF ItemListTypeOK
  <2>2. ASSUME NEW k \in Key, NEW i \in here \ gaps'[k], itemReads'[i] = "unread"
        PROVE  i \notin gaps[k] /\ itemReads[i] = "unread"
    BY <1>2, <2>1, <2>2
  <2>3. QED
    BY <1>2, <2>2 DEF ListComplete, ItemsInv, Created
<1>9. QED
  BY <1>5, <1>6, <1>7, <1>8 DEF ItemsInv

(* An item arrives, perhaps behind the anchor of a key.                    *)
LEMMA ArriveStays ==
  ASSUME ItemsInv, NEW j \in Item, Arrive(j), UNCHANGED <<detail, dialogStory>> PROVE ItemsInv'
<1>1. ItemsTypeOK /\ ItemListTypeOK
  BY DEF ItemsInv, ItemsTypeOK
<1>2. /\ here' = here \cup {j}
      /\ gaps' = [k \in Key |-> IF fetched[k] >= Created(j) THEN gaps[k] \cup {j} ELSE gaps[k]]
      /\ UNCHANGED <<itemReads, unsynced, rows, fetched, reads, itemFilter, search, removed,
                     selectedItems, updates, shown, disturbed>>
      /\ UNCHANGED <<itemCache, skip, seen, offered, origin>>
  BY DEF Arrive, queries, settings, listPage, detail, dialogStory
<1>3. itemActs' \in 0 .. MaxItemActs
  BY <1>1, ItemActsRight DEF Arrive
<1>4. here' \in SUBSET Item /\ gaps' \in [Key -> SUBSET Item]
  BY <1>1, <1>2 DEF ItemListTypeOK
<1>5. ItemsTypeOK'
  BY <1>1, <1>2, <1>3, <1>4 DEF ItemsTypeOK, ItemListTypeOK
<1>6. CopyExact' /\ BackExact'
  BY <1>1, <1>2, CopiesFresher DEF ItemsInv
<1>7. ShownListed'
  BY <1>2, ListedStays DEF ItemsInv, Visible, Listed
<1>8. ListComplete'
  <2>1. ASSUME NEW k \in Key, NEW i \in here' \ gaps'[k], fetched[k] >= Created(i)
        PROVE  i \in here \ gaps[k]
    <3>1. gaps'[k] = IF fetched[k] >= Created(j) THEN gaps[k] \cup {j} ELSE gaps[k]
      BY <1>2
    <3>2. QED
      BY <1>2, <2>1, <3>1
  <2>2. QED
    BY <1>2, <2>1 DEF ListComplete, ItemsInv, Created
<1>9. QED
  BY <1>5, <1>6, <1>7, <1>8 DEF ItemsInv

(* A bulk update waits for its task; an update is acknowledged.            *)
LEMMA WaitsStay ==
  ASSUME ItemsInv, NEW o \in Update, BulkMarkAsRead(o) \/ Acknowledge(o),
         UNCHANGED <<detail, dialogStory>>
  PROVE  ItemsInv'
<1>1. ItemsTypeOK /\ ItemListTypeOK
  BY DEF ItemsInv, ItemsTypeOK
<1>2. PICK r \in UpdateRecord : /\ r.phase \notin {"sent", "committed"}
                                /\ updates' = [updates EXCEPT ![o] = r]
  <2>1. CASE BulkMarkAsRead(o)
    <3> DEFINE r == [FreeUpdate EXCEPT !.phase = "yields", !.by = "bulk", !.ids = selectedItems]
    <3>1. r \in UpdateRecord
      BY <1>1, UpdateFields DEF ItemListTypeOK
    <3>2. updates' = [updates EXCEPT ![o] = r]
      BY <2>1, Zenon DEF BulkMarkAsRead
    <3>3. r.phase = "yields"
      BY DEF FreeUpdate
    <3> HIDE DEF r
    <3>4. QED
      BY <3>1, <3>2, <3>3
  <2>2. CASE Acknowledge(o)
    BY <2>2, UpdateFields DEF Acknowledge
  <2>3. QED
    BY <2>1, <2>2
<1>3. /\ updates[o].phase # "sent" /\ selectedItems' \in SUBSET Item
      /\ UNCHANGED <<here, itemReads, unsynced, rows, fetched, reads, itemFilter, search, removed,
                     shown, gaps, disturbed>>
      /\ UNCHANGED <<itemCache, skip, seen, offered, origin>>
  BY <1>1 DEF BulkMarkAsRead, Acknowledge, backend, queries, settings, listPage, history, detail,
              dialogStory, ItemListTypeOK
<1>4. itemActs' \in 0 .. MaxItemActs
  BY <1>1, ItemActsRight DEF BulkMarkAsRead, Acknowledge, ItemListTypeOK
<1>5. updates' \in [Update -> UpdateRecord]
  BY <1>1, <1>2 DEF ItemListTypeOK
<1>6. ItemsTypeOK'
  BY <1>1, <1>3, <1>4, <1>5 DEF ItemsTypeOK, ItemListTypeOK
<1>7. CopyExact' /\ BackExact'
  BY <1>1, <1>2, <1>3, UpdateWaits DEF ItemsInv
<1>8. ShownListed'
  BY <1>3, ListedStays DEF ItemsInv, Visible, Listed
<1>9. ListComplete'
  BY <1>3, CompleteStays DEF ItemsInv
<1>10. QED
  BY <1>6, <1>7, <1>8, <1>9 DEF ItemsInv

-----------------------------------------------------------------------------
(* The steps that send an update, and those of the dialog.                 *)

(* An update is sent, and the dialog may go on.                            *)
LEMMA SendStays ==
  ASSUME ItemsInv,
         NEW o \in Update, ~InFlight(o), NEW by \in {"row", "bulk", "toggle", "leave"},
         NEW some \in SUBSET Item, NEW to \in State, Send(o, by, some, to),
         UNCHANGED <<here, itemReads, unsynced, rows, fetched, itemFilter, search, removed,
                     selectedItems, gaps, disturbed>>,
         itemCache' \in [Item -> Entry],
         \A i \in Item \ some : itemCache'[i] = itemCache[i],
         by # "toggle" => itemCache' = itemCache,
         by = "toggle" => \A i \in some : (reads[i] = "none" => itemCache[i] # "none")
                            /\ to = Other(IF reads[i] = "none" THEN itemCache[i] ELSE reads[i]),
         itemActs' \in 0 .. MaxItemActs,
         shown' \in Item \cup {Closed, EndOfList}, skip' \in SkipRecord,
         seen' \in SUBSET Item, UNCHANGED <<offered, origin>>, ShownListed'
  PROVE  ItemsInv'
<1>1. ItemsTypeOK /\ ItemListTypeOK
  BY DEF ItemsInv, ItemsTypeOK
<1>2. /\ updates' \in [Update -> UpdateRecord] /\ reads' \in [Item -> Entry]
      /\ CopyExact' /\ BackExact'
  BY <1>1, SendsExact DEF ItemsInv
<1>3. ItemsTypeOK'
  BY <1>1, <1>2 DEF ItemsTypeOK, ItemListTypeOK
<1>4. ListComplete'
  BY CompleteStays DEF ItemsInv
<1>5. QED
  BY <1>2, <1>3, <1>4 DEF ItemsInv

(* From a row, or of what is selected.                                     *)
LEMMA RowSendsStay ==
  ASSUME ItemsInv, NEW o \in Update, BulkSend(o) \/ \E i \in Item : MiddleClick(o, i),
         UNCHANGED <<detail, dialogStory>>
  PROVE  ItemsInv'
<1>1. ItemsTypeOK /\ ItemListTypeOK
  BY DEF ItemsInv, ItemsTypeOK
<1>2. /\ UNCHANGED <<here, itemReads, unsynced, rows, fetched, itemFilter, search, removed,
                     selectedItems, gaps, disturbed, shown>>
      /\ UNCHANGED <<itemCache, skip, seen, offered, origin>> /\ ~InFlight(o)
  BY DEF BulkSend, MiddleClick, backend, settings, listPage, history, detail, dialogStory, InFlight
<1>3. /\ itemCache' \in [Item -> Entry] /\ shown' \in Item \cup {Closed, EndOfList}
      /\ skip' \in SkipRecord /\ seen' \in SUBSET Item
  BY <1>1, <1>2 DEF ItemsTypeOK
<1>4. itemActs' \in 0 .. MaxItemActs
  BY <1>1, ItemActsRight DEF BulkSend, MiddleClick, ItemListTypeOK
<1>5. ShownListed'
  BY <1>2, ListedStays DEF ItemsInv, Visible, Listed
<1>6. CASE BulkSend(o)
  <2>1. Send(o, "bulk", updates[o].ids, "read")
    BY <1>6 DEF BulkSend
  <2>2. updates[o].ids \in SUBSET Item /\ "read" \in State
    BY <1>1 DEF ItemListTypeOK, UpdateRecord, State
  <2>3. QED
    BY <1>2, <1>3, <1>4, <1>5, <2>1, <2>2, SendStays
<1>7. ASSUME NEW i \in Item, MiddleClick(o, i) PROVE ItemsInv'
  <2>1. Send(o, "row", {i}, "read")
    BY <1>7 DEF MiddleClick
  <2>2. {i} \in SUBSET Item /\ "read" \in State
    BY DEF State
  <2>3. QED
    BY <1>2, <1>3, <1>4, <1>5, <2>1, <2>2, SendStays
<1>8. QED
  BY <1>6, <1>7

(* What is known of a skip.                                                *)
LEMMA SkipsRight ==
  /\ NoSkip \in SkipRecord
  /\ \A s \in SkipRecord : [s EXCEPT !.skipping = FALSE, !.recovery = FALSE] \in SkipRecord
  /\ \A s \in SkipRecord : [s EXCEPT !.timer = FALSE, !.recovery = TRUE, !.of = 0] \in SkipRecord
  /\ \A i \in Item :
       [skipping |-> TRUE, timer |-> TRUE, recovery |-> FALSE, of |-> i] \in SkipRecord
  BY DEF NoSkip, SkipRecord

(* A key or a swipe that leaves the item as read.                          *)
LEMMA LeavesStay ==
  ASSUME ItemsInv, NEW o \in Update, HandleNext(o) \/ HandlePrev(o) PROVE ItemsInv'
<1>1. ItemsTypeOK /\ ItemListTypeOK
  BY DEF ItemsInv, ItemsTypeOK
<1>2. /\ UNCHANGED <<backend, rows, fetched, settings, listPage, history, itemCache, offered,
                     origin>>
      /\ MarkCurrent(o) /\ ItemAct
      /\ (CanNext /\ Navigate(NextItem)) \/ (CanPrev /\ Navigate(PrevItem))
  BY DEF HandleNext, HandlePrev
<1>3. UNCHANGED <<here, itemReads, unsynced, rows, fetched, itemFilter, search, removed,
                  selectedItems, gaps, disturbed, itemCache, offered, origin>>
  BY <1>2 DEF backend, settings, listPage, history
<1>4. itemActs' \in 0 .. MaxItemActs
  BY <1>1, <1>2, ItemActsRight
<1>5. skip' \in SkipRecord
  <2>1. skip \in SkipRecord
    BY <1>1 DEF ItemsTypeOK
  <2>2. QED
    BY <1>2, <2>1, SkipsRight DEF Navigate
<1>6. /\ ShownListed' /\ seen' \in SUBSET Item
      /\ shown' \in Item \cup {Closed, EndOfList}
  <2>1. Visible' = Visible
    BY <1>3 DEF Visible, Listed
  <2>2. \/ CanNext /\ shown' = NextItem
        \/ CanPrev /\ shown' = PrevItem
    BY <1>2 DEF Navigate
  <2>3. seen' = IF shown' \in Item THEN seen \cup {shown'} ELSE seen
    BY <1>2 DEF Navigate
  <2>4. QED
    BY <1>1, <1>3, <2>1, <2>2, <2>3, MovesListed DEF ItemsInv
<1>7. /\ itemCache' \in [Item -> Entry]
      /\ offered' \in SUBSET Item /\ origin' \in {"list", "url"}
  BY <1>1, <1>3 DEF ItemsTypeOK
<1>8. CASE shown \in Item
  <2>1. updates[o].phase = "free" /\ Send(o, "leave", {shown}, "read")
    BY <1>2, <1>8 DEF MarkCurrent
  <2>2. {shown} \in SUBSET Item /\ "read" \in State /\ ~InFlight(o)
    BY <1>8, <2>1 DEF State, InFlight
  <2>3. QED
    BY <1>3, <1>4, <1>5, <1>6, <1>7, <2>1, <2>2, SendStays
<1>9. CASE shown \notin Item
  <2>1. UNCHANGED <<backend, queries, updates, history, itemCache>>
    BY <1>2, <1>9 DEF MarkCurrent, queries
  <2>2. /\ itemFilter' \in Key /\ search' \in Search /\ removed' \in SUBSET Item
        /\ selectedItems' \in SUBSET Item
    BY <1>1, <1>3 DEF ItemListTypeOK
  <2>3. QED
    BY <1>4, <1>5, <1>6, <1>7, <2>1, <2>2, PageStepStays
<1>10. QED
  BY <1>8, <1>9

(* The button of the item, and m.                                          *)
LEMMA ToggleStays ==
  ASSUME ItemsInv, NEW o \in Update, ToggleRead(o) PROVE ItemsInv'
<1>1. ItemsTypeOK /\ ItemListTypeOK
  BY DEF ItemsInv, ItemsTypeOK
<1> DEFINE to == Other(ItemReadState)
<1>2. /\ UNCHANGED <<here, itemReads, unsynced, rows, fetched, itemFilter, search, removed,
                     selectedItems, gaps, disturbed, shown>>
      /\ UNCHANGED <<skip, seen, offered, origin>> /\ ~InFlight(o)
      /\ Send(o, "toggle", {shown}, to) /\ itemCache' = [itemCache EXCEPT ![shown] = to]
  BY DEF ToggleRead, backend, settings, listPage, history, dialogStory, InFlight
<1>3. shown \in Item /\ itemCache[shown] # "none"
  BY <1>1 DEF ToggleRead, Open, ToggleButton, Panel, IsEndOfList, ItemsTypeOK
<1>4. to \in State /\ itemCache' \in [Item -> Entry]
  <2>1. to \in State
    BY DEF Other, State
  <2>2. QED
    BY <1>1, <1>2, <2>1 DEF ItemsTypeOK, Entry
<1>5. \A i \in Item \ {shown} : itemCache'[i] = itemCache[i]
  BY <1>1, <1>2 DEF ItemsTypeOK
<1>6. \A i \in {shown} : /\ reads[i] = "none" => itemCache[i] # "none"
                         /\ to = Other(IF reads[i] = "none" THEN itemCache[i] ELSE reads[i])
  BY <1>3 DEF ItemReadState
<1>7. itemActs' \in 0 .. MaxItemActs
  BY <1>1, ItemActsRight DEF ToggleRead
<1>8. ShownListed'
  BY <1>2, ListedStays DEF ItemsInv, Visible, Listed
<1>9. /\ shown' \in Item \cup {Closed, EndOfList} /\ skip' \in SkipRecord
      /\ seen' \in SUBSET Item /\ {shown} \in SUBSET Item
  BY <1>1, <1>2, <1>3 DEF ItemsTypeOK
<1>10. QED
  <2> HIDE DEF to
  <2>1. QED
    BY <1>2, <1>4, <1>5, <1>6, <1>7, <1>8, <1>9, SendStays

(* An item is opened; the dialog is closed.                                *)
LEMMA OpensStay ==
  ASSUME ItemsInv, (\E i \in Item : OpenItem(i)) \/ Close PROVE ItemsInv'
<1>1. ItemsTypeOK /\ ItemListTypeOK
  BY DEF ItemsInv, ItemsTypeOK
<1>2. UNCHANGED <<backend, queries, search, listPage, updates, history, itemCache>> /\ ItemAct
      /\ skip' = NoSkip
  BY DEF OpenItem, Close, settings
<1>3. UNCHANGED <<rows, removed, selectedItems>>
  BY <1>2 DEF queries, listPage
<1>4. itemActs' \in 0 .. MaxItemActs /\ skip' \in SkipRecord
  BY <1>1, <1>2, ItemActsRight, SkipsRight
<1>5. search' \in Search /\ removed' \in SUBSET Item /\ selectedItems' \in SUBSET Item
  BY <1>1, <1>2, <1>3 DEF ItemListTypeOK
<1>6. ASSUME NEW i \in Item, OpenItem(i) PROVE ItemsInv'
  <2> DEFINE followed == IF search.since = "none" THEN itemFilter
                         ELSE [itemFilter EXCEPT !.since = search.since]
  <2>1. /\ i \in Visible /\ shown' = i /\ itemFilter' = followed /\ seen' = {i}
        /\ offered' = {j \in Visible : j >= i}
        /\ origin' = IF followed = itemFilter THEN "list" ELSE "url"
    BY <1>6, Zenon DEF OpenItem
  <2>2. itemFilter \in Key /\ search \in Search
    BY <1>1 DEF ItemListTypeOK
  <2>3. followed \in Key
    BY <2>2, FollowsRight
  <2> HIDE DEF followed
  <2>4. ShownListed'
    <3>1. SUFFICES ASSUME origin' = "list" PROVE ShownListed'
      BY DEF ShownListed
    <3>2. itemFilter' = itemFilter
      BY <2>1, <3>1
    <3>3. Visible' = Visible
      BY <1>2, <1>3, <3>2 DEF Visible, Listed
    <3>4. i # EndOfList /\ i \in Int /\ Visible \subseteq Int
      BY ItemNumbers DEF Visible, Listed
    <3>5. \A j \in offered' : j \in Visible' /\ (j <= shown' => j \in seen')
      BY <2>1, <3>3, <3>4
    <3>6. shown' # EndOfList /\ shown' \in Visible' /\ offered' \subseteq Visible'
      BY <2>1, <3>3, <3>4, <3>5
    <3>7. QED
      BY <3>5, <3>6 DEF ShownListed, IsEndOfList
  <2>5. /\ shown' \in Item \cup {Closed, EndOfList} /\ seen' \in SUBSET Item
        /\ offered' \in SUBSET Item /\ origin' \in {"list", "url"}
    BY <2>1 DEF Visible, Listed
  <2>6. QED
    BY <1>2, <1>4, <1>5, <2>1, <2>3, <2>4, <2>5, PageStepStays
<1>7. CASE Close
  <2>1. shown' = Closed /\ UNCHANGED <<itemFilter, seen, offered, origin>>
    BY <1>7 DEF Close, settings, dialogStory
  <2>2. ShownListed'
    BY <2>1, ClosedListed
  <2>3. /\ shown' \in Item \cup {Closed, EndOfList} /\ seen' \in SUBSET Item
        /\ offered' \in SUBSET Item /\ origin' \in {"list", "url"} /\ itemFilter' \in Key
    BY <1>1, <2>1 DEF ItemsTypeOK, ItemListTypeOK
  <2>4. QED
    BY <1>2, <1>4, <1>5, <2>2, <2>3, PageStepStays
<1>8. QED
  BY <1>6, <1>7

(* Skips and their timers.                                                 *)
LEMMA SkipsStay ==
  ASSUME ItemsInv, KeySkip \/ SwipeUp \/ SkipTimer \/ RecoveryTimer PROVE ItemsInv'
<1>1. ItemsTypeOK /\ ItemListTypeOK
  BY DEF ItemsInv, ItemsTypeOK
<1>2. UNCHANGED <<backend, queries, settings, listPage, updates, history, itemCache, offered,
                  origin>>
  BY DEF KeySkip, SwipeUp, SkipTimer, RecoveryTimer, dialogStory
<1>3. UNCHANGED <<rows, itemFilter, search, removed, selectedItems>>
  BY <1>2 DEF queries, settings, listPage
<1>4. itemActs' \in 0 .. MaxItemActs
  BY <1>1, ItemActsRight DEF KeySkip, SwipeUp, SkipTimer, RecoveryTimer, ItemListTypeOK
<1>5. Visible' = Visible
  BY <1>3 DEF Visible, Listed
<1>6. skip \in SkipRecord
  BY <1>1 DEF ItemsTypeOK
<1>7. skip' \in SkipRecord
  <2>1. CASE KeySkip
    BY <1>6, <2>1, SkipsRight DEF KeySkip, SkipNext, Navigate
  <2>2. CASE SwipeUp
    BY <2>2, SkipsRight DEF SwipeUp, CanNext
  <2>3. CASE SkipTimer
    BY <1>6, <2>3, SkipsRight DEF SkipTimer
  <2>4. CASE RecoveryTimer
    BY <1>6, <2>4, SkipsRight DEF RecoveryTimer
  <2>5. QED
    BY <2>1, <2>2, <2>3, <2>4
<1>8. \/ UNCHANGED <<shown, seen>>
      \/ /\ CanNext /\ shown' = NextItem
         /\ seen' = IF shown' \in Item THEN seen \cup {shown'} ELSE seen
  <2>1. CASE KeySkip
    BY <2>1 DEF KeySkip, SkipNext, Navigate
  <2>2. CASE SwipeUp \/ RecoveryTimer
    BY <2>2 DEF SwipeUp, RecoveryTimer, dialogStory
  <2>3. CASE SkipTimer
    <3>1. CASE CanNext
      <4>1. shown' = NextItem /\ seen' = seen \cup ({NextItem} \cap Item)
        BY <2>3, <3>1 DEF SkipTimer
      <4>2. seen' = IF shown' \in Item THEN seen \cup {shown'} ELSE seen
        BY <4>1
      <4>3. QED
        BY <3>1, <4>1, <4>2
    <3>2. CASE ~CanNext
      BY <2>3, <3>2 DEF SkipTimer
    <3>3. QED
      BY <3>1, <3>2
  <2>4. QED
    BY <2>1, <2>2, <2>3
<1>9. /\ ShownListed' /\ seen' \in SUBSET Item
      /\ shown' \in Item \cup {Closed, EndOfList}
  <2>1. CASE UNCHANGED <<shown, seen>>
    BY <1>1, <1>2, <1>5, <2>1, ListedStays DEF ItemsInv, ItemsTypeOK
  <2>2. CASE /\ CanNext /\ shown' = NextItem
             /\ seen' = IF shown' \in Item THEN seen \cup {shown'} ELSE seen
    BY <1>1, <1>2, <1>5, <2>2, MovesListed DEF ItemsInv
  <2>3. QED
    BY <1>8, <2>1, <2>2
<1>10. /\ itemFilter' \in Key /\ search' \in Search /\ removed' \in SUBSET Item
       /\ selectedItems' \in SUBSET Item /\ offered' \in SUBSET Item /\ origin' \in {"list", "url"}
  BY <1>1, <1>2, <1>3 DEF ItemsTypeOK, ItemListTypeOK
<1>11. UNCHANGED <<backend, queries, updates, history, itemCache>>
  BY <1>2
<1>12. QED
  BY <1>4, <1>7, <1>9, <1>10, <1>11, PageStepStays

(* The page is loaded again.                                               *)
LEMMA ReloadStays == ItemsInv /\ Reload => ItemsInv'
<1>1. SUFFICES ASSUME ItemsInv, Reload PROVE ItemsInv'
  OBVIOUS
<1>2. ItemsTypeOK /\ ItemListTypeOK
  BY <1>1 DEF ItemsInv, ItemsTypeOK
<1>3. /\ rows' = [k \in Key |-> Empty] /\ fetched' = [k \in Key |-> -1] /\ reads' = Empty
      /\ unsynced' = {} /\ itemCache' = Empty
      /\ itemFilter' = Followed([search EXCEPT !.since = "none"], search,
                                [showRead |-> FALSE, since |-> "30d"])
      /\ removed' = {} /\ selectedItems' = {}
      /\ updates' = [o \in Update |-> FreeUpdate] /\ skip' = NoSkip
      /\ gaps' = [k \in Key |-> {}] /\ disturbed' = {}
      /\ seen' = {shown} \cap Item /\ offered' = {} /\ origin' = "url"
      /\ UNCHANGED <<here, itemReads, search, shown>>
  BY <1>1, Zenon DEF Reload
<1>4. itemActs' \in 0 .. MaxItemActs
  BY <1>1, <1>2, ItemActsRight DEF Reload
<1>5. itemFilter' \in Key
  <2>1. [showRead |-> FALSE, since |-> "30d"] \in Key
    BY DEF Key, Since
  <2>2. search \in Search /\ [search EXCEPT !.since = "none"] \in Search
    BY <1>2, FollowsRight DEF ItemListTypeOK
  <2>3. QED
    BY <1>3, <2>1, <2>2, FollowsRight
<1>6. Empty \in [Item -> Entry]
  BY DEF Empty, Entry
<1>7. /\ rows' \in [Key -> [Item -> Entry]] /\ fetched' \in [Key -> -1 .. 2]
      /\ reads' \in [Item -> Entry] /\ itemCache' \in [Item -> Entry]
      /\ gaps' \in [Key -> SUBSET Item]
  BY <1>3, <1>6
<1>8. updates' \in [Update -> UpdateRecord] /\ skip' \in SkipRecord
  BY <1>3, UpdateFields, SkipsRight
<1>9. ItemsTypeOK'
  BY <1>2, <1>3, <1>4, <1>5, <1>7, <1>8 DEF ItemsTypeOK, ItemListTypeOK
<1>10. ShownListed'
  BY <1>3 DEF ShownListed
<1>11. CopyExact'
  BY <1>3 DEF CopyExact, EntryExact, Exact, RowsExact, Empty
<1>12. BackExact'
  BY <1>3, UpdateFields DEF BackExact, InFlight
<1>13. ListComplete'
  <2>1. \A k \in Key, i \in Item : fetched'[k] = -1 /\ ~(fetched'[k] >= Created(i))
    BY <1>3 DEF Created
  <2>2. here' \subseteq Item
    BY <1>2, <1>3 DEF ItemListTypeOK
  <2>3. QED
    BY <2>1, <2>2 DEF ListComplete, Created
<1>14. QED
  BY <1>9, <1>10, <1>11, <1>12, <1>13 DEF ItemsInv

(* The item is fetched, or one ahead of it.                                *)
LEMMA FetchesStay ==
  ASSUME ItemsInv, NEW j \in Item, FetchItem(j) PROVE ItemsInv'
<1>1. ItemsTypeOK /\ ItemListTypeOK
  BY DEF ItemsInv, ItemsTypeOK
<1>2. /\ itemCache' = [itemCache EXCEPT ![j] = itemReads[j]]
      /\ UNCHANGED <<here, itemReads, unsynced, rows, fetched, reads, itemFilter, search, removed,
                     selectedItems, updates, itemActs, shown, gaps, disturbed>>
      /\ UNCHANGED <<skip, seen, offered, origin>>
  BY DEF FetchItem, backend, queries, settings, listPage, history, dialogStory
<1>3. itemCache' \in [Item -> Entry]
  BY <1>1, <1>2 DEF ItemsTypeOK, ItemListTypeOK, Entry
<1>4. ItemsTypeOK'
  BY <1>1, <1>2, <1>3 DEF ItemsTypeOK, ItemListTypeOK
<1>5. CopyExact' /\ BackExact'
  <2>1. \A i \in Item : Exact(itemCache[i], i) => Exact(itemCache'[i], i)
    BY <1>1, <1>2 DEF Exact, ItemsTypeOK
  <2>2. \A k \in Key, i \in Item : Exact(rows[k][i], i) => Exact(rows'[k][i], i)
    BY <1>2
  <2>3. QED
    BY <1>1, <1>2, <2>1, <2>2, CopiesFresher DEF ItemsInv
<1>6. ShownListed'
  BY <1>2, ListedStays DEF ItemsInv, Visible, Listed
<1>7. ListComplete'
  BY <1>2, CompleteStays DEF ItemsInv
<1>8. QED
  BY <1>4, <1>5, <1>6, <1>7 DEF ItemsInv

(* An update fails.                                                        *)
LEMMA FailuresStay ==
  ASSUME ItemsInv, NEW o \in Update, FailUpdate(o) PROVE ItemsInv'
<1>1. ItemsTypeOK /\ ItemListTypeOK
  BY DEF ItemsInv, ItemsTypeOK
<1> DEFINE u == updates[o]
           astray == u.by = "toggle" /\ {shown} \cap Item # u.ids
<1>2. /\ reads' = [i \in Item |-> IF i \in u.ids THEN u.before[i] ELSE reads[i]]
      /\ itemCache' = [i \in Item |->
           IF u.by = "toggle" /\ i = shown /\ itemCache[i] # "none"
           THEN Other(u.to) ELSE itemCache[i]]
      /\ updates' = [updates EXCEPT ![o] = FreeUpdate]
      /\ disturbed' = IF astray THEN disturbed \cup u.ids \cup ({shown} \cap Item)
                      ELSE IF u.overlapped THEN disturbed \cup u.ids
                      ELSE disturbed
      /\ UNCHANGED <<backend, rows, fetched, settings, listPage, itemActs, shown, gaps,
                     skip, dialogStory>>
  BY Zenon DEF FailUpdate, RolledBack
<1>3. /\ UNCHANGED <<here, itemReads, unsynced, rows, fetched, itemFilter, search, removed,
                     selectedItems, itemActs, shown, gaps>>
      /\ UNCHANGED <<skip, seen, offered, origin>>
  BY <1>2 DEF backend, settings, listPage, dialogStory
<1>4. u.ids \subseteq Item /\ u.before \in [Item -> Entry]
  BY <1>1 DEF ItemListTypeOK, UpdateRecord
<1>5. disturbed' \in SUBSET Item
  <2> HIDE DEF u, astray
  <2>1. QED
    BY <1>1, <1>2, <1>4 DEF ItemListTypeOK
<1>6. reads' \in [Item -> Entry] /\ updates' \in [Update -> UpdateRecord]
  BY <1>1, <1>2, <1>4, UpdateFields DEF ItemListTypeOK
<1>7. itemCache' \in [Item -> Entry]
  BY <1>1, <1>2 DEF ItemsTypeOK, Other, Entry, State
<1>8. ItemsTypeOK'
  BY <1>1, <1>3, <1>5, <1>6, <1>7 DEF ItemsTypeOK, ItemListTypeOK
<1>9. CopyExact' /\ BackExact'
  BY <1>1, FailuresExact DEF ItemsInv
<1>10. ShownListed'
  BY <1>3, ListedStays DEF ItemsInv, Visible, Listed
<1>11. ListComplete'
  BY <1>3, CompleteStays DEF ItemsInv
<1>12. QED
  BY <1>8, <1>9, <1>10, <1>11 DEF ItemsInv

-----------------------------------------------------------------------------
(* The theorems of the list and the dialog.                                *)

(* The list has just been opened.                                          *)
LEMMA ItemsStart == ItemsInit => ItemsInv
<1>1. SUFFICES ASSUME ItemsInit PROVE ItemsInv
  OBVIOUS
<1>2. /\ here = Item \ Late /\ itemReads = [i \in Item |-> "unread"] /\ unsynced = {}
      /\ rows = [k \in Key |-> Empty] /\ fetched = [k \in Key |-> -1] /\ reads = Empty
      /\ itemFilter = [showRead |-> FALSE, since |-> "30d"]
      /\ search = [tag |-> "none", since |-> "30d"]
      /\ removed = {} /\ selectedItems = {}
      /\ updates = [o \in Update |-> FreeUpdate] /\ itemActs = 0
      /\ gaps = [k \in Key |-> {}] /\ disturbed = {} /\ shown = Closed
      /\ itemCache = Empty /\ skip = NoSkip /\ seen = {} /\ offered = {} /\ origin = "list"
  BY <1>1, Zenon DEF ItemsInit, ItemListInit
<1>3. Empty \in [Item -> Entry]
  BY DEF Empty, Entry
<1>4. /\ rows \in [Key -> [Item -> Entry]] /\ fetched \in [Key -> -1 .. 2]
      /\ reads \in [Item -> Entry] /\ itemCache \in [Item -> Entry]
      /\ gaps \in [Key -> SUBSET Item] /\ itemReads \in [Item -> State]
  BY <1>2, <1>3 DEF State
<1>5. itemFilter \in Key /\ search \in Search /\ itemActs \in 0 .. MaxItemActs
  BY <1>2, ItemAssumption DEF Key, Search, Since
<1>6. updates \in [Update -> UpdateRecord] /\ skip \in SkipRecord
  BY <1>2, UpdateFields, SkipsRight
<1>7. ItemsTypeOK
  BY <1>2, <1>4, <1>5, <1>6 DEF ItemsTypeOK, ItemListTypeOK
<1>8. ShownListed
  BY <1>2 DEF ShownListed, Open
<1>9. CopyExact
  BY <1>2 DEF CopyExact, EntryExact, Exact, RowsExact, Empty
<1>10. BackExact
  BY <1>2, UpdateFields DEF BackExact, InFlight
<1>11. ListComplete
  <2>1. \A k \in Key, i \in Item : fetched[k] = -1 /\ ~(fetched[k] >= Created(i))
    BY <1>2 DEF Created
  <2>2. QED
    BY <1>2, <2>1 DEF ListComplete
<1>12. QED
  BY <1>7, <1>8, <1>9, <1>10, <1>11 DEF ItemsInv

LEMMA ItemsStay == ItemsInv /\ [ItemsNext]_itemVars => ItemsInv'
<1>1. SUFFICES ASSUME ItemsInv, [ItemsNext]_itemVars PROVE ItemsInv'
  OBVIOUS
<1>2. CASE UNCHANGED itemVars
  <2>1. /\ UNCHANGED <<backend, queries, settings, listPage, updates, itemActs, shown, history>>
        /\ UNCHANGED <<itemCache, skip, seen, offered, origin>>
    BY <1>2 DEF itemVars, detail, dialogStory
  <2>2. UNCHANGED <<rows, itemFilter, search, removed, selectedItems>>
    BY <2>1 DEF queries, settings, listPage
  <2>3. ShownListed'
    BY <1>1, <2>1, <2>2, ListedStays DEF ItemsInv, Visible, Listed
  <2>4. /\ itemActs' \in 0 .. MaxItemActs /\ itemFilter' \in Key /\ search' \in Search
        /\ removed' \in SUBSET Item /\ selectedItems' \in SUBSET Item
        /\ shown' \in Item \cup {Closed, EndOfList} /\ skip' \in SkipRecord
        /\ seen' \in SUBSET Item /\ offered' \in SUBSET Item /\ origin' \in {"list", "url"}
    BY <1>1, <2>1, <2>2 DEF ItemsInv, ItemsTypeOK, ItemListTypeOK
  <2>5. UNCHANGED <<backend, queries, updates, history, itemCache>>
    BY <2>1
  <2>6. QED
    BY <1>1, <2>3, <2>4, <2>5, PageStepStays
<1>3. CASE DetailStep
  <2>1. ASSUME NEW i \in Item, OpenItem(i) \/ FetchItem(i) PROVE ItemsInv'
    BY <1>1, <2>1, OpensStay, FetchesStay
  <2>2. CASE Close
    BY <1>1, <2>2, OpensStay
  <2>3. CASE Reload
    BY <1>1, <2>3, ReloadStays
  <2>4. CASE SkipTimer \/ RecoveryTimer
    BY <1>1, <2>4, SkipsStay
  <2>5. ASSUME NEW o \in Update, Keys(o) \/ Swipes(o) \/ FailUpdate(o) PROVE ItemsInv'
    <3>1. HandleNext(o) \/ HandlePrev(o) \/ KeySkip \/ ToggleRead(o) \/ SwipeUp \/ FailUpdate(o)
      BY <2>5, Zenon DEF Keys, Swipes
    <3>2. QED
      BY <1>1, <3>1, LeavesStay, SkipsStay, ToggleStays, FailuresStay
  <2>6. QED
    BY <1>3, <2>1, <2>2, <2>3, <2>4, <2>5, Zenon DEF DetailStep
<1>4. ASSUME ItemListStep, UNCHANGED <<detail, dialogStory>> PROVE ItemsInv'
  <2>1. CASE ControlStep
    BY <1>1, <1>4, <2>1, ControlsStay
  <2>2. CASE ListItems
    BY <1>1, <1>4, <2>2, ListItemsStays
  <2>3. CASE Poll
    BY <1>1, <1>4, <2>3, PollStays
  <2>4. ASSUME NEW k \in Key, Collect(k) PROVE ItemsInv'
    BY <1>1, <1>4, <2>4, CollectStays
  <2>5. ASSUME NEW i \in Item, Arrive(i) PROVE ItemsInv'
    BY <1>1, <1>4, <2>5, ArriveStays
  <2>6. ASSUME NEW i \in Item, NEW v \in State, OtherUpdate(i, v) PROVE ItemsInv'
    BY <1>1, <1>4, <2>6, OtherStays
  <2>7. ASSUME NEW o \in Update, Commit(o) PROVE ItemsInv'
    BY <1>1, <1>4, <2>7, CommitStays
  <2>8. ASSUME NEW o \in Update, BulkMarkAsRead(o) \/ Acknowledge(o) PROVE ItemsInv'
    BY <1>1, <1>4, <2>8, WaitsStay
  <2>9. ASSUME NEW o \in Update, BulkSend(o) \/ \E i \in Item : MiddleClick(o, i) PROVE ItemsInv'
    BY <1>1, <1>4, <2>9, RowSendsStay
  <2>10. CASE ListItemsLost
    BY <1>1, <1>4, <2>10, ListItemsLostStays
  <2>11. QED
    BY <1>4, <2>1, <2>2, <2>3, <2>4, <2>5, <2>6, <2>7, <2>8, <2>9, <2>10, Zenon
       DEF ItemListStep, ControlStep
<1>5. QED
  BY <1>1, <1>2, <1>3, <1>4 DEF ItemsNext

LEMMA AlwaysItems == ItemsSpec => []ItemsInv
<1>1. QED
  BY ItemsStart, ItemsStay, PTL DEF ItemsSpec

(* The variables of the list and the dialog keep their types.              *)
THEOREM ItemTypesCorrect == ItemsSpec => []ItemsTypeOK
<1>1. ItemsInv => ItemsTypeOK
  BY DEF ItemsInv
<1>2. QED
  BY <1>1, AlwaysItems, PTL

(* What the list and the dialog show of an item's read state is what the   *)
(* server has, once its updates are over and polled.                       *)
THEOREM CopiesAgree == ItemsSpec => []ReadsAgree
<1>1. ASSUME ItemsInv PROVE ReadsAgree
  <2>1. SUFFICES ASSUME NEW i \in Item \ (disturbed \cup unsynced),
                        \A o \in Update : InFlight(o) => i \notin updates[o].ids
                 PROVE  /\ i \in Listed =>
                             /\ RowTitle(i) = IF itemReads[i] = "read" THEN "grey" ELSE "underlined"
                             /\ RowBadge(i) = {b \in {"Read"} : itemReads[i] = "read"}
                        /\ shown = i /\ ToggleButton # {} =>
                             \A b \in ToggleButton : b.pressed = (itemReads[i] = "read")
    BY DEF ReadsAgree
  <2>2. EntryExact(reads[i], i)
    BY <1>1, <2>1 DEF ItemsInv, CopyExact, SentFor, InFlight
  <2>3. itemFilter \in Key
    BY <1>1 DEF ItemsInv, ItemsTypeOK, ItemListTypeOK
  <2>4. itemReads[i] # "none"
    BY <1>1 DEF ItemsInv, ItemsTypeOK, ItemListTypeOK, State
  <2>5. ASSUME i \in Listed PROVE ReadState(i) = itemReads[i]
    BY <2>2, <2>3, <2>4, <2>5 DEF ReadState, Listed, EntryExact, RowsExact, Exact
  <2>6. ASSUME i \in Listed
        PROVE  /\ RowTitle(i) = IF itemReads[i] = "read" THEN "grey" ELSE "underlined"
               /\ RowBadge(i) = {b \in {"Read"} : itemReads[i] = "read"}
    BY <2>5, <2>6 DEF RowTitle, RowBadge
  <2>7. ASSUME shown = i, ToggleButton # {}, NEW b \in ToggleButton
        PROVE  b.pressed = (itemReads[i] = "read")
    <3>1. itemCache[i] # "none" /\ b.pressed = (ItemReadState = "read")
      <4>1. Panel = "item"
        BY <2>7 DEF ToggleButton
      <4>2. itemCache[i] # "none"
        BY <2>7, <4>1 DEF Panel
      <4>3. b = [pressed |-> ItemReadState = "read",
                 title |-> IF ItemReadState = "read" THEN "Mark as Unread" ELSE "Mark as Read"]
        BY <2>7, <4>1, Zenon DEF ToggleButton
      <4>4. b.pressed = (ItemReadState = "read")
        BY <4>3, Zenon
      <4>5. QED
        BY <4>2, <4>4
    <3>2. ItemReadState = itemReads[i]
      BY <2>2, <2>4, <2>7, <3>1 DEF ItemReadState, EntryExact, Exact
    <3>3. QED
      BY <3>1, <3>2
  <2>8. QED
    BY <2>6, <2>7
<1>2. QED
  BY <1>1, AlwaysItems, PTL

(* Nothing unread is missing from the list.                                *)
THEOREM NothingUnlisted == ItemsSpec => []ListComplete
<1>1. ItemsInv => ListComplete
  BY DEF ItemsInv
<1>2. QED
  BY <1>1, AlwaysItems, PTL

(* An item opened from the list keeps its neighbours.                      *)
THEOREM AlwaysWayOn == ItemsSpec => []NeverStuck
<1>1. ASSUME ItemsInv, shown \in Item, origin = "list" PROVE {"left", "up"} \subseteq Ways
  <2>1. shown # Closed /\ shown \in Visible
    BY <1>1, ItemNumbers DEF ItemsInv, ShownListed, Open
  <2>2. InList
    BY <1>1, <2>1 DEF InList
  <2>3. NextItem # Closed
    <3>1. CASE After(shown) = {}
      BY <2>2, <3>1 DEF NextItem, Closed, EndOfList
    <3>2. CASE After(shown) # {}
      <4>1. After(shown) \subseteq Item
        BY DEF After, Visible, Listed
      <4>2. After(shown) \in SUBSET Int /\ IsFiniteSet(After(shown))
        BY <4>1, ItemNumbers
      <4>3. NextItem \in Item
        BY <2>2, <3>2, <4>1, <4>2, MinIsFirst DEF NextItem
      <4>4. QED
        BY <4>3, ItemNumbers
    <3>3. QED
      BY <3>1, <3>2
  <2>4. CanNext
    BY <1>1, <2>3 DEF CanNext
  <2>5. QED
    BY <2>4 DEF Ways
<1>2. ItemsInv => NeverStuck
  BY <1>1 DEF NeverStuck
<1>3. QED
  BY <1>2, AlwaysItems, PTL

(* Whoever reaches the end has seen everything that was listed behind the  *)
(* item they began with.                                                   *)
THEOREM EndSeen == ItemsSpec => []EndMeansSeen
<1>1. ItemsInv => EndMeansSeen
  BY DEF ItemsInv, ShownListed, EndMeansSeen, IsEndOfList, Open, EndOfList, Closed
<1>2. QED
  BY <1>1, AlwaysItems, PTL

-----------------------------------------------------------------------------
(* The widgets.                                                            *)

ShellTyped ==
  modal \in {"closed", "mounted", "modal"} /\ refocus \in BOOLEAN /\ menu \in BOOLEAN

FocusTyped ==
  /\ index \in -1 .. 1 /\ focus \in -1 .. 3 + (IF menu THEN 2 ELSE 0)

TrayTyped ==
  /\ shows \in 0 .. MaxToasts /\ timers \subseteq 1 .. MaxToasts
  /\ toasts \subseteq [id : 1 .. MaxToasts, type : {"success", "error"}]

ChipsTyped ==
  /\ width \in {1, Width} /\ scroll \in 0 .. width - 1
  /\ arrows \in [left : BOOLEAN, right : BOOLEAN]

Icon == {"copy", "check"}
CopyTyped == copy \in [icon : Icon, back : Seq(Icon)] /\ Len(copy.back) <= 2

OthersTyped == block \in {"idle", "sent"} /\ more \in BOOLEAN

WidgetsTyped == ShellTyped /\ FocusTyped /\ TrayTyped /\ ChipsTyped /\ CopyTyped /\ OthersTyped

(* The dialog and the menu.                                                *)
LEMMA ShellStays == ShellTyped /\ Parts!Next => ShellTyped'
<1> SUFFICES ASSUME ShellTyped, Parts!Next PROVE ShellTyped'
  OBVIOUS
<1>1. CASE \/ Parts!OpenDialog \/ Parts!ShowModal \/ Parts!FocusPanel \/ Parts!Cancel
           \/ Parts!BackdropClick \/ Parts!ItemChanges \/ Parts!Tab
  <2>1. /\ modal' \in {modal, "closed", "mounted", "modal"}
        /\ refocus' \in {refocus, TRUE, FALSE} /\ menu' \in {menu, FALSE}
    BY <1>1, Zenon DEF Parts!OpenDialog, Parts!ShowModal, Parts!FocusPanel, Parts!Cancel,
       Parts!BackdropClick, Parts!ItemChanges, Parts!Tab, Parts!Closed, Parts!kebab
  <2> QED
    BY <2>1, Zenon DEF ShellTyped
<1>2. CASE \/ Parts!Toggle \/ Parts!PressDots \/ Parts!Arrow \/ Parts!ClickOutside
           \/ \E k \in 1 .. Parts!Actions : Parts!Choose(k)
  <2>1. /\ modal' \in {modal, "closed"} /\ refocus' = refocus /\ menu' \in {menu, ~menu, FALSE}
    BY <1>2, Zenon DEF Parts!Toggle, Parts!PressDots, Parts!Arrow, Parts!ClickOutside,
       Parts!Choose, Parts!Closed, Parts!shell
  <2> QED
    BY <2>1, Zenon DEF ShellTyped
<1>3. CASE \/ Parts!Blocked \/ Parts!More \/ Parts!MoreCloses \/ Parts!ChipsLoad
           \/ Parts!CopyUrl \/ Parts!CopyTimer
           \/ \E id \in 1 .. MaxToasts : Parts!Expire(id) \/ Parts!Dismiss(id)
           \/ \E at \in 0 .. Width - 1 : Parts!Scroll(at)
  <2>1. UNCHANGED <<modal, refocus, menu>>
    BY <1>3, Zenon DEF Parts!Blocked, Parts!More, Parts!MoreCloses, Parts!ChipsLoad,
       Parts!CopyUrl, Parts!CopyTimer, Parts!Expire, Parts!Dismiss, Parts!Scroll,
       Parts!shell, Parts!kebab
  <2> QED
    BY <2>1, Zenon DEF ShellTyped
<1> QED
  BY <1>1, <1>2, <1>3, Zenon DEF Parts!Next

(* The focus is on something that is there: whatever closes the menu takes *)
(* it away from there.                                                     *)
LEMMA FocusStays == FocusTyped /\ Parts!Next => FocusTyped'
<1> SUFFICES ASSUME FocusTyped, Parts!Next PROVE FocusTyped'
  OBVIOUS
<1> USE DEF Parts!shell, Parts!kebab, Parts!Page, Parts!Panel, Parts!Dots, Parts!Controls,
        Parts!Actions, Parts!Focusables
<1>1. CASE UNCHANGED <<focus, menu, index>>
  BY <1>1, Zenon DEF FocusTyped
<1>2. CASE Parts!OpenDialog
  BY <1>2 DEF Parts!OpenDialog, FocusTyped
<1>3. CASE Parts!ShowModal
  BY <1>3 DEF Parts!ShowModal, FocusTyped
<1>4. CASE Parts!FocusPanel
  BY <1>4 DEF Parts!FocusPanel, FocusTyped
<1>5. CASE Parts!Cancel
  BY <1>5 DEF Parts!Cancel, Parts!Closed, FocusTyped
<1>6. CASE Parts!BackdropClick
  BY <1>6 DEF Parts!BackdropClick, Parts!Closed, FocusTyped
<1>7. CASE Parts!ItemChanges
  BY <1>7 DEF Parts!ItemChanges, FocusTyped
<1>8. CASE Parts!Tab
  BY <1>8 DEF Parts!Tab, Parts!TabTo, FocusTyped
<1>9. CASE Parts!Toggle
  BY <1>9 DEF Parts!Toggle, FocusTyped
<1>10. CASE Parts!PressDots
  BY <1>10 DEF Parts!PressDots, FocusTyped
<1>11. CASE Parts!Arrow
  <2>1. PICK key \in {"ArrowDown", "ArrowUp", "Home", "End"} : index' = Parts!ArrowTo(key)
    BY <1>11, Zenon DEF Parts!Arrow
  <2>2. index' \in {(index + 1) % 2, (index - 1 + 2) % 2, 0, 1}
    BY <2>1 DEF Parts!ArrowTo
  <2>3. index' \in 0 .. 1
    BY <2>2 DEF FocusTyped
  <2> QED
    BY <1>11, <2>3 DEF Parts!Arrow, FocusTyped
<1>12. CASE Parts!ClickOutside
  BY <1>12 DEF Parts!ClickOutside, FocusTyped
<1>13. ASSUME NEW k \in 1 .. 2, Parts!Choose(k) PROVE FocusTyped'
  <2>1. menu' = FALSE /\ focus' = -1 /\ index' \in {index, -1}
    BY <1>13, Zenon DEF Parts!Choose, Parts!Closed
  <2> QED
    BY <2>1 DEF FocusTyped
<1>14. CASE \/ Parts!Blocked \/ Parts!More \/ Parts!MoreCloses \/ Parts!ChipsLoad
            \/ Parts!CopyUrl \/ Parts!CopyTimer
            \/ \E id \in 1 .. MaxToasts : Parts!Expire(id) \/ Parts!Dismiss(id)
            \/ \E at \in 0 .. Width - 1 : Parts!Scroll(at)
  <2>1. UNCHANGED <<focus, menu, index>>
    BY <1>14, Zenon DEF Parts!Blocked, Parts!More, Parts!MoreCloses, Parts!ChipsLoad,
       Parts!CopyUrl, Parts!CopyTimer, Parts!Expire, Parts!Dismiss, Parts!Scroll
  <2> QED
    BY <1>1, <2>1
<1> QED
  BY <1>2, <1>3, <1>4, <1>5, <1>6, <1>7, <1>8, <1>9, <1>10, <1>11, <1>12, <1>13, <1>14, Zenon
     DEF Parts!Next

(* Toasts and what closes them.                                            *)
LEMMA TrayStays == TrayTyped /\ Parts!Next => TrayTyped'
<1> SUFFICES ASSUME TrayTyped, Parts!Next PROVE TrayTyped'
  OBVIOUS
<1> USE DEF Parts!tray
<1>1. CASE Parts!Blocked
  <2>1. PICK type \in {"success", "error"} : Parts!Show(type)
    BY <1>1, Zenon DEF Parts!Blocked
  <2>2. shows + 1 \in 1 .. MaxToasts
    BY <2>1, WidgetAssumption DEF Parts!Show, TrayTyped
  <2> QED
    BY <2>1, <2>2, WidgetAssumption DEF Parts!Show, TrayTyped
<1>2. CASE Parts!ItemChanges
  BY <1>2 DEF Parts!ItemChanges, TrayTyped
<1>3. CASE \E id \in 1 .. MaxToasts : Parts!Expire(id) \/ Parts!Dismiss(id)
  BY <1>3 DEF Parts!Expire, Parts!Dismiss, Parts!Without, TrayTyped
<1>4. CASE \/ Parts!OpenDialog \/ Parts!ShowModal \/ Parts!FocusPanel \/ Parts!Cancel
           \/ Parts!BackdropClick \/ Parts!Tab \/ Parts!Toggle \/ Parts!PressDots
           \/ Parts!Arrow \/ Parts!ClickOutside \/ Parts!More \/ Parts!MoreCloses
           \/ Parts!ChipsLoad \/ Parts!CopyUrl \/ Parts!CopyTimer
           \/ (\E k \in 1 .. Parts!Actions : Parts!Choose(k))
           \/ \E at \in 0 .. Width - 1 : Parts!Scroll(at)
  <2>1. UNCHANGED <<toasts, timers, shows>>
    BY <1>4, Zenon DEF Parts!OpenDialog, Parts!ShowModal, Parts!FocusPanel, Parts!Cancel,
       Parts!BackdropClick, Parts!Tab, Parts!Toggle, Parts!PressDots, Parts!Arrow,
       Parts!ClickOutside, Parts!More, Parts!MoreCloses, Parts!ChipsLoad, Parts!CopyUrl,
       Parts!CopyTimer, Parts!Choose, Parts!Scroll
  <2> QED
    BY <2>1, Zenon DEF TrayTyped
<1> QED
  BY <1>1, <1>2, <1>3, <1>4, Zenon DEF Parts!Next

(* The chips.                                                              *)
LEMMA ChipsStay == ChipsTyped /\ Parts!Next => ChipsTyped'
<1> SUFFICES ASSUME ChipsTyped, Parts!Next PROVE ChipsTyped'
  OBVIOUS
<1> USE DEF Parts!chips
<1>1. CASE Parts!ChipsLoad
  BY <1>1, WidgetAssumption DEF Parts!ChipsLoad, ChipsTyped
<1>2. ASSUME NEW at \in 0 .. Width - 1, Parts!Scroll(at) PROVE ChipsTyped'
  <2>1. scroll' = at /\ width' = width /\ at < width /\ arrows' = Parts!Arrows(at)
    BY <1>2, Zenon DEF Parts!Scroll
  <2>2. Parts!Arrows(at) \in [left : BOOLEAN, right : BOOLEAN]
    BY DEF Parts!Arrows
  <2> QED
    BY <2>1, <2>2, WidgetAssumption DEF ChipsTyped
<1>3. CASE \/ Parts!OpenDialog \/ Parts!ShowModal \/ Parts!FocusPanel \/ Parts!Cancel
           \/ Parts!BackdropClick \/ Parts!ItemChanges \/ Parts!Tab \/ Parts!Toggle
           \/ Parts!PressDots \/ Parts!Arrow \/ Parts!ClickOutside \/ Parts!Blocked
           \/ Parts!More \/ Parts!MoreCloses \/ Parts!CopyUrl \/ Parts!CopyTimer
           \/ (\E k \in 1 .. Parts!Actions : Parts!Choose(k))
           \/ \E id \in 1 .. MaxToasts : Parts!Expire(id) \/ Parts!Dismiss(id)
  <2>1. UNCHANGED <<width, scroll, arrows>>
    BY <1>3, Zenon DEF Parts!OpenDialog, Parts!ShowModal, Parts!FocusPanel, Parts!Cancel,
       Parts!BackdropClick, Parts!ItemChanges, Parts!Tab, Parts!Toggle, Parts!PressDots,
       Parts!Arrow, Parts!ClickOutside, Parts!Blocked, Parts!More, Parts!MoreCloses,
       Parts!CopyUrl, Parts!CopyTimer, Parts!Choose, Parts!Expire, Parts!Dismiss
  <2> QED
    BY <2>1, Zenon DEF ChipsTyped
<1> QED
  BY <1>1, <1>2, <1>3, Zenon DEF Parts!Next

(* The button that copies, and the menus of block rules and of the list.   *)
LEMMA CopyStays == CopyTyped /\ OthersTyped /\ Parts!Next => CopyTyped' /\ OthersTyped'
<1> SUFFICES ASSUME CopyTyped, OthersTyped, Parts!Next PROVE CopyTyped' /\ OthersTyped'
  OBVIOUS
<1>1. CASE Parts!CopyUrl
  <2> DEFINE c == [icon |-> "check", back |-> Append(copy.back, copy.icon)]
  <2>1. copy' = c /\ Len(copy.back) < 2 /\ UNCHANGED <<block, more>>
    BY <1>1, Zenon DEF Parts!CopyUrl
  <2>2. copy.icon \in Icon /\ copy.back \in Seq(Icon)
    BY DEF CopyTyped
  <2>3. c \in [icon : Icon, back : Seq(Icon)] /\ Len(c.back) <= 2
    <3>1. "check" \in Icon
      BY DEF Icon
    <3> QED
      BY <2>1, <2>2, <3>1
  <2> HIDE DEF c
  <2> QED
    BY <2>1, <2>3, Zenon DEF CopyTyped, OthersTyped
<1>2. CASE Parts!CopyTimer
  <2> DEFINE c == [icon |-> Head(copy.back), back |-> Tail(copy.back)]
  <2>1. copy' = c /\ copy.back # <<>> /\ UNCHANGED <<block, more>>
    BY <1>2, Zenon DEF Parts!CopyTimer
  <2>2. copy.back \in Seq(Icon) /\ Len(copy.back) <= 2
    BY DEF CopyTyped
  <2>3. c \in [icon : Icon, back : Seq(Icon)] /\ Len(c.back) <= 2
    BY <2>1, <2>2
  <2> HIDE DEF c
  <2> QED
    BY <2>1, <2>3, Zenon DEF CopyTyped, OthersTyped
<1>3. CASE \/ Parts!OpenDialog \/ Parts!More \/ Parts!MoreCloses \/ Parts!Blocked
           \/ \E k \in 1 .. Parts!Actions : Parts!Choose(k)
  <2>1. copy' = copy
    BY <1>3, Zenon DEF Parts!OpenDialog, Parts!More, Parts!MoreCloses, Parts!Blocked,
       Parts!Choose
  <2>2. block' \in {block, "idle", "sent"} /\ more' \in {more, TRUE, FALSE, ~more}
    BY <1>3, Zenon DEF Parts!OpenDialog, Parts!More, Parts!MoreCloses, Parts!Blocked,
       Parts!Choose
  <2> QED
    BY <2>1, <2>2, Zenon DEF CopyTyped, OthersTyped
<1>4. CASE \/ Parts!ShowModal \/ Parts!FocusPanel \/ Parts!Cancel
           \/ Parts!BackdropClick \/ Parts!ItemChanges \/ Parts!Tab \/ Parts!Toggle
           \/ Parts!PressDots \/ Parts!Arrow \/ Parts!ClickOutside \/ Parts!ChipsLoad
           \/ (\E id \in 1 .. MaxToasts : Parts!Expire(id) \/ Parts!Dismiss(id))
           \/ \E at \in 0 .. Width - 1 : Parts!Scroll(at)
  <2>1. UNCHANGED <<copy, block, more>>
    BY <1>4, Zenon DEF Parts!ShowModal, Parts!FocusPanel, Parts!Cancel,
       Parts!BackdropClick, Parts!ItemChanges, Parts!Tab, Parts!Toggle, Parts!PressDots,
       Parts!Arrow, Parts!ClickOutside, Parts!ChipsLoad, Parts!Expire, Parts!Dismiss,
       Parts!Scroll
  <2> QED
    BY <2>1, Zenon DEF CopyTyped, OthersTyped
<1> QED
  BY <1>1, <1>2, <1>3, <1>4, Zenon DEF Parts!Next

(* Initially.                                                              *)
LEMMA WidgetsInit == Parts!Init => WidgetsTyped
<1> SUFFICES ASSUME Parts!Init PROVE WidgetsTyped
  OBVIOUS
<1>0. ShellTyped
  BY Zenon DEF Parts!Init, ShellTyped
<1>1. FocusTyped
  BY DEF Parts!Init, Parts!Page, FocusTyped
<1>2. TrayTyped
  BY WidgetAssumption DEF Parts!Init, TrayTyped
<1>3. ChipsTyped
  BY DEF Parts!Init, Parts!Arrows, ChipsTyped
<1>4. CopyTyped
  BY DEF Parts!Init, CopyTyped, Icon
<1>5. OthersTyped
  BY DEF Parts!Init, OthersTyped
<1> QED
  BY <1>0, <1>1, <1>2, <1>3, <1>4, <1>5 DEF WidgetsTyped

(* The types of the widgets.                                               *)
LEMMA WidgetsAll == WidgetsTyped => Parts!TypeOK
<1> SUFFICES ASSUME WidgetsTyped PROVE Parts!TypeOK
  OBVIOUS
<1>1. focus \in Parts!Page .. Parts!Focusables /\ index \in -1 .. Parts!Actions - 1
  BY DEF WidgetsTyped, FocusTyped, Parts!Page, Parts!Focusables, Parts!Controls, Parts!Actions
<1>2. copy.icon \in {"copy", "check"} /\ Len(copy.back) <= 2
  BY DEF WidgetsTyped, CopyTyped, Icon
<1> QED
  BY <1>1, <1>2, Zenon DEF WidgetsTyped, ShellTyped, TrayTyped, ChipsTyped, OthersTyped,
     Parts!TypeOK
-----------------------------------------------------------------------------
(* The pages together.                                                     *)

(* In the composition each page behaves as it does alone, so that what is  *)
(* proved of each holds there, too.                                        *)
THEOREM PagesApart == MCSpec => ItemsSpec /\ TouchSpec /\ Spec /\ RulesPageSpec
<1>1. MCInit => ItemsInit /\ TouchInit /\ Init /\ RulesPageInit
  BY Zenon DEF MCInit
<1>2. [MCNext]_all => /\ [ItemsNext]_itemVars /\ [TouchNext]_touchVars /\ [Next]_vars
                      /\ [RulesPageNext]_ruleVars
  BY Zenon DEF MCNext, all
<1> QED
  BY <1>1, <1>2, PTL DEF MCSpec, ItemsSpec, TouchSpec, Spec, RulesPageSpec

\* The widgets do so where it is they that move.
PartsTyped ==
  /\ mover \in {"items", "touch", "widgets", "feeds", "rules"}
  /\ mover = "widgets" => WidgetsTyped

LEMMA PartsStay == PartsTyped /\ [MCNext]_all => PartsTyped'
<1> SUFFICES ASSUME PartsTyped, [MCNext]_all PROVE PartsTyped'
  OBVIOUS
<1>1. mover' = mover
  BY Zenon DEF MCNext, all
<1>2. ASSUME mover = "widgets" PROVE WidgetsTyped'
  <2>1. CASE Parts!Next
    BY <1>2, <2>1, ShellStays, FocusStays, TrayStays, ChipsStay, CopyStays, Zenon
       DEF PartsTyped, WidgetsTyped
  <2>2. CASE UNCHANGED widgetVars
    BY <1>2, <2>2, Zenon DEF PartsTyped, widgetVars, WidgetsTyped, ShellTyped, FocusTyped,
       TrayTyped, ChipsTyped, CopyTyped, OthersTyped
  <2>3. Parts!Next \/ UNCHANGED widgetVars
    BY Zenon DEF MCNext, all
  <2> QED
    BY <2>1, <2>2, <2>3
<1> QED
  BY <1>1, <1>2, Zenon DEF PartsTyped

(* TypesOK: each variable of each page has its type, for every value of    *)
(* the constants of all of them.                                           *)
THEOREM PageTypesCorrect == MCSpec => []TypesOK
<1>1. MCInit => PartsTyped
  BY WidgetsInit, Zenon DEF MCInit, PartsTyped
<1>2. PartsTyped /\ ItemsTypeOK /\ TouchTypeOK /\ TypeOK /\ RulesPageTypeOK => TypesOK
  <2> SUFFICES ASSUME PartsTyped, ItemsTypeOK, TouchTypeOK, TypeOK, RulesPageTypeOK
               PROVE  TypesOK
    OBVIOUS
  <2>1. mover = "widgets" => Parts!TypeOK
    BY WidgetsAll, Zenon DEF PartsTyped
  <2>2. CASE mover = "items"
    BY <2>2 DEF TypesOK
  <2>3. CASE mover = "touch"
    BY <2>3 DEF TypesOK
  <2>4. CASE mover = "widgets"
    BY <2>1, <2>4 DEF TypesOK
  <2>5. CASE mover = "feeds"
    BY <2>5 DEF TypesOK
  <2>6. CASE mover = "rules"
    BY <2>6 DEF TypesOK
  <2> QED
    BY <2>2, <2>3, <2>4, <2>5, <2>6, Zenon DEF PartsTyped
<1> QED
  BY <1>1, <1>2, PagesApart, PartsStay, ItemTypesCorrect, TouchTypeCorrect, TypeCorrect,
     RuleTypesCorrect, PTL DEF MCSpec
=============================================================================

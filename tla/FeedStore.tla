----------------------------- MODULE FeedStore -----------------------------
(***************************************************************************)
(* Feeds and their tags on the server and in a browser: the requests of    *)
(* frontend/src/lib/feed-db.ts and tag-db.ts, what the server does with    *)
(* them (internal/httpapi/handler.go, cmd/feed-reader/opml_importer.go,    *)
(* store/tag_store.go), the queries they invalidate, and the marks of the  *)
(* feeds that are being fetched (lib/fetching-state.ts).  The query cache  *)
(* (TanStack Query) is external: an invalidation makes a query run again   *)
(* and drops the run under way.  FeedsPage sends the requests.             *)
(***************************************************************************)
EXTENDS Integers, Sequences, FiniteSets, FiniteSetsExt, Functions

CONSTANTS Url,
          Tag,
          MaxId,    \* bound on the feeds ever created
          Op,       \* numbers of the requests under way at a time
          MaxActs,  \* bound on what users do
          MaxSent   \* bound on the requests of it

VARIABLES db,       \* the tables feeds, tags and feed_tags
          used,     \* ids given away, of feeds and of tags
          cached,   \* what the queries last delivered
          query,    \* a query "asked" for, "read" by the server, or "idle"
          answer,   \* what it has read
          ops,      \* requests
          marks,    \* fetchingState.fetchingFeedIds
          errors,   \* fetchingState.errors: its keys
          acts,
          behind,   \* history: queries that nobody told of a change
          crossed   \* history: feeds whose fetches overlapped

server == <<db, used>>
cache == <<cached, query, answer>>
fetching == <<marks, errors, crossed>>

NoUrl == "none"

\* Nothing is called what stands for none of it.
ASSUME StoreAssumption ==
  /\ IsFiniteSet(Url) /\ Url # {} /\ NoUrl \notin Url
  /\ Tag # {} /\ Tag \cap {"none", "all", "untagged"} = {}
  /\ MaxId \in Nat \ {0} /\ {MaxActs, MaxSent} \subseteq Nat
  /\ Op \subseteq Nat \ {0}

Id == 1 .. MaxId
Query == {"feeds", "tags", "feed-tags"}
Tables == [feeds : [Id -> Url \cup {NoUrl}], tags : SUBSET Tag, links : SUBSET (Id \X Tag)]
Stored(d) == {i \in Id : d.feeds[i] # NoUrl}
TagsOf(i, d) == {t \in Tag : <<i, t>> \in d.links}
FeedsOf(t, d) == {i \in Id : <<i, t>> \in d.links}

Free == [kind |-> "none", phase |-> "free", url |-> {}, ids |-> {}, add |-> {},
         remove |-> {}, wrote |-> {}, todo |-> <<>>]

StoreTypeOK ==
  /\ db \in Tables /\ db.links \subseteq Stored(db) \X db.tags
  /\ used.feeds \in 0 .. MaxId /\ db.tags \subseteq used.tags /\ used.tags \subseteq Tag
  /\ cached \in [Query -> Tables] /\ answer \in [Query -> Tables]
  /\ query \in [Query -> {"idle", "asked", "read"}]
  /\ \A o \in Op :
       /\ ops[o].kind \in {"none", "create", "delete", "manage", "tagInsert", "tagDelete",
                           "import", "refresh", "suspend"}
       /\ ops[o].phase \in {"free", "sent", "working", "done", "refused", "telling"}
       /\ ops[o].url \subseteq Url /\ ops[o].ids \subseteq Id /\ ops[o].wrote \subseteq Id
       /\ ops[o].add \cup ops[o].remove \subseteq Tag
       /\ Range(ops[o].todo) \subseteq SUBSET Query
  /\ marks \subseteq Id /\ errors \subseteq Id /\ crossed \subseteq Id
  /\ acts \in [done : 0 .. MaxActs, sent : 0 .. MaxSent] /\ behind \subseteq Query

\* What a query delivers of the tables; the rest of the record is empty.
Nothing == [feeds |-> [i \in Id |-> NoUrl], tags |-> {}, links |-> {}]
Answer(q, d) ==
  CASE q = "feeds" -> [d EXCEPT !.tags = {}]
    [] q = "tags" -> [d EXCEPT !.feeds = Nothing.feeds]
    [] q = "feed-tags" -> [Nothing EXCEPT !.links = d.links]

\* Everything has just been loaded: nothing, or a feed with a tag.
StoreInit ==
  LET u == CHOOSE v \in Url : TRUE
      t == CHOOSE v \in Tag : TRUE
  IN \/ db = Nothing /\ used = [feeds |-> 0, tags |-> {}]
     \/ /\ db = [feeds |-> [Nothing.feeds EXCEPT ![1] = u], tags |-> {t}, links |-> {<<1, t>>}]
        /\ used = [feeds |-> 1, tags |-> {t}]

LoadedInit ==
  /\ StoreInit
  /\ cached = [q \in Query |-> Answer(q, db)]
  /\ query = [q \in Query |-> "idle"] /\ answer = [q \in Query |-> Nothing]
  /\ ops = [o \in Op |-> Free]
  /\ marks = {} /\ errors = {} /\ crossed = {}
  /\ acts = [done |-> 0, sent |-> 0] /\ behind = {}

Room == acts.done < MaxActs
Act == Room /\ acts' = [acts EXCEPT !.done = @ + 1]
Ask == Room /\ acts.sent < MaxSent /\ acts' = [done |-> acts.done + 1, sent |-> acts.sent + 1]

-----------------------------------------------------------------------------
(* Requests are sent.                                                      *)

\* The requests are alike: the first that is free.
IsFree(o) == o = Min({p \in Op : ops[p].phase = "free"} \cup {o}) /\ ops[o].phase = "free"

New(kind) == [Free EXCEPT !.kind = kind, !.phase = "sent"]
Sent(o, request) == ops' = [ops EXCEPT ![o] = request]

Pending(kind) == \E o \in Op : ops[o].kind = kind

\* Another refresh of the feed is under way.
Refreshed(o, i) ==
  \E p \in Op \ {o} : /\ ops[p].kind = "refresh" /\ i \in ops[p].ids
                      /\ ops[p].phase \in {"sent", "done", "refused"}

\* startFetching.
StartFetching(o, ids) ==
  /\ marks' = marks \cup ids
  /\ errors' = errors \ ids
  /\ crossed' = crossed \cup {i \in ids : Refreshed(o, i)}

RefreshFeeds(o, ids) ==
  /\ IsFree(o)
  /\ Sent(o, [New("refresh") EXCEPT !.ids = ids])
  /\ StartFetching(o, ids)

-----------------------------------------------------------------------------
(* The server.                                                             *)

Set(o, phase, wrote) == ops' = [ops EXCEPT ![o] = [@ EXCEPT !.phase = phase, !.wrote = wrote]]

Known(urls) == {u \in urls : \E i \in Id : db.feeds[i] = u}

\* createFeedFromURL up to CreateFeed: the URL is unique.
CreateFeed(o) ==
  /\ ops[o].kind = "create" /\ ops[o].phase = "sent"
  /\ Known(ops[o].url) = {} /\ used.feeds < MaxId
  /\ used' = [used EXCEPT !.feeds = @ + 1]
  /\ \E u \in ops[o].url : db' = [db EXCEPT !.feeds = [@ EXCEPT ![used'.feeds] = u]]
  /\ Set(o, "working", {used'.feeds})
  /\ UNCHANGED <<cache, fetching, acts, behind>>

\* MarkFeedFetched and SetFeedTags: a transaction, but one of its own; rows
\* refer to feeds and tags that exist.
SetFeedTags(o) ==
  LET new == ops[o].wrote
  IN /\ ops[o].kind = "create" /\ ops[o].phase = "working"
     /\ IF new \subseteq Stored(db) /\ ops[o].add \subseteq db.tags
        THEN /\ db' = [db EXCEPT !.links = {l \in @ : l[1] \notin new} \cup (new \X ops[o].add)]
             /\ ops' = [ops EXCEPT ![o] = [@ EXCEPT !.phase = "done"]]
        ELSE ops' = [ops EXCEPT ![o] = [@ EXCEPT !.phase = "refused"]] /\ UNCHANGED db
     /\ UNCHANGED <<used, cache, fetching, acts, behind>>

\* ImportSync looks the URLs up first, and fetches what is new.  One that
\* cannot be fetched is reported.
ImportChecks(o) ==
  /\ ops[o].kind = "import" /\ ops[o].phase = "sent"
  /\ \E failed \in SUBSET (ops[o].url \ Known(ops[o].url)) :
       LET fetched == ops[o].url \ (Known(ops[o].url) \cup failed)
       IN ops' = [ops EXCEPT ![o] = [@ EXCEPT !.phase = IF fetched = {} THEN "done" ELSE "working",
                                              !.url = fetched]]
  /\ UNCHANGED <<server, cache, fetching, acts, behind>>

\* Which id the n-th of some URLs gets; their order does not matter.
NewIds(urls) ==
  {f \in [used.feeds + 1 .. used.feeds + Cardinality(urls) -> urls] : Range(f) = urls}

\* The bound on ids; the name of a tag that was deleted would get another one.
NewTags(tags) == tags \cap (used.tags \ db.tags) = {}
Storable(urls, tags) == used.feeds + Cardinality(urls) <= MaxId /\ NewTags(tags)
Given(urls, tags) ==
  [feeds |-> used.feeds + Cardinality(urls), tags |-> used.tags \cup tags]

\* Mutated ImportStores: without a transaction.
ImportStoresSome(o) ==
  LET new == ops[o].url \ Known(ops[o].url)
  IN /\ ops[o].kind = "import" /\ ops[o].phase = "working"
     /\ Storable(new, ops[o].add) /\ used' = Given(new, ops[o].add)
     /\ \E f \in NewIds(new) :
          /\ db' = [feeds |-> [i \in Id |-> IF i \in DOMAIN f THEN f[i] ELSE db.feeds[i]],
                    tags |-> db.tags \cup ops[o].add,
                    links |-> db.links \cup ((DOMAIN f) \X ops[o].add)]
          /\ Set(o, IF new = ops[o].url THEN "done" ELSE "refused", DOMAIN f)
     /\ UNCHANGED <<cache, fetching, acts, behind>>

\* The transaction: tags as they are missing, feeds, links; a URL that has
\* been taken meanwhile fails all of it.
ImportStores(o) ==
  /\ ops[o].kind = "import" /\ ops[o].phase = "working"
  /\ \/ /\ Known(ops[o].url) = {} /\ Storable(ops[o].url, ops[o].add)
        /\ used' = Given(ops[o].url, ops[o].add)
        /\ \E f \in NewIds(ops[o].url) :
             /\ db' = [feeds |-> [i \in Id |-> IF i \in DOMAIN f THEN f[i] ELSE db.feeds[i]],
                       tags |-> db.tags \cup ops[o].add,
                       links |-> db.links \cup ((DOMAIN f) \X ops[o].add)]
             /\ Set(o, "done", DOMAIN f)
     \/ Set(o, "refused", {}) /\ UNCHANGED server
  /\ UNCHANGED <<cache, fetching, acts, behind>>

\* What the other requests make of the tables.
Deleted(ids) ==
  [db EXCEPT !.feeds = [i \in Id |-> IF i \in ids THEN NoUrl ELSE db.feeds[i]],
             !.links = {l \in @ : l[1] \notin ids}]
Managed(ids, add, remove) ==
  [db EXCEPT !.links = (@ \ (ids \X remove)) \cup (ids \X add)]
TagInserted(tags) == [db EXCEPT !.tags = @ \cup tags]
TagDeleted(tags) == [db EXCEPT !.tags = @ \ tags, !.links = {l \in @ : l[2] \notin tags}]

\* Rows for feeds or tags that are gone are refused, whole requests at a time;
\* what is deleted may be gone already.
Possible(r) ==
  CASE r.kind = "manage" -> r.add = {} \/ (r.ids \subseteq Stored(db) /\ r.add \subseteq db.tags)
    [] r.kind = "suspend" -> r.ids \subseteq Stored(db)
    [] r.kind = "tagInsert" -> NewTags(r.add)
    [] OTHER -> TRUE

Execute(o) ==
  LET r == ops[o]
  IN /\ r.phase = "sent" /\ r.kind \in {"delete", "manage", "tagInsert", "tagDelete",
                                        "refresh", "suspend"}
     /\ Possible(r)
     /\ db' = CASE r.kind = "delete" -> Deleted(r.ids)
                [] r.kind = "manage" -> Managed(r.ids, r.add, r.remove)
                [] r.kind = "tagInsert" -> TagInserted(r.add)
                [] r.kind = "tagDelete" -> TagDeleted(r.remove)
                [] OTHER -> db
     /\ used' = [used EXCEPT !.tags = @ \cup db'.tags]
     /\ ops' = [ops EXCEPT ![o] = [@ EXCEPT !.phase = "done"]]
     /\ UNCHANGED <<cache, fetching, acts, behind>>

\* A query reads.
Read(q) ==
  /\ query[q] = "asked"
  /\ query' = [query EXCEPT ![q] = "read"]
  /\ answer' = [answer EXCEPT ![q] = Answer(q, db)]
  /\ UNCHANGED <<server, cached, ops, fetching, acts, behind>>

-----------------------------------------------------------------------------
(* Answers.                                                                *)

\* What a request invalidates, in steps; how long a creation or a deletion
\* waits for one query before the next is left open.
Told(kind) ==
  CASE kind \in {"create", "delete"} -> <<{"feeds"}, {"tags"}, {"feed-tags"}>>
    [] kind = "manage" -> <<Query>>
    [] kind \in {"tagInsert", "tagDelete"} -> <<{"tags"}>>
    [] kind = "refresh" -> <<{"feeds", "tags"}>>
    [] kind \in {"import", "suspend"} -> <<{"feeds"}>>

\* The queries whose data a request has changed.
Changed(r) ==
  IF r.phase = "sent" \/ (r.phase = "refused" /\ r.wrote = {}) THEN {}
  ELSE CASE r.kind \in {"create", "import", "delete", "manage", "tagDelete"} -> Query
         [] r.kind = "tagInsert" -> {"tags"}
         [] OTHER -> {}

\* Mutated FinishFetching: the marks stay with a failed request.
FinishFetchingOk(ids, failed) ==
  /\ marks' = marks \ (ids \ failed)
  /\ errors' = (errors \ ids) \cup failed

FinishFetching(ids, failed) ==
  /\ marks' = marks \ ids
  /\ errors' = (errors \ ids) \cup failed

\* What a refresh makes of the marks; an answer has an error per feed.
Fetched(o, lost) ==
  IF ops[o].kind # "refresh" THEN UNCHANGED fetching
  ELSE /\ \E failed \in (IF ops[o].phase = "done" /\ ~lost THEN SUBSET ops[o].ids
                         ELSE {ops[o].ids}) : FinishFetching(ops[o].ids, failed)
       /\ crossed' = crossed \ {i \in ops[o].ids : ~Refreshed(o, i)}

\* Mutated Invalidate: a run under way goes on.
InvalidateKeeps(qs) ==
  /\ query' = [q \in Query |-> IF q \in qs /\ query[q] = "idle" THEN "asked" ELSE query[q]]
  /\ UNCHANGED <<cached, answer>>

\* invalidateQueries: the queries start over.
Invalidate(qs) ==
  /\ query' = [q \in Query |-> IF q \in qs THEN "asked" ELSE query[q]]
  /\ answer' = [q \in Query |-> IF q \in qs THEN Nothing ELSE answer[q]]
  /\ UNCHANGED cached

Last(todo) == Len(todo) = 1
Tell(o, todo) ==
  /\ Invalidate(Head(todo))
  /\ ops' = [ops EXCEPT ![o] = IF Last(todo) THEN Free
                               ELSE [@ EXCEPT !.phase = "telling", !.todo = Tail(todo)]]

\* The answer arrives.
Settle(o) ==
  LET todo == Told(ops[o].kind)
  IN /\ ops[o].phase = "done"
     /\ Fetched(o, FALSE) /\ Tell(o, todo)
     /\ behind' = (behind \cup (Changed(ops[o]) \ UNION Range(todo))) \ Head(todo)
     /\ UNCHANGED <<server, acts>>

TellNext(o) ==
  /\ ops[o].phase = "telling" /\ Tell(o, ops[o].todo)
  /\ behind' = behind \ Head(ops[o].todo)
  /\ UNCHANGED <<server, fetching, acts>>

\* It is an error, so the server has changed nothing or only a part, or it is
\* lost, as is perhaps the request itself: nothing is invalidated.
Fail(o) ==
  /\ ops[o].phase \in {"sent", "done", "refused"}
  /\ Fetched(o, TRUE)
  /\ ops' = [ops EXCEPT ![o] = Free]
  /\ behind' = behind \cup Changed(ops[o])
  /\ UNCHANGED <<server, cache, acts>>

\* A query delivers.
Deliver(q) ==
  /\ query[q] = "read"
  /\ cached' = [cached EXCEPT ![q] = answer[q]]
  /\ query' = [query EXCEPT ![q] = "idle"]
  /\ answer' = [answer EXCEPT ![q] = Nothing]
  /\ UNCHANGED <<server, ops, fetching, acts, behind>>
=============================================================================
